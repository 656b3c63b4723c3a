---------------------------- MODULE FleetWrites ----------------------------
(***************************************************************************)
(* Who writes the fleet document, and what the gate proves of it: the      *)
(* console's and the API's handlers (src/internal/http), the services that *)
(* write on their own, and the transaction they share (app/config.go,      *)
(* app/verdicts.go) with its sampling and its verdict memo.                *)
(*                                                                         *)
(* A handler reads the snapshot to find the hosts its change affects, then *)
(* waits for the write lock: other writes may land in between.  prior is   *)
(* the document before the last write, and a handler's radius comes from   *)
(* it or from the current document.                                        *)
(***************************************************************************)
EXTENDS FleetDoc

CONSTANTS
    SeedDocs,       \* documents the console may start from
    EditRefs,       \* the scopes edited
    EditGroups,     \* the groups that requests name as a parent, a home or a test ring
    EditValues,     \* the values set
    AppNames,
    FreshGroup, FreshTag,
    Policies, Filters, Profiles,    \* ids to definitions that may be put
    Bindings,       \* assignments that may be made
    AccessGrants,         \* access bindings that may be granted
    Plans,          \* rollout plans that may be put
    Ladders,        \* percentages a plan may be derived from
    MaxWrites       \* bound: writes after the start

(***************************************************************************)
(* The documents the console may start from.                               *)
(***************************************************************************)
\* The policies of hardware models: clearing a model deletes its policy whatever binds it.
DerivedPolicies == {HardwarePolicies[h].policy : h \in DOMAIN HardwarePolicies}

\* What a binding may name.
Refs(f) == {Org} \cup {GroupRef(g) : g \in DOMAIN f.groups} \cup {DeviceRef(t) : t \in DOMAIN f.devices}

SoundBindings(f) ==
    [policy : DOMAIN f.policies \cup DerivedPolicies,
     target : Refs(f), filter : DOMAIN f.filters \cup {""}, prio : Int]

SoundGroups(f) ==
    /\ IsFiniteSet(DOMAIN f.groups) /\ "" \notin DOMAIN f.groups
    /\ \A g \in DOMAIN f.groups : /\ "parent" \in DOMAIN f.groups[g]
                                  /\ f.groups[g].parent \in DOMAIN f.groups \cup {""}

SoundDevices(f) ==
    \A t \in DOMAIN f.devices : /\ "groups" \in DOMAIN f.devices[t]
                                /\ f.devices[t].groups \in Seq(DOMAIN f.groups)

SoundFilters(f) ==
    \A id \in DOMAIN f.filters : \A r \in f.filters[id].rules :
        r.attr = "group" /\ r.op # "ne" => r.values \subseteq DOMAIN f.groups

SoundRings(f)  == \A r \in ToSet(f.rings) : r.groups = <<>> => r.group \in DOMAIN f.groups \cup {""}
SoundAccess(f) == \A b \in f.access : b.scope \in {Org} \cup {GroupRef(g) : g \in DOMAIN f.groups}

\* Every group lies deeper than its parent: the groups form a forest.
Deeper(f, depth) ==
    \A g \in DOMAIN f.groups : f.groups[g].parent \in DOMAIN f.groups =>
        depth[f.groups[g].parent] < depth[g]

\* A document whose parts name only what it holds.
Sound(f) ==
    /\ DOMAIN f = DOMAIN EmptyFleet
    /\ SoundGroups(f) /\ SoundDevices(f) /\ f.assignments \in Seq(SoundBindings(f))
    /\ SoundFilters(f) /\ SoundRings(f) /\ SoundAccess(f)

\* A reference is one of the three forms (scope.go).
IsRef(ref) == ref = Org \/ ref = GroupRef(ref[2]) \/ ref = DeviceRef(ref[2])

\* The console starts from a sound document; requests are well-formed: a slug for a
\* name, a reference for a scope.
ASSUME WriteAssumption ==
    /\ \A f \in SeedDocs : Sound(f) /\ \E depth \in [DOMAIN f.groups -> 0..Cardinality(DOMAIN f.groups)] :
                                            Deeper(f, depth)
    /\ FreshGroup # ""
    /\ \A a \in Bindings : /\ IsRef(a.target)
                           /\ a \in [policy : {a.policy}, target : {a.target}, filter : {a.filter}, prio : Int]
    /\ \A b \in AccessGrants : IsRef(b.scope)

VARIABLES
    fdoc,       \* the committed document
    prior,      \* the document before the last write
    tx,         \* what the write lock's holder is about to commit, or NoTx
    source,     \* the committed tree without fleet.json: "old" or "bumped" core
    memo,       \* verdictCache.seen
    evaluated,  \* history: what a nix evaluation accepted
    vouched,    \* history: keys recorded with no evaluation of the shape behind them
    lag,        \* history: the last write's radius was out of date
    fwrites     \* bound

docVars == <<fdoc, prior, tx, source, memo, evaluated, vouched, lag, fwrites>>

NoTx == <<>>

DocInit ==
    /\ fdoc \in SeedDocs /\ prior = fdoc /\ tx = NoTx
    /\ source = "old" /\ memo = {} /\ evaluated = {} /\ vouched = {}
    /\ lag = FALSE /\ fwrites = 0

(***************************************************************************)
(* The write transaction: the lock is taken and the mutation applied by    *)
(* the handler's action, the gate and the commit follow under the same     *)
(* lock.                                                                   *)
(***************************************************************************)
\* Two bindings reach the device at one scope with different priorities.
PrioritiesDiffer(f, t) ==
    \E i, k \in DOMAIN f.assignments :
        LET a == f.assignments[i]  b == f.assignments[k] IN
        /\ a.target = b.target /\ a.prio # b.prio
        /\ Delivers(f, a, t) /\ Delivers(f, b, t)

verdictKey(f, t) == <<source, GeneratorGlobalsKey(f), classKey(f, t)>>

partitionHosts(f, hosts) ==
    {t \in hosts : t \notin Active(f) \/ verdictKey(f, t) \notin memo}

\* results: what the mutation makes of the current document, {} on an error.
Begin(gate, hosts, results, late) ==
    /\ \E f \in results \ {fdoc} :
        tx' = [gate |-> gate, hosts |-> hosts, doc |-> f, late |-> late]
    /\ UNCHANGED <<fdoc, prior, source, memo, evaluated, vouched, lag, fwrites>>

sampleOf(w) == IF w.hosts = {} THEN Representatives(w.doc) ELSE SampleHosts(w.doc, w.hosts)

\* What the gate builds: the unproved part of the sample; an empty sample
\* asks for the whole fleet.
toBuild(w, sample) == IF sample = {} THEN Active(w.doc) ELSE partitionHosts(w.doc, sample)

applyTx ==
    /\ tx # NoTx
    /\ LET sample == sampleOf(tx)
           run == toBuild(tx, sample)
           keys == {verdictKey(tx.doc, t) : t \in sample \cap Active(tx.doc)}
           skip == sample # {} /\ run = {}
       IN  /\ tx.gate = "nix" => \A t \in run : Evaluates(tx.doc, t)
           /\ memo' = IF skip THEN memo ELSE memo \cup keys
           /\ evaluated' = IF tx.gate = "nix"
                           THEN evaluated \cup {<<source, BuildInputs(tx.doc, t)>> : t \in run}
                           ELSE evaluated
           /\ vouched' = vouched \cup (IF tx.gate = "pass" THEN keys \ memo ELSE {})
                         \cup {verdictKey(tx.doc, t) :
                                  t \in {u \in Active(tx.doc) : PrioritiesDiffer(tx.doc, u)}}
    /\ fdoc' = tx.doc /\ prior' = fdoc /\ lag' = tx.late
    /\ tx' = NoTx /\ fwrites' = fwrites + 1
    /\ UNCHANGED source

\* The gate finds a host that does not evaluate: the document is put back.
Refused ==
    /\ tx # NoTx /\ tx.gate = "nix"
    /\ \E t \in toBuild(tx, sampleOf(tx)) : ~Evaluates(tx.doc, t)
    /\ tx' = NoTx
    /\ UNCHANGED <<fdoc, prior, source, memo, evaluated, vouched, lag, fwrites>>

Apply(hosts, results)    == Begin("nix", hosts, results, FALSE)
ApplyStructural(results) == Begin("pass", {}, results, FALSE)

\* The snapshot a handler read, and a write to the hosts it found there.
Seen == {fdoc, prior}
ApplyAt(ref, results) ==
    \E hosts \in {AffectedHosts(s, ref) : s \in Seen} :
        Begin("nix", hosts, results, hosts # AffectedHosts(fdoc, ref))

(***************************************************************************)
(* Settings and apps.                                                      *)
(***************************************************************************)
SetSetting(ref, v, on) ==
    /\ ~fdoc.assurance
    /\ ApplyAt(ref, UNION {SetScopeEnforce(f, ref, on) : f \in SetScopeSetting(fdoc, ref, v)})

ClearSetting(ref) ==
    /\ ~fdoc.assurance
    /\ ApplyAt(ref, ClearScopeSetting(fdoc, ref))

postDeviceSetting(t, v) ==
    ApplyAt(DeviceRef(t), SetScopeSetting(fdoc, DeviceRef(t), v))

putApps(ref, names) ==
    ApplyAt(ref, SetScopeApps(fdoc, ref, names))

(***************************************************************************)
(* Devices.                                                                *)
(***************************************************************************)
postDevice(hw, class, groups) ==
    Apply({FreshTag}, AddDevice(fdoc, FreshTag, NewDevice(hw, class, groups)))

patchDevice(t, hw, class, groups) == Apply({t}, UpdateDevice(fdoc, t, hw, class, groups))
deleteDevice(t)         == Apply({}, RemoveDevice(fdoc, t))
apiRetire(t)            == Apply({}, RetireDevice(fdoc, t))
postDeviceReactivate(t) == Apply({t}, ReactivateDevice(fdoc, t))
postDeviceRetire(t)     == ApplyStructural(RetireDevice(fdoc, t))
postDeviceRemove(t)     == ApplyStructural(RemoveDevice(fdoc, t))

\* A first report (capabilities.go) and the cohort's release (rollout.go).
FirstReport(t)       == Apply({t}, ActivateProvisional(fdoc, t))
ReleaseDevice(t, g)  == /\ \E r \in ToSet(fdoc.rings) : g \in GroupList(r) /\ r.cap > 0
                        /\ t \in GroupDevices(prior, g) /\ prior.devices[t].state = "active"
                        /\ Apply({t}, SetDevicePin(fdoc, t, g))

\* The list comes from the snapshot; only the state is checked again.
ReapAbandonedEnrolments ==
    \E s \in Seen :
        LET stale == {t \in AbandonedEnrolments(s) \cap DOMAIN fdoc.devices :
                        fdoc.devices[t].state = "provisional"}
        IN  /\ AbandonedEnrolments(s) # {}
            /\ Apply({}, {[fdoc EXCEPT
                    !.devices = [t \in DOMAIN @ \ stale |-> @[t]],
                    !.assignments = Unbinding(fdoc, {a \in ToSet(@) : a.target \in {DeviceRef(t) : t \in stale}})]})

(***************************************************************************)
(* Groups.                                                                 *)
(***************************************************************************)
postGroup(parent)    == Apply({}, AddGroup(fdoc, FreshGroup, parent))
postGroupAdd(parent) == ApplyStructural(AddGroup(fdoc, FreshGroup, parent))
deleteGroup(g)       == Apply({}, RemoveGroup(fdoc, g))
postGroupRemove(g)   == ApplyStructural(RemoveGroup(fdoc, g))

patchGroup(g, parent) ==
    ApplyAt(GroupRef(g), SetGroupParent(fdoc, g, parent))
postGroupAllowed(g, classes) == Apply({}, SetGroupAllowedClasses(fdoc, g, classes))
postGroupUnpin(g) ==
    ApplyAt(GroupRef(g), SetGroupPin(fdoc, g, ""))
PinRing(g, target) ==
    ApplyAt(GroupRef(g), SetGroupPin(fdoc, g, target))
postDevicesGroupCreate(parent, tags) ==
    Apply(tags, CreateGroupWithDevices(fdoc, FreshGroup, parent, tags))

(***************************************************************************)
(* Policies, hardware, the plan, access.                                   *)
(***************************************************************************)
putPolicy(id, p)     == Apply({}, PutPolicy(fdoc, id, p))
\* The console's form keeps the provenance it reads in the snapshot.
postPolicyPut(id, p) ==
    \E s \in Seen : Apply({}, PutPolicy(fdoc, id,
        [p EXCEPT !.profile = id \in DOMAIN s.policies /\ s.policies[id].profile]))
deletePolicy(id)     == Apply({}, DeletePolicy(fdoc, id))
postProfileApply(pr) == Apply({}, ApplyProfile(fdoc, pr))
putFilter(id, fl)    == Apply({}, PutFilter(fdoc, id, fl))
deleteFilter(id)     == Apply({}, DeleteFilter(fdoc, id))
postAssignment(a)    == ApplyAt(a.target, Assign(fdoc, a))
deleteAssignment(a)  == ApplyAt(a.target, Unassign(fdoc, a))
postHardwareConfigure(hw, ref, v, on) == Apply({}, ConfigureHardware(fdoc, hw, ref, v, on))

putRolloutPlan(rings) == Apply({}, SetRolloutPlan(fdoc, rings))
postUpdatesPolicy(test, percents) ==
    \E s \in Seen : /\ test \in DOMAIN s.groups
                    /\ \E p \in parsePercents(percents) :
                        Apply({}, SetRolloutPlan(fdoc, derivePlan(s, test, p)))

postAccess(b)       == Apply({}, Grant(fdoc, b))
postAccessGrant(b)  == ApplyStructural(Grant(fdoc, b))
deleteAccess(b)     == Apply({}, Revoke(fdoc, b.who, b.scope))
postAccessRevoke(b) == ApplyStructural(Revoke(fdoc, b.who, b.scope))
putAssurance(on)    == Apply({}, SetAssurance(fdoc, on))
postAssurance(on)   == ApplyStructural(SetAssurance(fdoc, on))

\* SyncLoop brings in a commit that moves flake.lock.
CoreBump ==
    /\ source = "old" /\ source' = "bumped"
    /\ UNCHANGED <<fdoc, prior, tx, memo, evaluated, vouched, lag, fwrites>>

SettingWrites ==
    \/ \E ref \in EditRefs, v \in EditValues, on \in BOOLEAN : SetSetting(ref, v, on)
    \/ \E ref \in EditRefs : ClearSetting(ref)
    \/ \E t \in DOMAIN fdoc.devices, v \in EditValues : postDeviceSetting(t, v)
    \/ \E ref \in EditRefs, names \in SUBSET AppNames : putApps(ref, names)

DeviceWrites ==
    \/ \E class \in Classes, g \in EditGroups : postDevice("hwA", class, <<g>>)
    \/ \E t \in DOMAIN fdoc.devices :
        LET d == fdoc.devices[t] IN
        \/ \E class \in Classes : patchDevice(t, d.hw, class, d.groups)
        \/ \E g \in EditGroups : patchDevice(t, d.hw, d.class, Append(d.groups, g))
        \/ patchDevice(t, d.hw, d.class, <<>>)
        \/ patchDevice(t, "hwA", d.class, d.groups)
        \/ deleteDevice(t) \/ apiRetire(t) \/ postDeviceReactivate(t)
        \/ postDeviceRetire(t) \/ postDeviceRemove(t) \/ FirstReport(t)
        \/ \E g \in DOMAIN fdoc.groups : ReleaseDevice(t, g)
    \/ ReapAbandonedEnrolments

GroupWrites ==
    \/ \E parent \in EditGroups \cup {""} : postGroup(parent) \/ postGroupAdd(parent)
    \/ \E g \in DOMAIN fdoc.groups :
        \/ deleteGroup(g) \/ postGroupRemove(g)
        \/ \E parent \in EditGroups \cup {""} : patchGroup(g, parent)
        \/ g \in EditGroups /\ \E class \in Classes : postGroupAllowed(g, {class})
        \/ g \in EditGroups /\ (postGroupUnpin(g) \/ PinRing(g, "rev"))
    \/ \E tags \in SUBSET DOMAIN fdoc.devices \ {{}} : postDevicesGroupCreate("", tags)

PolicyWrites ==
    \/ \E id \in DOMAIN Policies : putPolicy(id, Policies[id]) \/ postPolicyPut(id, Policies[id])
    \/ \E id \in DOMAIN fdoc.policies : deletePolicy(id)
    \/ \E pr \in Profiles : postProfileApply(pr)
    \/ \E id \in DOMAIN Filters : putFilter(id, Filters[id])
    \/ \E id \in DOMAIN fdoc.filters : deleteFilter(id)
    \/ \E a \in Bindings : postAssignment(a)
    \/ \E a \in ToSet(fdoc.assignments) : deleteAssignment(a)
    \/ \E hw \in DOMAIN HardwarePolicies, v \in EditValues \cup {NoValue} :
        postHardwareConfigure(hw, Org, v, FALSE)

GovernanceWrites ==
    \/ \E rings \in Plans : putRolloutPlan(rings)
    \/ \E test \in EditGroups, percents \in Ladders : postUpdatesPolicy(test, percents)
    \/ \E b \in AccessGrants : postAccess(b) \/ postAccessGrant(b)
    \/ \E b \in fdoc.access : deleteAccess(b) \/ postAccessRevoke(b)
    \/ \E on \in BOOLEAN : putAssurance(on) \/ postAssurance(on)

\* The write lock is free, and the bound leaves room for another write.
LockFree == tx = NoTx /\ fwrites < MaxWrites

DocNext ==
    \/ LockFree /\ (SettingWrites \/ DeviceWrites \/ GroupWrites \/ PolicyWrites \/ GovernanceWrites
                     \/ CoreBump)
    \/ applyTx \/ Refused

DocSpec == DocInit /\ [][DocNext]_docVars

(***************************************************************************)
(* Properties.                                                             *)
(***************************************************************************)
\* resolve.nix resolves every device as resolve.go does, whatever the
\* document's history.  The one exception, the priority that ADR 0026 removed
\* from the Go resolver and that the twin still breaks ties by, never goes
\* unreported: the console lists both the collision and the inert priority
\* (chain.go contributor, resolve.nix better, conflicts.go).  And the waves an
\* owner confirms are the waves the run gets, with a device in one of them,
\* whenever the run starts at all (rollout_ops.go rolloutPreview, rollout.go
\* StartWith).
TwinsAgree ==
    /\ \A t \in DOMAIN fdoc.devices :
        \/ Resolve(fdoc, t) = nixResolve(fdoc, t)
        \/ \E c \in PolicyConflicts(fdoc), a \in InertPriorities(fdoc) :
            /\ c.target \in ToSet(scopePositions(fdoc, t))
            /\ a.target = c.target /\ a.policy \in {c.winner, c.loser}
    /\ \A scope \in DOMAIN fdoc.groups \cup {""} :
        \A page \in rolloutPreview(fdoc, scope), rings \in startRings(fdoc, scope) :
            /\ page.rings = rings
            /\ \E i \in DOMAIN rings : \E g \in GroupList(rings[i]) : ActiveGroupDevices(fdoc, g) # {}

\* A write leaves no active device to be built from inputs nobody evaluated
\* against this source: what the sample leaves out shares a shape with what
\* was evaluated, a memo hit was an evaluation, and a write that skips the
\* gate changes no build (applyTx, classKey, verdicts.go, ApplyStructural).
\* Outside it: a device that entered the scope after the handler read its
\* radius, a key a structural write recorded, and the priority tie above.
EveryBuildProved ==
    [][ fdoc' # fdoc =>
        \A t \in Active(fdoc') :
            \/ t \in Active(fdoc) /\ BuildInputs(fdoc', t) = BuildInputs(fdoc, t)
            \/ <<source, BuildInputs(fdoc', t)>> \in evaluated'
            \/ /\ lag' /\ t \in Active(fdoc)
               /\ t \in Active(prior) => MemberGroups(prior, t) # MemberGroups(fdoc, t)
            \/ <<source, GeneratorGlobalsKey(fdoc'), classKey(fdoc', t)>> \in vouched
            \/ \E u \in Active(fdoc') : PrioritiesDiffer(fdoc', u)
      ]_docVars

\* No write leaves a reference to nothing: bindings name a policy, a filter
\* and a target that exist, groups form a forest, devices sit in groups that
\* exist, and no removal pulls a group from under a filter, a ring or an
\* access binding (RemoveGroup, DeletePolicy, DeleteFilter, RemoveDevice,
\* SetGroupParent).  A hardware model's own policy is outside it: clearing
\* the model deletes the policy whatever else binds it.  The document narrowed
\* for a reader of one scope (VisibleTo) keeps what its bindings name as well.
\* A wave that lists groups is outside it, in both of its fields: RemoveGroup
\* compares the name with a ring's group and not with its groups, so such a wave
\* can lose a group, and SetRolloutPlan checks GroupList, which passes over the
\* group of a wave that has both.
NothingDangles ==
    /\ \A a \in ToSet(fdoc.assignments) :
        /\ a.policy \in DOMAIN fdoc.policies \cup DerivedPolicies
        /\ a.filter \in DOMAIN fdoc.filters \cup {""}
        /\ validateTarget(fdoc, a.target)
    /\ \A g \in DOMAIN fdoc.groups :
        LET up == GroupAncestry(fdoc, g) IN fdoc.groups[up[1]].parent = ""
    /\ \A t \in DOMAIN fdoc.devices : ToSet(fdoc.devices[t].groups) \subseteq DOMAIN fdoc.groups
    /\ \A id \in DOMAIN fdoc.filters : \A r \in fdoc.filters[id].rules :
        r.attr = "group" /\ r.op # "ne" => r.values \subseteq DOMAIN fdoc.groups
    /\ \A r \in ToSet(fdoc.rings) : r.groups = <<>> => r.group \in DOMAIN fdoc.groups \cup {""}
    /\ \A b \in fdoc.access :
        /\ b.scope[1] = "group" => b.scope[2] \in DOMAIN fdoc.groups
        /\ LET view == VisibleTo(fdoc, {b.who}) IN
           \A a \in ToSet(view.assignments) :
            /\ a.policy \in DOMAIN fdoc.policies => a.policy \in DOMAIN view.policies
            /\ a.filter \in DOMAIN view.filters \cup {""}
            /\ validateTarget(view, a.target)
=============================================================================
