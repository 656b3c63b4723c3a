------------------------------ MODULE FleetDoc ------------------------------
(***************************************************************************)
(* The fleet document (src/internal/domain/fleet) and its nix twin         *)
(* (src/nix/resolve.nix, src/nix/generator.nix): what a device resolves    *)
(* to, what the generator builds it from, which devices share a shape, and *)
(* the mutations that edit the document.                                   *)
(*                                                                         *)
(* Resolution is per setting key, so one key stands for all: a scope holds *)
(* its value (or NoValue), whether it enforces it, and its app names.  A   *)
(* mutation is an operator from a document to the set of documents it may  *)
(* produce: one document, or none when the code returns an error.          *)
(***************************************************************************)
EXTENDS Integers, Sequences, FiniteSets, SequencesExt

CONSTANTS
    NameOrder,      \* Seq(STRING): the group names in string order
    Classes,        \* the device classes (vocab.go)
    ClassFilters,   \* the filter ids a profile's class derives ("class-...")
    Baseline,       \* [IdP group -> role]: the org-wide roles of the server's configuration
    HardwarePolicies    \* [hardware profile -> [policy, filter]]: the ids it derives

NoValue  == "unset"
NoScope  == [set |-> NoValue, enf |-> FALSE, apps |-> {}]
Org      == <<"org">>
GroupRef(g)  == <<"group", g>>
DeviceRef(t) == <<"device", t>>

\* One pending intent, the packages and the asset record of a device, and the
\* fleet's stations and secret names decide nothing here and are left out.
EmptyFleet ==
    LET none == [x \in {} |-> 0] IN
    [org |-> NoScope, groups |-> none, devices |-> none, policies |-> none, filters |-> none,
     assignments |-> <<>>, rings |-> <<>>, access |-> {}, assurance |-> FALSE]

NewDevice(hw, class, groups) ==
    [state |-> "active", groups |-> groups, class |-> class, hw |-> hw, pin |-> "",
     overdue |-> FALSE, scope |-> NoScope]

With(fn, k, v)  == [x \in DOMAIN fn \cup {k} |-> IF x = k THEN v ELSE fn[x]]
Without(fn, k)  == [x \in DOMAIN fn \ {k} |-> fn[x]]

\* The elements of s that are in S, in their order.
Among(s, S) ==
    LET kept[i \in 0..Len(s)] ==
            IF i = 0 THEN <<>>
            ELSE IF s[i] \in S THEN Append(kept[i-1], s[i]) ELSE kept[i-1]
    IN  kept[Len(s)]

\* The bindings of f but those in gone.
Unbinding(f, gone) == Among(f.assignments, ToSet(f.assignments) \ gone)

(***************************************************************************)
(* Groups.                                                                 *)
(***************************************************************************)
\* Root first; a cycle or an unknown parent ends the walk.
GroupAncestry(f, g) ==
    LET n == Cardinality(DOMAIN f.groups)
        walk[i \in 0..n] ==
            IF i = 0 THEN IF g \in DOMAIN f.groups THEN <<g>> ELSE <<>>
            ELSE LET chain == walk[i-1] IN
                 IF chain # <<>> /\ f.groups[chain[1]].parent \in DOMAIN f.groups \ ToSet(chain)
                 THEN <<f.groups[chain[1]].parent>> \o chain ELSE chain
    IN  walk[n]

MemberGroups(f, t) == UNION {ToSet(GroupAncestry(f, g)) : g \in ToSet(f.devices[t].groups)}

GroupChildren(f, g) == {c \in DOMAIN f.groups : f.groups[c].parent = g}
GroupDevices(f, g)  == {t \in DOMAIN f.devices : g \in ToSet(f.devices[t].groups)}
Active(f)           == {t \in DOMAIN f.devices : f.devices[t].state # "retired"}
ActiveGroupDevices(f, g) == GroupDevices(f, g) \cap Active(f)

checkClassAllowed(f, class, groups) ==
    \A g \in groups \cap DOMAIN f.groups :
        f.groups[g].allowed # {} => class \in f.groups[g].allowed

\* No listed group is an ancestor of another listed group.
rejectAncestorDuplication(f, groups) ==
    \A g \in groups : ToSet(GroupAncestry(f, g)) \cap groups \subseteq {g}

\* The devices an edit at ref can touch; {} stands for the whole fleet.
AffectedHosts(f, ref) ==
    CASE ref[1] = "device" -> IF ref[2] \in DOMAIN f.devices \ Active(f) THEN {} ELSE {ref[2]}
      [] ref[1] = "group"  -> {t \in Active(f) : ref[2] \in MemberGroups(f, t)}
      [] OTHER -> {}

(***************************************************************************)
(* Filters and assignments.                                                *)
(***************************************************************************)
matchesRule(f, r, t) ==
    LET d == f.devices[t]
        got == CASE r.attr = "tag" -> t
                 [] r.attr = "class" -> d.class
                 [] r.attr = "hardware" -> d.hw
                 [] OTHER -> ""
        in == IF r.attr = "group" THEN MemberGroups(f, t) ELSE {got}
    IN  IF r.op = "ne" THEN r.values \cap in = {} ELSE r.values \cap in # {}

matchesFilter(f, fl, t) ==
    /\ fl.rules # {}
    /\ IF fl.match = "any" THEN \E r \in fl.rules : matchesRule(f, r, t)
                           ELSE \A r \in fl.rules : matchesRule(f, r, t)

Delivers(f, a, t) ==
    /\ a.policy \in DOMAIN f.policies
    /\ a.filter # "" => a.filter \in DOMAIN f.filters /\ matchesFilter(f, f.filters[a.filter], t)

\* The pairs of bindings that claim the key at one target with different
\* values, and the bindings that still carry a priority.
PolicyConflicts(f) ==
    {[target |-> f.assignments[p[1]].target,
      winner |-> f.assignments[p[1]].policy, loser |-> f.assignments[p[2]].policy] :
        p \in {q \in (DOMAIN f.assignments) \X (DOMAIN f.assignments) :
            LET a == f.assignments[q[1]]  b == f.assignments[q[2]] IN
            /\ q[1] < q[2] /\ a.target = b.target
            /\ {a.policy, b.policy} \subseteq DOMAIN f.policies /\ a.policy # b.policy
            /\ NoValue \notin {f.policies[a.policy].set, f.policies[b.policy].set}
            /\ f.policies[a.policy].set # f.policies[b.policy].set}}

InertPriorities(f) == {a \in ToSet(f.assignments) : a.prio # 0}

(***************************************************************************)
(* The Go resolver.  The chain is a sequence of scope references, general  *)
(* to specific; a scope reached twice keeps its first place.               *)
(***************************************************************************)
scopePositions(f, t) ==
    LET gs == f.devices[t].groups
        walked == FlattenSeq([i \in DOMAIN gs |-> GroupAncestry(f, gs[i])])
        first == SelectSeq([i \in DOMAIN walked |-> <<i, walked[i]>>],
                           LAMBDA p : \A k \in 1..(p[1]-1) : walked[k] # p[2])
    IN  <<Org>> \o [i \in DOMAIN first |-> GroupRef(first[i][2])] \o <<DeviceRef(t)>>

ScopeAt(f, ref) ==
    CASE ref[1] = "group"  -> f.groups[ref[2]].scope
      [] ref[1] = "device" -> f.devices[ref[2]].scope
      [] OTHER -> f.org

chainFor(f, t) ==
    LET pos == scopePositions(f, t)
        from(i, inl, k, s) == [spec |-> i, inline |-> inl, order |-> k, set |-> s.set, enf |-> s.enf]
    IN  {from(i, TRUE, 0, ScopeAt(f, pos[i])) : i \in DOMAIN pos}
        \cup
        {from(p[1], FALSE, p[2], f.policies[f.assignments[p[2]].policy]) :
            p \in {q \in (DOMAIN pos) \X (DOMAIN f.assignments) :
                    /\ pos[q[1]] = f.assignments[q[2]].target
                    /\ Delivers(f, f.assignments[q[2]], t)}}

\* Seeded fault: at one scope a delivered policy beats the inline setting.
betterGoPolicy(a, b, general) ==
    CASE a.spec # b.spec     -> IF general THEN a.spec < b.spec ELSE a.spec > b.spec
      [] a.inline # b.inline -> b.inline
      [] OTHER               -> a.order < b.order

betterGo(a, b, general) ==
    CASE a.spec # b.spec     -> IF general THEN a.spec < b.spec ELSE a.spec > b.spec
      [] a.inline # b.inline -> a.inline
      [] OTHER               -> a.order < b.order

resolveKey(chain) ==
    LET having    == {c \in chain : c.set # NoValue}
        enforcers == {c \in having : c.enf}
        best(cs, general) == CHOOSE c \in cs : \A o \in cs \ {c} : betterGo(c, o, general)
    IN  CASE enforcers # {} -> [value |-> best(enforcers, TRUE).set, enforced |-> TRUE]
          [] having # {} /\ enforcers = {} -> [value |-> best(having, FALSE).set, enforced |-> FALSE]
          [] OTHER -> [value |-> NoValue, enforced |-> FALSE]

Resolve(f, t) == resolveKey(chainFor(f, t))

ResolveApps(f, t) ==
    UNION {ScopeAt(f, r).apps : r \in {Org, DeviceRef(t)} \cup {GroupRef(g) : g \in MemberGroups(f, t)}}

(***************************************************************************)
(* The nix twin: folds over lists and attribute sets, and a tie rule of    *)
(* its own.                                                                *)
(***************************************************************************)
nixPositions(f, t) ==
    LET place(a, anc) == IF GroupRef(anc) \in DOMAIN a.pos THEN a
                         ELSE [pos |-> With(a.pos, GroupRef(anc), a.next), next |-> a.next + 1]
        step(a, g) == FoldLeft(place, a, GroupAncestry(f, g))
        folded == FoldLeft(step, [pos |-> [r \in {Org} |-> 0], next |-> 1], f.devices[t].groups)
    IN  With(folded.pos, DeviceRef(t), folded.next)

nixChainFor(f, t) ==
    LET pos == nixPositions(f, t)
        refs == [i \in 1..Cardinality(DOMAIN pos) |-> CHOOSE r \in DOMAIN pos : pos[r] = i - 1]
        inlineOf(r) == [spec |-> pos[r], inline |-> TRUE, prio |-> 0, order |-> -1,
                        set |-> ScopeAt(f, r).set, enf |-> ScopeAt(f, r).enf]
        policyOf(i) ==
            LET a == f.assignments[i] IN
            IF Delivers(f, a, t) /\ a.target \in DOMAIN pos
            THEN <<[spec |-> pos[a.target], inline |-> FALSE, prio |-> a.prio, order |-> i - 1,
                    set |-> f.policies[a.policy].set, enf |-> f.policies[a.policy].enf]>>
            ELSE <<>>
    IN  [i \in DOMAIN refs |-> inlineOf(refs[i])]
        \o FlattenSeq([i \in DOMAIN f.assignments |-> policyOf(i)])

betterNix(general, a, b) ==
    CASE a.spec # b.spec     -> IF general THEN a.spec < b.spec ELSE a.spec > b.spec
      [] a.inline # b.inline -> a.inline
      [] a.prio # b.prio     -> a.prio > b.prio
      [] OTHER               -> a.order < b.order

pick(general, cs) ==
    FoldLeft(LAMBDA best, c : IF best = <<>> THEN <<c>>
                              ELSE IF betterNix(general, c, best[1]) THEN <<c>> ELSE best,
             <<>>, cs)

nixResolve(f, t) ==
    LET having == SelectSeq(nixChainFor(f, t), LAMBDA c : c.set # NoValue)
        enf == pick(TRUE, SelectSeq(having, LAMBDA c : c.enf))
        def == pick(FALSE, having)
    IN  CASE enf # <<>> -> [value |-> enf[1].set, enforced |-> TRUE]
          [] enf = <<>> /\ def # <<>> -> [value |-> def[1].set, enforced |-> FALSE]
          [] OTHER -> [value |-> NoValue, enforced |-> FALSE]

ringBranchFor(f, t) ==
    LET covered == MemberGroups(f, t)
        released == SelectSeq(f.rings, LAMBDA r :
                        r.group \in covered /\ (r.cap = 0 \/ f.devices[t].pin = r.group))
    IN  IF released = <<>> THEN "main" ELSE released[1].group

\* mkFleet builds no retired device, and ringBranchFor reads the group of
\* every ring as soon as the device is in some group: a ring stored in the
\* groups form has none, and the evaluation throws.
Evaluates(f, t) ==
    /\ t \in Active(f)
    /\ MemberGroups(f, t) # {} => \A i \in DOMAIN f.rings : f.rings[i].group # ""

\* What mkFleet builds the device from, its name apart.
BuildInputs(f, t) ==
    [hw |-> f.devices[t].hw, class |-> f.devices[t].class, setting |-> nixResolve(f, t),
     branch |-> ringBranchFor(f, t), apps |-> ResolveApps(f, t)]

(***************************************************************************)
(* Shapes: the keys the gate's sample and its memo go by.                  *)
(***************************************************************************)
\* Seeded fault: the released cohort's pin is left out of the shape.
classKeyUnpinned(f, t) ==
    <<f.devices[t].hw, f.devices[t].class,
      {<<g, f.groups[g].pin>> : g \in MemberGroups(f, t)},
      Resolve(f, t), ResolveApps(f, t)>>

classKey(f, t) ==
    <<f.devices[t].hw, f.devices[t].class, f.devices[t].pin,
      {<<g, f.groups[g].pin>> : g \in MemberGroups(f, t)},
      Resolve(f, t), ResolveApps(f, t)>>

GeneratorGlobalsKey(f) == <<f.rings, f.access, f.assurance>>

\* Tags compare as strings; any fixed choice of one device per shape does.
firstOfClass(f, tags) ==
    LET key == [t \in tags |-> classKey(f, t)] IN
    {CHOOSE t \in tags : key[t] = k : k \in {key[t] : t \in tags}}

Representatives(f) == firstOfClass(f, Active(f))

SampleHosts(f, tags) ==
    IF Cardinality(tags) <= 1 THEN tags ELSE firstOfClass(f, tags \cap Active(f))

(***************************************************************************)
(* Mutations: scopes.                                                      *)
(***************************************************************************)
\* The document with s for the scope at ref.
withScope(f, ref, s) ==
    CASE ref[1] = "group"  -> {[f EXCEPT !.groups[g].scope = s] : g \in {ref[2]} \cap DOMAIN f.groups}
      [] ref[1] = "device" -> {[f EXCEPT !.devices[t].scope = s] : t \in {ref[2]} \cap DOMAIN f.devices}
      [] OTHER -> {[f EXCEPT !.org = s]}

SetScopeSetting(f, ref, v)   == withScope(f, ref, [ScopeAt(f, ref) EXCEPT !.set = v])
ClearScopeSetting(f, ref)    == withScope(f, ref, [ScopeAt(f, ref) EXCEPT !.set = NoValue, !.enf = FALSE])
SetScopeApps(f, ref, names)  == withScope(f, ref, [ScopeAt(f, ref) EXCEPT !.apps = names])
SetScopeEnforce(f, ref, on)  ==
    {g \in withScope(f, ref, [ScopeAt(f, ref) EXCEPT !.enf = on]) :
        on => ScopeAt(g, ref).set # NoValue}

(***************************************************************************)
(* Mutations: devices.                                                     *)
(***************************************************************************)
AddDevice(f, t, d) ==
    IF /\ t \notin DOMAIN f.devices
       /\ d.class \in Classes \cup {""}
       /\ ToSet(d.groups) \subseteq DOMAIN f.groups
       /\ checkClassAllowed(f, d.class, ToSet(d.groups))
    THEN {[f EXCEPT !.devices = With(@, t, [d EXCEPT !.state = "provisional"])]} ELSE {}

RemoveDevice(f, t) ==
    {[f EXCEPT !.devices = Without(@, u),
               !.assignments = Unbinding(f, {a \in ToSet(@) : a.target = DeviceRef(u)})] :
        u \in {t} \cap DOMAIN f.devices}

\* The patch's absent fields are the device's own.
UpdateDevice(f, t, hw, class, groups) ==
    IF /\ t \in DOMAIN f.devices
       /\ groups # f.devices[t].groups => /\ ToSet(groups) \subseteq DOMAIN f.groups
                                          /\ rejectAncestorDuplication(f, ToSet(groups))
       /\ checkClassAllowed(f, class, ToSet(groups))
    THEN {[f EXCEPT !.devices[t] = [@ EXCEPT !.hw = hw, !.class = class, !.groups = groups]]}
    ELSE {}

setDeviceState(f, t, to, from) ==
    {[f EXCEPT !.devices[u].state = to] :
        u \in {v \in {t} \cap DOMAIN f.devices : f.devices[v].state = from}}

RetireDevice(f, t)        == setDeviceState(f, t, "retired", "active")
ReactivateDevice(f, t)    == setDeviceState(f, t, "active", "retired")
ActivateProvisional(f, t) == setDeviceState(f, t, "active", "provisional")

SetDevicePin(f, t, ring) ==
    {[f EXCEPT !.devices[u].pin = ring] : u \in {t} \cap DOMAIN f.devices}

AbandonedEnrolments(f) ==
    {t \in DOMAIN f.devices : f.devices[t].state = "provisional" /\ f.devices[t].overdue}

(***************************************************************************)
(* Mutations: groups.                                                      *)
(***************************************************************************)
NewGroup(parent) == [parent |-> parent, pin |-> "", allowed |-> {}, scope |-> NoScope]

AddGroup(f, g, parent) ==
    IF g \notin DOMAIN f.groups /\ parent \in DOMAIN f.groups \cup {""}
    THEN {[f EXCEPT !.groups = With(@, g, NewGroup(parent))]} ELSE {}

CreateGroupWithDevices(f, g, parent, tags) ==
    LET joined(t) == IF t \in tags THEN [f.devices[t] EXCEPT !.groups = Append(@, g)] ELSE f.devices[t]
    IN  {[h EXCEPT !.devices = [t \in DOMAIN f.devices |-> joined(t)]] :
            h \in {k \in AddGroup(f, g, parent) :
                /\ tags \subseteq DOMAIN k.devices
                /\ \A t \in tags :
                    rejectAncestorDuplication(k, ToSet(k.devices[t].groups) \cup {g})}}

SetGroupParent(f, g, parent) ==
    IF /\ g \in DOMAIN f.groups
       /\ parent \in DOMAIN f.groups \cup {""}
       /\ g \notin ToSet(GroupAncestry(f, parent))
    THEN {[f EXCEPT !.groups[g].parent = parent]} ELSE {}

SetGroupAllowedClasses(f, g, classes) ==
    IF /\ g \in DOMAIN f.groups
       /\ classes \subseteq Classes
       /\ classes # {} => \A t \in ActiveGroupDevices(f, g) : f.devices[t].class \in classes
    THEN {[f EXCEPT !.groups[g].allowed = classes]} ELSE {}

SetGroupPin(f, g, target) ==
    {[f EXCEPT !.groups[h].pin = target] : h \in {g} \cap DOMAIN f.groups}

\* Seeded fault: a filter that names the group does not hold it back.
RemoveGroupFiltered(f, g) ==
    IF /\ g \in DOMAIN f.groups
       /\ GroupChildren(f, g) = {}
       /\ GroupDevices(f, g) = {}
       /\ \A a \in ToSet(f.assignments) : a.target # GroupRef(g)
       /\ \A b \in f.access : b.scope # GroupRef(g)
       /\ \A r \in ToSet(f.rings) : r.group # g
    THEN {[f EXCEPT !.groups = Without(@, g)]} ELSE {}

RemoveGroup(f, g) ==
    IF /\ g \in DOMAIN f.groups
       /\ GroupChildren(f, g) = {}
       /\ GroupDevices(f, g) = {}
       /\ \A a \in ToSet(f.assignments) : a.target # GroupRef(g)
       /\ \A b \in f.access : b.scope # GroupRef(g)
       /\ \A id \in DOMAIN f.filters : \A r \in f.filters[id].rules :
            r.attr = "group" => g \notin r.values
       /\ \A r \in ToSet(f.rings) : r.group # g
    THEN {[f EXCEPT !.groups = Without(@, g)]} ELSE {}

(***************************************************************************)
(* Mutations: policies, filters, assignments, profiles, hardware.          *)
(***************************************************************************)
PutPolicy(f, id, p) ==
    IF p.set # NoValue
    THEN {[f EXCEPT !.policies = With(@, id, p)]} ELSE {}

DeletePolicy(f, id) ==
    IF id \in DOMAIN f.policies /\ \A a \in ToSet(f.assignments) : a.policy # id
    THEN {[f EXCEPT !.policies = Without(@, id)]} ELSE {}

validateTarget(f, ref) ==
    CASE ref[1] = "group"  -> ref[2] \in DOMAIN f.groups
      [] ref[1] = "device" -> ref[2] \in DOMAIN f.devices
      [] OTHER -> TRUE

SameBinding(a, b) == a.policy = b.policy /\ a.target = b.target /\ a.filter = b.filter

Assign(f, a) ==
    IF /\ a.policy \in DOMAIN f.policies
       /\ validateTarget(f, a.target)
       /\ a.filter \in DOMAIN f.filters \cup {""}
       /\ \A x \in ToSet(f.assignments) : ~SameBinding(x, a)
    THEN {[f EXCEPT !.assignments = Append(@, a)]} ELSE {}

Unassign(f, a) ==
    IF \E x \in ToSet(f.assignments) : SameBinding(x, a)
    THEN {[f EXCEPT !.assignments = Unbinding(f, {x \in ToSet(@) : SameBinding(x, a)})]} ELSE {}

PutFilter(f, id, fl) ==
    IF /\ fl.rules # {} /\ \A r \in fl.rules : r.values # {}
       /\ \A r \in fl.rules : r.attr = "group" /\ r.op # "ne" => r.values \subseteq DOMAIN f.groups
    THEN {[f EXCEPT !.filters = With(@, id, fl)]} ELSE {}

DeleteFilter(f, id) ==
    IF id \in DOMAIN f.filters /\ \A a \in ToSet(f.assignments) : a.filter # id
    THEN {[f EXCEPT !.filters = Without(@, id)]} ELSE {}

Selecting(attr, v) == [match |-> "", rules |-> {[attr |-> attr, op |-> "eq", values |-> {v}]}]

\* The filter a profile or a hardware model derives: made, or already right.
EnsureFilter(f, id, fl) ==
    CASE id \notin DOMAIN f.filters -> PutFilter(f, id, fl)
      [] id \in DOMAIN f.filters /\ f.filters[id].rules = fl.rules -> {f}
      [] OTHER -> {}

\* pr = [name, class, filter, set]: filter is "class-<class>".
ApplyProfile(f, pr) ==
    LET mine == pr.name \notin DOMAIN f.policies \/ f.policies[pr.name].profile
        pol  == [set |-> pr.set, enf |-> FALSE, profile |-> TRUE]
        bind == [policy |-> pr.name, target |-> Org, filter |-> pr.filter, prio |-> 0]
        stale(a) == /\ a.policy = pr.name /\ a.target = Org
                    /\ a.filter # pr.filter /\ a.filter \in ClassFilters
        kept(h) == [h EXCEPT !.assignments = Unbinding(h, {a \in ToSet(@) : stale(a)})]
    IN  UNION {IF \E a \in ToSet(kept(h).assignments) : SameBinding(a, bind)
               THEN {kept(h)} ELSE Assign(kept(h), bind) :
                 h \in UNION {EnsureFilter(k, pr.filter, Selecting("class", pr.class)) :
                                k \in IF mine THEN PutPolicy(f, pr.name, pol) ELSE {}}}

Unbound(f, ids) ==
    Unbinding(f, {a \in ToSet(f.assignments) : a.policy = ids.policy /\ a.filter = ids.filter})

unconfigureHardware(f, ids) ==
    LET left == Unbound(f, ids) IN
    {[f EXCEPT !.assignments = left,
               !.policies = Without(@, ids.policy),
               !.filters = IF \E a \in ToSet(left) : a.filter = ids.filter
                           THEN @ ELSE Without(@, ids.filter)]}

ConfigureHardware(f, hw, target, v, enf) ==
    LET ids == HardwarePolicies[hw]
        pol == [set |-> v, enf |-> enf, profile |-> FALSE]
        ours(h) == ids.policy \in DOMAIN h.policies => ~h.policies[ids.policy].profile
        bound(h) == Assign([h EXCEPT !.assignments = Unbound(h, ids)],
                           [policy |-> ids.policy, target |-> target, filter |-> ids.filter, prio |-> 0])
    IN  CASE target[1] = "device" \/ ~validateTarget(f, target) -> {}
          [] OTHER ->
             IF v = NoValue THEN unconfigureHardware(f, ids)
             ELSE UNION {bound(h) : h \in UNION {PutPolicy(k, ids.policy, pol) :
                    k \in {j \in EnsureFilter(f, ids.filter, Selecting("hardware", hw)) : ours(j)}}}

(***************************************************************************)
(* Mutations: the rollout plan, access, governance.                        *)
(***************************************************************************)
GroupList(r) == IF r.groups # <<>> THEN ToSet(r.groups) ELSE {r.group} \ {""}

SetRolloutPlan(f, rings) ==
    IF \A i \in DOMAIN rings :
        /\ GroupList(rings[i]) # {}
        /\ GroupList(rings[i]) \subseteq DOMAIN f.groups
        /\ \A k \in 1..(i-1) : GroupList(rings[k]) \cap GroupList(rings[i]) = {}
    THEN {[f EXCEPT !.rings = rings]} ELSE {}

\* Whole groups, smallest first, and where each wave ends: when its cumulative share is met.
splitGroups(f, test, percents) ==
    LET size(g) == Cardinality(ActiveGroupDevices(f, g))
        at(g) == CHOOSE i \in DOMAIN NameOrder : NameOrder[i] = g
        rest == SetToSortSeq(DOMAIN f.groups \ {test}, LAMBDA a, b :
                    size(a) < size(b) \/ (size(a) = size(b) /\ at(a) < at(b)))
        cum[k \in 0..Len(rest)] == IF k = 0 THEN 0 ELSE cum[k-1] + size(rest[k])
        share[w \in 0..Len(percents)] == IF w = 0 THEN 0 ELSE share[w-1] + percents[w]
        goal(w) == (cum[Len(rest)] * share[w]) \div share[Len(percents)]
        upto[w \in 0..Len(percents)] ==
            CASE w = 0 -> 0
              [] w = Len(percents) -> Len(rest)
              [] OTHER -> LET stops == {k \in upto[w-1]..Len(rest) : cum[k] >= goal(w)} IN
                          CHOOSE k \in stops : \A m \in stops : k <= m
    IN  [order |-> rest, ends |-> upto]

derivePlan(f, test, percents) ==
    LET split == splitGroups(f, test, percents)
        wave(w) == SubSeq(split.order, split.ends[w-1] + 1, split.ends[w])
        waves == [w \in 1..Len(percents) |-> wave(w)]
        named == Among(waves, ToSet(waves) \ {<<>>})
    IN  <<[group |-> test, groups |-> <<>>, cap |-> 0]>>
        \o [i \in 1..Len(named) |-> [group |-> "", groups |-> named[i], cap |-> 0]]

\* One to five waves that add up to the whole fleet; none given is one wave.
parsePercents(raw) ==
    IF raw = <<>> THEN {<<100>>}
    ELSE IF /\ Len(raw) <= 5 /\ ToSet(raw) \subseteq 1..100
            /\ FoldSeq(LAMBDA n, sum : n + sum, 0, raw) = 100 THEN {raw} ELSE {}

\* The waves a run gets, for the fleet ("") or for one group behind the test wave.
startRings(f, scope) ==
    IF \/ f.rings = <<>> \/ scope \notin DOMAIN f.groups \cup {""}
       \/ \E r \in ToSet(f.rings) : ~(GroupList(r) \subseteq DOMAIN f.groups)
    THEN {}
    ELSE {CASE scope = "" -> f.rings
            [] GroupList(f.rings[1]) = {scope} -> <<f.rings[1]>>
            [] OTHER -> <<f.rings[1], [group |-> "", groups |-> <<scope>>, cap |-> 0]>>}

\* The devices of each wave, group by group: one in two groups counts twice.
waveRowsFor(f, rings) ==
    [i \in DOMAIN rings |-> FoldSet(LAMBDA g, sum : Cardinality(ActiveGroupDevices(f, g)) + sum,
                                   0, GroupList(rings[i]))]

\* What the confirmation page shows: the same narrowing, written a second time.
rolloutPreview(f, scope) ==
    LET rings == IF scope = "" THEN f.rings
                 ELSE IF GroupList(f.rings[1]) = {scope} THEN <<f.rings[1]>>
                 ELSE <<f.rings[1], [group |-> "", groups |-> <<scope>>, cap |-> 0]>>
    IN  IF f.rings = <<>> \/ scope \notin DOMAIN f.groups \cup {""} THEN {}
        ELSE IF \A i \in DOMAIN rings : waveRowsFor(f, rings)[i] = 0 THEN {}
        ELSE {[rings |-> rings, devices |-> waveRowsFor(f, rings)]}

\* Access is a list in the code; no rule reads its order.
Grant(f, b) ==
    IF b.scope = Org \/ (b.scope[1] = "group" /\ b.scope[2] \in DOMAIN f.groups)
    THEN {[f EXCEPT !.access = {x \in @ : ~(x.who = b.who /\ x.scope = b.scope)} \cup {b}]} ELSE {}

Revoke(f, who, scope) ==
    IF \E x \in f.access : x.who = who /\ x.scope = scope
    THEN {[f EXCEPT !.access = {x \in @ : ~(x.who = who /\ x.scope = scope)}]} ELSE {}

(***************************************************************************)
(* Who may do what, and what a reader of part of the fleet is shown.       *)
(***************************************************************************)
None   == 0
Viewer == 1
Editor == 2
Owner  == 3

Best(roles) == CHOOSE r \in roles \cup {None} : \A o \in roles : o <= r

\* The scopes whose bindings govern ref: the organisation and, above it, the
\* group itself or the device's groups.
governingScopes(f, ref) ==
    {Org} \cup
    CASE ref[1] = "group"  -> {GroupRef(g) : g \in ToSet(GroupAncestry(f, ref[2]))}
      [] ref[1] = "device" /\ ref[2] \in DOMAIN f.devices -> {GroupRef(g) : g \in MemberGroups(f, ref[2])}
      [] OTHER -> {}

RoleAt(f, groups, ref) ==
    Best({Baseline[g] : g \in groups \cap DOMAIN Baseline}
         \cup {b.role : b \in {x \in f.access : x.who \in groups /\ x.scope \in governingScopes(f, ref)}})

CanViewAnything(f, groups) ==
    \/ RoleAt(f, groups, Org) >= Viewer
    \/ \E b \in f.access : b.who \in groups /\ b.role >= Viewer

\* The document narrowed to the scopes that members of groups may see.  A filter
\* reached only through an assignment to the organisation keeps its name, not its
\* rules.
VisibleTo(f, groups) ==
    LET canView(ref) == RoleAt(f, groups, ref) >= Viewer
        kept == Among(f.assignments, {a \in ToSet(f.assignments) : a.target = Org \/ canView(a.target)})
        policies == {a.policy : a \in ToSet(kept)}
        whole == {a.filter : a \in {x \in ToSet(kept) : x.target # Org}}
        named == {a.filter : a \in ToSet(kept)}
        part(fn, ks) == [k \in DOMAIN fn \cap ks |-> fn[k]]
    IN  IF canView(Org) THEN f
        ELSE [f EXCEPT
            !.groups = part(@, {g \in DOMAIN @ : canView(GroupRef(g))}),
            !.devices = part(@, {t \in DOMAIN @ : canView(DeviceRef(t))}),
            !.assignments = kept,
            !.policies = part(@, policies),
            !.filters = [id \in DOMAIN @ \cap named |->
                            IF id \in whole THEN @[id] ELSE [@[id] EXCEPT !.rules = {}]],
            !.access = {b \in @ : b.scope = Org \/ canView(b.scope)},
            !.rings = <<>>]

SetAssurance(f, requireChange) == {[f EXCEPT !.assurance = requireChange]}
=============================================================================
