----------------------------- MODULE MCServices -----------------------------
(***************************************************************************)
(* The services beside the rollout and the change flow, checked together.  *)
(* They share no variable, so a behaviour of all of them is an             *)
(* interleaving of behaviours of each, and every property below speaks of  *)
(* one: a behaviour therefore chooses the component whose steps it shows   *)
(* (focus) and leaves the others in an initial state.                      *)
(***************************************************************************)
EXTENDS GateRunner, ReleaseBuild, Workers, ImageJobs, EnrolmentRings, RemoteActions,
        FleetWrites, Credentials, CacheAuth, Elevation, Access, Compliance, PersonalData

VARIABLE focus

services == <<gateVars, releaseVars, workerVars, imageVars, enrolVars,
              actionVars, docVars, credentialVars, cacheVars, elevationVars,
              accessVars, boardVars, personVars, focus>>

\* Every component but one stands still.
Only(c) ==
    /\ focus = c /\ UNCHANGED focus
    /\ c # "gate" => UNCHANGED gateVars
    /\ c # "release" => UNCHANGED releaseVars
    /\ c # "workers" => UNCHANGED workerVars
    /\ c # "image" => UNCHANGED imageVars
    /\ c # "rings" => UNCHANGED enrolVars
    /\ c # "actions" => UNCHANGED actionVars
    /\ c # "fleet" => UNCHANGED docVars
    /\ c # "creds" => UNCHANGED credentialVars
    /\ c # "cache" => UNCHANGED cacheVars
    /\ c # "elevation" => UNCHANGED elevationVars
    /\ c # "access" => UNCHANGED accessVars
    /\ c # "compliance" => UNCHANGED boardVars
    /\ c # "person" => UNCHANGED personVars

(***************************************************************************)
(* The instance.                                                           *)
(***************************************************************************)
GateHosts    == [r \in Requests |-> IF r = "edit" THEN <<"a", "b">> ELSE <<>>]
GateFleet    == <<<<"a", "">>, <<"a", "-sb">>, <<"b", "">>, <<"b", "-sb">>>>
GateVariants == <<"", "-sb">>
GateBroken   == [p \in Requests \X (1..MaxMain) |->
                    CASE p = <<"edit", 2>> -> {<<"b", "-sb">>}
                      [] p = <<"bulk", 1>> -> {<<"a", "">>}
                      [] OTHER -> {}]
GateConflict == {<<"bulk", 2>>}

ReleaseKeys == {[rev |-> 1, hosts |-> <<"a", "b", "c">>], [rev |-> 1, hosts |-> <<"a">>]}

Machines ==
    {[efi |-> m[1], chip |-> m[2], wantSB |-> m[3], wantTPM2 |-> m[4]] : m \in
        {<<TRUE, TRUE, TRUE, TRUE>>, <<TRUE, FALSE, TRUE, TRUE>>, <<TRUE, TRUE, TRUE, FALSE>>,
         <<FALSE, TRUE, TRUE, TRUE>>, <<TRUE, TRUE, FALSE, TRUE>>}}

BareOrFull == {{}, Carried}
Errands ==
    {<<"reboot", "reboot">>, <<"reboot", "lock">>, <<"diagnostics", "diagnostics">>,
     <<"diagnostics", "reboot">>, <<"lock", "diagnostics">>, <<"lock", "wipe">>, <<"wipe", "lock">>}

TypedName == [e \in Enrolments |-> IF e = "e1" THEN "n1" ELSE "n2"]
Plugged   == [e \in Enrolments |-> IF e = "e1" THEN {"s1"} ELSE {"s1", "s2"}]
RingsOf   == [t \in {"m", "k", "n1", "n2"} |-> IF t \in {"m", "n1"} THEN {1, 2} ELSE {2}]

Sc(v, e) == [set |-> v, enf |-> e, apps |-> {}]
Gr(p, s) == [parent |-> p, pin |-> "", allowed |-> {}, scope |-> s]
De(st, gs, c, od) == [NewDevice("hwA", c, gs) EXCEPT !.state = st, !.overdue = od]
Tree == [g \in {"top", "sub", "side"} |-> IF g = "sub" THEN Gr("top", NoScope) ELSE Gr("", NoScope)]
Pol(v, e) == [set |-> v, enf |-> e, profile |-> FALSE]
As(p, t, f, n) == [policy |-> p, target |-> t, filter |-> f, prio |-> n]
MCPolicies == [p \in {"p", "q"} |-> IF p = "p" THEN Pol("on", FALSE) ELSE Pol("off", TRUE)]
Ru(a, o, v) == [attr |-> a, op |-> o, values |-> v]
MCFilters == [x \in {"inside", "outtop"} |-> IF x = "inside"
   THEN [match |-> "", rules |-> {Ru("group", "eq", {"side"})}]
   ELSE [match |-> "any", rules |-> {Ru("group", "ne", {"top"}), Ru("class", "eq", {"desk"})}]]
Ring(g, c) == [group |-> g, groups |-> <<>>, cap |-> c]
Mixed == [org |-> Sc("off", FALSE), groups |-> [Tree EXCEPT !["side"].scope = Sc("off", TRUE)],
   devices |-> [t \in {"d1", "d2", "d3"} |-> CASE t = "d1" -> De("active", <<"side", "sub">>, "desk", FALSE)
       [] t = "d2" -> De("provisional", <<"top">>, "laptop", TRUE) [] OTHER -> De("retired", <<"sub">>, "desk", FALSE)],
   policies |-> MCPolicies, filters |-> MCFilters,
   assignments |-> <<As("p", GroupRef("top"), "inside", 0), As("q", GroupRef("top"), "outtop", 0)>>,
   rings |-> <<Ring("side", 1)>>, access |-> {[who |-> "team", role |-> Viewer, scope |-> GroupRef("side")]}, assurance |-> FALSE]
Bare == [EmptyFleet EXCEPT !.groups = [g \in {"top", "side"} |-> Gr("", NoScope)],
   !.devices = [t \in {"d1"} |-> De("active", <<>>, "desk", FALSE)]]
MCSeeds == {Mixed, Bare, EmptyFleet}
MCBaseline == [g \in {"admins", "ops"} |-> IF g = "admins" THEN Owner ELSE Viewer]
MCOrder == <<"new", "side", "sub", "top">>
MCHardware == [h \in {"hwA"} |-> [policy |-> "hw-hwA", filter |-> "hardware-hwA"]]
MCProfiles == {[name |-> "prof", class |-> "laptop", filter |-> "class-laptop", set |-> "on"]}
MCBindings == {As("q", GroupRef("top"), "", 0), As("p", GroupRef("side"), "outtop", 3), As("hw-hwA", DeviceRef("d1"), "", 0)}
MCGrants == {[who |-> "team", role |-> Viewer, scope |-> GroupRef("top")]}
MCPlans == {<<Ring("sub", 0), Ring("side", 0)>>, <<>>,
            <<Ring("sub", 0), [Ring("ghost", 0) EXCEPT !.groups = <<"side">>]>>}
MCLadders == {<<50, 50>>, <<>>, <<60, 60>>}
MCRefs == {Org, GroupRef("top")}

EngOwns == [who |-> "eng", role |-> Owner, scope |-> Org]
AccessDoc == [EmptyFleet EXCEPT !.groups = [g \in {"top"} |-> Gr("", NoScope)], !.access = {EngOwns}]
AccessEdits == {EngOwns}
Wanted(i, k, g, c) == [id |-> i, kind |-> k, groups |-> g, cap |-> c, ttl |-> 2]
AskedTokens == {Wanted("t1", "personal", {}, None), Wanted("t2", "service", {"eng"}, Viewer),
                Wanted("t2", "personal", {}, None)}

MCMain == <<"m1", "m2", "m3", "m4">>
MCCoreOf == [r \in {"m1", "m2", "m3", "m4"} |-> IF r = "m1" THEN "old" ELSE "new"]
MCCorePinned == [c \in {"old", "new"} |-> IF c = "old" THEN 0 ELSE 1]
WatchedDoc == [EmptyFleet EXCEPT
   !.groups = [g \in {"top"} |-> [Gr("", Sc("on", FALSE)) EXCEPT !.pin = "m1"]],
   !.devices = [t \in {"d1"} |-> De("provisional", <<"top">>, "desk", FALSE)],
   !.policies = MCPolicies, !.assignments = <<As("p", GroupRef("top"), "", 0)>>]
Report(r, e, a, u) == [rev |-> r, err |-> e, ack |-> a, sb |-> "enforcing", usage |-> u]
FullDisk == [NoUsage EXCEPT !.diskUsed = 92, !.diskTotal = 100]
Absurd   == [NoUsage EXCEPT !.memUsed = 2, !.memTotal = 1]
MCReports == {Report("", "", "", NoUsage), Report("m1", "", "wipe-failed", FullDisk), Report("m2", "boom", "", NoUsage),
              Report("m4", "", "", NoUsage), Report("stray", "", "wipe-refused", NoUsage), Report("m3", "", "", Absurd)}
MCConditions == [p \in {"p"} |-> {[metric |-> "disk.free_percent", op |-> ">=", value |-> 15],
                                  [metric |-> "memory.free_percent", op |-> ">=", value |-> 15]}]

(***************************************************************************)
(* The composition.                                                        *)
(***************************************************************************)
\* A component that is not shown starts in one of its initial states.
ServicesInit ==
    /\ focus \in {"gate", "release", "workers", "image", "rings",
                 "actions", "fleet", "creds", "cache", "elevation", "access",
                 "compliance", "person"}
    /\ GateInit
    /\ ReleaseInit
    /\ WorkerInit
    /\ ImageInit
    /\ EnrolInit
    /\ ActionInit
    /\ DocInit
    /\ CredentialInit
    /\ CacheInit
    /\ ElevationInit
    /\ AccessInit
    /\ ComplianceInit
    /\ PersonInit
    /\ focus # "image" => hw = CHOOSE c \in Configs : TRUE
    /\ focus # "actions" => orders = CHOOSE o \in Orders : TRUE
    /\ focus # "rings" => \A e \in Enrolments : enrol[e].serial = CHOOSE s \in Serials[e] : TRUE
    /\ focus # "fleet" => fdoc = EmptyFleet
    /\ focus # "access" => sess = NoSession

ServicesNext ==
    \/ Only("gate") /\ GateNext
    \/ Only("release") /\ ReleaseNext
    \/ Only("workers") /\ WorkerNext
    \/ Only("image") /\ ImageNext
    \/ Only("rings") /\ EnrolNext
    \/ Only("actions") /\ ActionNext
    \/ Only("fleet") /\ DocNext
    \/ Only("creds") /\ CredentialNext
    \/ Only("cache") /\ CacheNext
    \/ Only("elevation") /\ ElevationNext
    \/ Only("access") /\ AccessNext
    \/ Only("compliance") /\ ComplianceNext
    \/ Only("person") /\ PersonNext

\* What the code goes on doing by itself: a request's handler, a build's
\* goroutine, the leader loop and the upstream watcher.
Fairness ==
    /\ \A r \in Requests : WF_gateVars(focus = "gate" /\ HandlerStep(r))
    /\ \A k \in BuildKeys : WF_releaseVars(focus = "release" /\ JobStep(k))
    /\ \A r \in Replicas : /\ WF_workerVars(focus = "workers" /\ LeaderStep(r))
                           /\ WF_workerVars(focus = "workers" /\ WatchStep(r))

ServicesSpec == ServicesInit /\ [][ServicesNext]_services /\ Fairness

\* In the behaviours that show the workers, the watcher gets past every upstream
\* revision, also past one whose change can never be opened because a crash left
\* its branch without a record (app/upstream.go CheckOnce, app/change.go Open).
WatcherCatchesUp == <>[](focus = "workers" => seen = head)

=============================================================================
