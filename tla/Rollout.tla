------------------------------ MODULE Rollout ------------------------------
(***************************************************************************)
(* The rollout service of one console replica                              *)
(* (src/internal/app/rollout.go) over the fleet document it pins, the ring *)
(* branches it moves and the devices that follow them.  One replica is     *)
(* what the chart deploys, and the service's scope: its mutex, its record  *)
(* (a file of the state directory) and its clone are all of one process.   *)
(* A second replica has a record of its own, which neither reads nor stops *)
(* this one; it is not modelled.                                           *)
(*                                                                         *)
(*  - A tick that promotes or widens is not atomic: it commits one pin     *)
(*    after another, moves one branch after another and stores the run     *)
(*    last.  Each commit and each push is a step of its own; any of them   *)
(*    may fail, and the process may crash between any two.                 *)
(*  - The service mutex is held for a whole tick, so Start, Cancel,        *)
(*    Approve, Pause, Resume and FollowHead wait for tick.pc = "idle".     *)
(*    The auto-start check reads the store without the mutex.              *)
(*  - A revision is a commit of main: its position in log.  The engine's   *)
(*    own pin commits are revisions too, which is what auto-flow has to    *)
(*    see through.                                                         *)
(*  - Time only matters while a soak clock runs, so Clock steps are taken  *)
(*    only then.                                                           *)
(*  - A tick that only rewrites the run record (wait, advance, ...) is one *)
(*    step: if its store write fails, nothing has happened.                *)
(***************************************************************************)
EXTENDS RolloutEngine, FiniteSets, SequencesExt

CONSTANTS
    Groups,         \* device groups
    Devices,        \* asset tags: numbers, in their sort order
    Members,        \* [Groups -> SUBSET Devices], subgroups included
    Plans,          \* the wave plans an operator may save
    Scopes,         \* group lists a run may be limited to; <<>> is the ladder
    MaxRings,       \* longest plan
    ScopedSoak,     \* soak of a scoped run's second wave (30 in the source)
    expeditedSoak,  \* soak of an expedited run (5 in the source)
    HasBuilder,     \* TRUE when build-before-promote is wired
    Origins,        \* who may start runs: "operator", "delivery", "autoflow"
    CommitKinds,    \* what people commit: "edit", "risky"
    Late,           \* devices that start provisional
    Flaky,          \* devices that may break, doze or disappear
    InitLog,        \* main's commits at the start; devices and branches run the first
    StartPinned,    \* TRUE when an earlier run has pinned every group
    Targets,        \* bound: revisions an operator may name
    MaxTime,        \* bound: clock
    MaxStarts,      \* bound: runs started
    MaxFaults,      \* bound: failed writes, failed pushes and crashes
    MaxEdits        \* bound: commits by people

NoRev   == 0                    \* no pin / no branch / nothing pending
RingIds == 1..MaxRings
Machine == "machine"            \* commits by sextant-rollout or sextant-agent

Ring == [group : Groups \cup {NoGroup}, groups : Seq(Groups), soak : Nat,
         minHealthyPercent : 0..100, requireApproval : BOOLEAN,
         minDevices : Nat, maxDevices : Nat]

ASSUME PlanAssumption ==
    \A p \in Plans : p \in Seq(Ring) /\ Len(p) \in 1..MaxRings

\* SetRolloutPlan: a wave names a group, and a group belongs to one wave.
ASSUME WaveAssumption ==
    \A p \in Plans : \A i, j \in 1..Len(p) :
        /\ GroupsOf(p[i]) # {}
        /\ i # j => GroupsOf(p[i]) \cap GroupsOf(p[j]) = {}

ASSUME ScopeAssumption ==
    /\ NoGroup \notin Groups
    /\ Scopes \subseteq Seq(Groups)

ASSUME SoakAssumption ==
    /\ MaxRings \in Nat \ {0, 1}
    /\ ScopedSoak \in Nat /\ expeditedSoak \in Nat

ASSUME FleetAssumption ==
    /\ Devices \subseteq Nat /\ IsFiniteSet(Devices)
    /\ Members \in [Groups -> SUBSET Devices]
    /\ Late \subseteq Devices /\ Flaky \subseteq Devices
    /\ CommitKinds \subseteq {"edit", "risky"}
    /\ InitLog \in Seq({"edit", "risky"}) /\ InitLog # <<>>

ASSUME BoundAssumption ==
    /\ MaxTime \in Nat /\ MaxStarts \in Nat /\ MaxFaults \in Nat /\ MaxEdits \in Nat
    /\ HasBuilder \in BOOLEAN /\ StartPinned \in BOOLEAN
    /\ Origins \subseteq {"operator", "delivery", "autoflow"}

VARIABLES
    \* the config repository: main's commits and fleet.json at its head
    log,        \* Seq of commit kinds; a revision is an index
    plan,       \* Rollout.Rings
    groupPin,   \* [Groups -> revision or NoRev]
    devPin,     \* [Devices -> Groups or NoGroup]: cohort release markers
    life,       \* [Devices -> "provisional", "active", "retired", "removed"]
    \* git branches rings/<group>
    localRef, remoteRef,
    \* observed plane: what each device last reported
    obs,
    \* the rollout store
    run,
    \* the service's memory: the tick under way, the deliveries and the
    \* auto-start that have not reached StartWith yet, the last risk hold, and
    \* the station enrolment at work, which does not use the service
    tick, delivery, auto, riskHoldNotified, enrol,
    now,
    \* history: remote branches when the run started, devices that have been
    \* part of a converged and soaked cohort, waves left because they were empty,
    \* where an enrolment put a remote branch since the service last moved it
    base, proven, emptied, placed,
    \* bounded environment
    starts, faults, edits

doc     == <<log, plan, groupPin, devPin, life>>
refs    == <<localRef, remoteRef>>
memory  == <<tick, delivery, auto, riskHoldNotified, enrol>>
history == <<base, proven, emptied, placed>>
bounds  == <<starts, faults, edits>>
vars    == <<doc, refs, obs, run, memory, now, history, bounds>>

head     == Len(log)
Idle     == [pc |-> "idle", kind |-> "none", todo |-> <<>>, batch |-> {}, at |-> 0]
NoRun    == [NewState(RingIds, NoRev, <<>>, "none") EXCEPT !.status = "none"]
NoEnrol  == [pc |-> "none", d |-> 0, rev |-> NoRev, todo |-> {}]
InFlight == run.status \in {"active", "paused", "halted"}
Unlocked == tick.pc = "idle"

(***************************************************************************)
(* The fleet document, read at the head of main.                           *)
(***************************************************************************)
ActiveGroupDevices(g)     == {d \in Members[g] : life[d] \notin {"retired", "removed"}}
ConvergingGroupDevices(g) == {d \in ActiveGroupDevices(g) : life[d] # "provisional"}

\* rolloutRing: only the single-group form of a wave is looked up.
Capped(g) == \E i \in 1..Len(plan) : plan[i].group = g /\ plan[i].maxDevices > 0

ReleasedGroupDevices(g) ==
    IF Capped(g) THEN {d \in ConvergingGroupDevices(g) : devPin[d] = g}
                 ELSE ConvergingGroupDevices(g)

\* ringBranchFor: the first wave (plan order) that covers and releases d.
ReleasingWaves(d) ==
    {i \in 1..Len(plan) :
        /\ plan[i].group # NoGroup
        /\ d \in Members[plan[i].group]
        /\ plan[i].maxDevices = 0 \/ devPin[d] = plan[i].group}

\* The one revision d's branch offers (as a singleton): main without a wave.
Offered(d) ==
    IF ReleasingWaves(d) = {} THEN {head}
    ELSE {remoteRef[plan[i].group] :
            i \in {k \in ReleasingWaves(d) : \A j \in ReleasingWaves(d) : k <= j}}

(***************************************************************************)
(* Convergence: the observed plane, aggregated over a wave's groups.  A    *)
(* device two of the groups share is listed twice in the total and counted *)
(* once by the query.                                                      *)
(***************************************************************************)
Listed(r, Tags(_)) ==
    Cardinality({p \in (1..Len(GroupList(r))) \X Devices : p[2] \in Tags(GroupList(r)[p[1]])})

RingStatus(r, target) ==
    LET tags  == UNION {ReleasedGroupDevices(g) : g \in GroupsOf(r)}
        total == Listed(r, ReleasedGroupDevices)
        On(c) == Cardinality({d \in tags : obs[d].rev = target /\ obs[d].cond = c})
        seen  == Cardinality({d \in tags : obs[d].cond # "absent"})
    IN  [total      |-> total,
         healthy    |-> On("ok"),
         broken     |-> On("broken"),
         absent     |-> total - seen,
         released   |-> total,                                  \* cohortFixup
         groupTotal |-> Listed(r, ConvergingGroupDevices)]

NoStatus == [total |-> 0, healthy |-> 0, broken |-> 0, absent |-> 0,
             released |-> 0, groupTotal |-> 0]

CurrentRing == run.rings[run.ring]

CurrentStatus ==
    IF run.ring <= Len(run.rings) /\ run.promotedAt[run.ring] # Never
    THEN RingStatus(CurrentRing, run.target) ELSE NoStatus

(***************************************************************************)
(* Starting a run.  The wave plan is snapshotted into the record.  Only an *)
(* active run refuses a second one.                                        *)
(***************************************************************************)
ScopedWave(scope) ==
    [group |-> NoGroup, groups |-> scope, soak |-> ScopedSoak, minHealthyPercent |-> 0,
     requireApproval |-> FALSE, minDevices |-> 0, maxDevices |-> 0]

ScopedRings(scope) ==
    IF scope = <<>> THEN plan
    ELSE IF Len(scope) = 1 /\ GroupList(plan[1]) = scope THEN <<plan[1]>>
    ELSE <<plan[1], ScopedWave(scope)>>

\* Seeded fault: shortens by expeditedSoak instead of to it.
ExpediteBy(rings) ==
    [i \in 1..Len(rings) |-> [rings[i] EXCEPT !.soak = @ - expeditedSoak]]

Expedite(rings) ==
    [i \in 1..Len(rings) |->
        IF rings[i].soak = 0 \/ rings[i].soak > expeditedSoak
        THEN [rings[i] EXCEPT !.soak = expeditedSoak] ELSE rings[i]]

StartWith(target, scope, expedited, origin) ==
    /\ Unlocked
    /\ run.status # "active"
    /\ starts < MaxStarts
    /\ run' = NewState(RingIds, target,
                       IF expedited THEN Expedite(ScopedRings(scope)) ELSE ScopedRings(scope),
                       origin)
    /\ starts' = starts + 1
    /\ base' = remoteRef /\ proven' = {} /\ emptied' = {}
    /\ UNCHANGED <<doc, refs, obs, tick, riskHoldNotified, enrol, now, placed, faults, edits>>

\* The console's and the API's start button.
Start(target, scope, expedited) ==
    /\ "operator" \in Origins
    /\ StartWith(target, scope, expedited, "operator")
    /\ UNCHANGED <<delivery, auto>>

\* A change merges; its delivery starts later, on the same request.
Merge(kind, scope) ==
    /\ edits < MaxEdits /\ delivery = {}
    /\ log' = Append(log, kind)
    /\ edits' = edits + 1
    /\ delivery' = IF "delivery" \in Origins THEN {<<scope, head + 1>>} ELSE {}
    /\ UNCHANGED <<plan, groupPin, devPin, life, refs, obs, run, tick, auto,
                   riskHoldNotified, enrol, now, history, starts, faults>>

\* WireAutoRollout's afterMerge hook: the target is the head it reads.
Deliver(d) ==
    /\ \E target \in d[2]..head : StartWith(target, d[1], FALSE, "delivery")
    /\ delivery' = delivery \ {d}
    /\ UNCHANGED auto

DeliverRefused(d) ==
    /\ Unlocked /\ run.status = "active"
    /\ delivery' = delivery \ {d}
    /\ UNCHANGED <<doc, refs, obs, run, tick, auto, riskHoldNotified, enrol, now, history, bounds>>

(***************************************************************************)
(* Auto-flow: an idle engine starts a run to head when people committed    *)
(* above the pin of the first pinned wave group.  The check holds no lock; *)
(* the start takes it.                                                     *)
(***************************************************************************)
\* Where the plan names its groups, wave by wave: the order in which the
\* loops over the plan visit them.
Places     == UNION {{<<i, j>> : j \in 1..Len(GroupList(plan[i]))} : i \in 1..Len(plan)}
GroupAt(p) == GroupList(plan[p[1]])[p[2]]
UpTo(p, q) == p[1] < q[1] \/ (p[1] = q[1] /\ p[2] <= q[2])

PinnedPlaces == {p \in Places : groupPin[GroupAt(p)] # NoRev}

\* The pin of the first pinned place, as a set that is empty when nothing is pinned.
promotedBaseline ==
    {groupPin[GroupAt(p)] : p \in {q \in PinnedPlaces : \A o \in PinnedPlaces : UpTo(q, o)}}

\* Seeded fault: the engine's own commits count as work.
CommitsSince(baseline) == {r \in 1..head : r > baseline}

NonMachineCommitsSince(baseline) == {r \in 1..head : r > baseline /\ log[r] # Machine}

\* Seeded fault: only the newest commit is looked at.
RiskyNewest(baseline) ==
    {r \in NonMachineCommitsSince(baseline) :
        log[r] = "risky" /\ \A q \in NonMachineCommitsSince(baseline) : q <= r}

RiskySince(baseline) == {r \in NonMachineCommitsSince(baseline) : log[r] = "risky"}

AutoWanted ==
    /\ "autoflow" \in Origins
    /\ run.status \in {"none", "completed", "cancelled"}
    /\ \E p \in PinnedPlaces : groupPin[GroupAt(p)] # head
    /\ \E b \in promotedBaseline : NonMachineCommitsSince(b) # {}

AutoCheck ==
    /\ AutoWanted /\ auto = NoRev
    /\ \A b \in promotedBaseline : RiskySince(b) = {}
    /\ auto' = head
    /\ UNCHANGED <<doc, refs, obs, run, tick, delivery, riskHoldNotified, enrol, now, history, bounds>>

\* holdForRisk: notify once per commit; the flag sits under the mutex.
AutoHold ==
    /\ AutoWanted /\ auto = NoRev
    /\ Unlocked
    /\ \E b \in promotedBaseline : \E r \in RiskySince(b) :
        /\ \A q \in RiskySince(b) : q <= r
        /\ riskHoldNotified' = r
    /\ UNCHANGED <<doc, refs, obs, run, tick, delivery, auto, enrol, now, history, bounds>>

AutoStart ==
    /\ auto # NoRev
    /\ StartWith(auto, <<>>, FALSE, "autoflow")
    /\ auto' = NoRev
    /\ UNCHANGED delivery

AutoRefused ==
    /\ auto # NoRev
    /\ Unlocked /\ run.status = "active"
    /\ auto' = NoRev
    /\ UNCHANGED <<doc, refs, obs, run, tick, delivery, riskHoldNotified, enrol, now, history, bounds>>

(***************************************************************************)
(* The operator's controls.  Each is one load and one store of the record  *)
(* under the mutex; record and mutex are those of the process that serves  *)
(* the request.                                                            *)
(***************************************************************************)
\* Seeded fault: the record is rewritten without the mutex.
ControlUnlocked(from, s) ==
    /\ run.status \in from
    /\ run' = s
    /\ UNCHANGED <<doc, refs, obs, memory, now, history, bounds>>

Control(from, s) ==
    /\ Unlocked
    /\ run.status \in from
    /\ run' = s
    /\ UNCHANGED <<doc, refs, obs, memory, now, history, bounds>>

Cancel == Control({"active", "paused", "halted"},
                  Note([run EXCEPT !.status = "cancelled"], "done"))

ApproveWave == Control({"active"}, Approve(run))

Pause == Control({"active"}, [run EXCEPT !.status = "paused"])

Resume == Control({"paused"}, [run EXCEPT !.status = "active"])

(***************************************************************************)
(* Tick.  Deciding() is the load, the convergence query and the decision;  *)
(* the decisions that only rewrite the record are stored in the same step. *)
(***************************************************************************)
Deciding(kind) ==
    /\ Unlocked
    /\ run.status = "active"
    /\ \E rs \in {CurrentStatus} : Decide(run.rings, run, rs, now) = kind

Store(s, kind) ==
    /\ run' = Note(s, kind)
    /\ UNCHANGED <<doc, refs, obs, memory, now, base, placed, bounds>>

\* Seeded fault: the first convergence is not recorded.
TickWaitForgets ==
    /\ Deciding("wait")
    /\ Store(run, "wait")
    /\ UNCHANGED <<proven, emptied>>

TickWait ==
    /\ Deciding("wait")
    /\ Store(IF Converged(CurrentRing, CurrentStatus) /\ run.convergedAt[run.ring] = Never
             THEN [run EXCEPT !.convergedAt[run.ring] = now] ELSE run, "wait")
    /\ UNCHANGED <<proven, emptied>>

TickAwaitApproval ==
    /\ Deciding("await-approval")
    /\ Store(run, "await-approval")
    /\ UNCHANGED <<proven, emptied>>

TickAdvance ==
    /\ Deciding("advance")
    /\ Store([run EXCEPT !.ring = @ + 1], "advance")
    /\ emptied' = IF CurrentStatus.total = 0 THEN emptied \cup {run.ring} ELSE emptied
    /\ UNCHANGED proven

TickHalt ==
    /\ Deciding("halt")
    /\ Store([run EXCEPT !.status = "halted"], "halt")
    /\ UNCHANGED <<proven, emptied>>

TickDone ==
    /\ Deciding("done")
    /\ Store([run EXCEPT !.status = "completed"], "done")
    /\ UNCHANGED <<proven, emptied>>

\* ensureRingBuilt: a failed release build halts the run and is stored at
\* once, before Note.  While a build is under way, or the runner cannot be
\* reached, the promotion is held and the next tick asks again.
TickBuildFailed ==
    /\ Deciding("promote")
    /\ HasBuilder
    /\ \E g \in GroupsOf(CurrentRing) : ActiveGroupDevices(g) # {}
    /\ run' = [run EXCEPT !.status = "halted"]
    /\ UNCHANGED <<doc, refs, obs, memory, now, history, bounds>>

TickPromote ==
    /\ Deciding("promote")
    /\ tick' = [pc |-> "pin", kind |-> "promote", todo |-> GroupList(CurrentRing),
                batch |-> {}, at |-> now]
    /\ UNCHANGED <<doc, refs, obs, run, delivery, auto, riskHoldNotified, enrol, now, history, bounds>>

\* releaseCohort's choice, made on one snapshot of the document: of each
\* group's converging devices in tag order, those ranked above the number
\* already released, up to NextRelease.
\* Seeded fault: the devices are taken from the other end.
RankDown(d, S) == Cardinality({e \in S : e >= d})

Rank(d, S) == Cardinality({e \in S : e <= d})

Cohort(ring) ==
    IF ring.maxDevices <= 0 THEN {}
    ELSE {p \in Devices \X GroupsOf(ring) :
            LET active   == ConvergingGroupDevices(p[2])
                released == Cardinality(ReleasedGroupDevices(p[2]))
            IN  /\ p[1] \in active
                /\ Rank(p[1], active) > released
                /\ Rank(p[1], active) <= NextRelease(ring, Cardinality(active), released)}

TickWiden ==
    /\ Deciding("widen-cohort")
    /\ tick' = [pc |-> "release", kind |-> "widen-cohort", todo |-> <<>>,
                batch |-> Cohort(CurrentRing), at |-> now]
    /\ proven' = proven \cup UNION {ReleasedGroupDevices(g) : g \in GroupsOf(CurrentRing)}
    /\ UNCHANGED <<doc, refs, obs, run, delivery, auto, riskHoldNotified, enrol, now, base, emptied, placed, bounds>>

\* One Apply(SetGroupPin): a pin that is already there makes no commit.
PinGroup ==
    /\ tick.pc = "pin" /\ tick.todo # <<>>
    /\ LET g == Head(tick.todo) IN
        /\ groupPin' = [groupPin EXCEPT ![g] = run.target]
        /\ log' = IF groupPin[g] = run.target THEN log ELSE Append(log, Machine)
    /\ tick' = [tick EXCEPT !.todo = Tail(@)]
    /\ UNCHANGED <<plan, devPin, life, refs, obs, run, delivery, auto, riskHoldNotified,
                   enrol, now, history, bounds>>

PickCohort ==
    /\ tick.pc = "pin" /\ tick.todo = <<>>
    /\ tick' = [tick EXCEPT !.pc = "release", !.batch = Cohort(CurrentRing)]
    /\ UNCHANGED <<doc, refs, obs, run, delivery, auto, riskHoldNotified, enrol, now, history, bounds>>

\* One Apply(SetDevicePin), in tag order.
ReleaseDevice ==
    /\ tick.pc = "release"
    /\ \E p \in tick.batch :
        /\ \A q \in tick.batch : p[1] <= q[1]
        /\ devPin' = [devPin EXCEPT ![p[1]] = p[2]]
        /\ log' = IF devPin[p[1]] = p[2] THEN log ELSE Append(log, Machine)
        /\ tick' = [tick EXCEPT !.batch = @ \ {p}]
    /\ UNCHANGED <<plan, groupPin, life, refs, obs, run, delivery, auto, riskHoldNotified,
                   enrol, now, history, bounds>>

CohortReleased ==
    /\ tick.pc = "release" /\ tick.batch = {}
    /\ tick' = IF tick.kind = "promote"
               THEN [tick EXCEPT !.pc = "move", !.todo = GroupList(CurrentRing)]
               ELSE [tick EXCEPT !.pc = "put"]
    /\ UNCHANGED <<doc, refs, obs, run, delivery, auto, riskHoldNotified, enrol, now, history, bounds>>

\* moveRingRef: set the local branch, then push it whether it moved or not.
\* Seeded fault: no push when the local branch already matched.
moveRingRefIfChanged(g, rev) ==
    /\ localRef' = [localRef EXCEPT ![g] = rev]
    /\ remoteRef' = IF localRef[g] = rev THEN remoteRef ELSE [remoteRef EXCEPT ![g] = rev]

moveRingRef(g, rev) ==
    /\ localRef' = [localRef EXCEPT ![g] = rev]
    /\ remoteRef' = [remoteRef EXCEPT ![g] = rev]

MoveRef ==
    /\ tick.pc = "move" /\ tick.todo # <<>>
    /\ moveRingRef(Head(tick.todo), run.target)
    /\ placed' = [placed EXCEPT ![Head(tick.todo)] = NoRev]
    /\ tick' = [tick EXCEPT !.todo = Tail(@)]
    /\ UNCHANGED <<doc, obs, run, delivery, auto, riskHoldNotified, enrol, now, base, proven,
                   emptied, bounds>>

PutTick ==
    /\ \/ tick.pc = "move" /\ tick.todo = <<>>
       \/ tick.pc = "put"
    /\ run' = IF tick.kind = "promote"
              THEN Note([run EXCEPT !.promotedAt[run.ring] = tick.at], "promote")
              ELSE Note([run EXCEPT !.convergedAt[run.ring] = Never], "widen-cohort")
    /\ tick' = Idle
    /\ UNCHANGED <<doc, refs, obs, delivery, auto, riskHoldNotified, enrol, now, history, bounds>>

(***************************************************************************)
(* What can fail in a tick: any Apply, push or store write ends it with an *)
(* error and stores nothing; a failed push has already set the local       *)
(* branch.  A crash loses the process's memory.                            *)
(***************************************************************************)
Fault == faults < MaxFaults /\ faults' = faults + 1

TickFails ==
    /\ Fault /\ ~Unlocked
    /\ tick' = Idle
    /\ localRef' = IF tick.pc = "move" /\ tick.todo # <<>>
                   THEN [localRef EXCEPT ![Head(tick.todo)] = run.target] ELSE localRef
    /\ UNCHANGED <<doc, remoteRef, obs, run, delivery, auto, riskHoldNotified, enrol, now, history,
                   starts, edits>>

Crash ==
    /\ Fault
    /\ tick' = Idle /\ delivery' = {} /\ auto' = NoRev /\ riskHoldNotified' = NoRev
    /\ enrol' = NoEnrol
    /\ UNCHANGED <<doc, refs, obs, run, now, history, starts, edits>>

(***************************************************************************)
(* FollowHead: between runs, every unpinned wave group's branch follows    *)
(* main, group by group in plan order until one push fails.                *)
(***************************************************************************)
\* Seeded fault: only an active run holds the branches.
MayFollowStopped == Unlocked /\ run.status # "active"

MayFollow == Unlocked /\ ~InFlight

\* Seeded fault: pinned groups follow too.
EveryPlace == Places

Unpinned == {p \in Places : groupPin[GroupAt(p)] = NoRev}

Following(ref, moved, rev) ==
    [g \in Groups |-> IF \E p \in moved : GroupAt(p) = g THEN rev ELSE ref[g]]

FollowHead ==
    /\ MayFollow
    /\ localRef'  = Following(localRef, Unpinned, head)
    /\ remoteRef' = Following(remoteRef, Unpinned, head)
    /\ placed'    = Following(placed, Unpinned, NoRev)
    /\ UNCHANGED <<doc, obs, run, memory, now, base, proven, emptied, bounds>>

\* The push of one branch fails: the local branch is set, the rest is not visited.
FollowHeadFails ==
    /\ MayFollow /\ Fault
    /\ \E p \in Unpinned :
        /\ localRef'  = Following(localRef, {q \in Unpinned : UpTo(q, p)}, head)
        /\ remoteRef' = Following(remoteRef, {q \in Unpinned : UpTo(q, p) /\ q # p}, head)
        /\ placed'    = Following(placed, {q \in Unpinned : UpTo(q, p) /\ q # p}, NoRev)
    /\ UNCHANGED <<doc, obs, run, memory, now, base, proven, emptied, starts, edits>>

(***************************************************************************)
(* A station enrolment: the second writer of the ring branches.  It takes  *)
(* no lock of the service and looks at no run: it commits the device, and  *)
(* has every pinned group that covers the device stand on that commit, by  *)
(* branch and not by pin.  Setting a branch and pushing it are one step:   *)
(* the service's own pair is too, and whatever order the four calls of the *)
(* two come in, the branch ends up where one of the pairs, run last, puts  *)
(* it.  One enrolment at a time: two of them are EnrolmentRings'.          *)
(***************************************************************************)
\* postEnrollBatch's commit: a new device, or one that has not reported yet and
\* is scanned again.
Enrol(d) ==
    /\ enrol = NoEnrol
    /\ life[d] \in {"provisional", "removed"}
    /\ edits < MaxEdits /\ edits' = edits + 1
    /\ log' = Append(log, "edit")
    /\ life' = [life EXCEPT ![d] = "provisional"]
    /\ enrol' = [pc |-> "committed", d |-> d, rev |-> head + 1, todo |-> {}]
    /\ UNCHANGED <<plan, groupPin, devPin, refs, obs, run, tick, delivery, auto,
                   riskHoldNotified, now, history, starts, faults>>

\* The head it reads, which may be a later commit already, and the pinned groups
\* over the device in the document it then reads.
EnsureRingsContain ==
    /\ enrol.pc = "committed"
    /\ \E rev \in enrol.rev..head :
        enrol' = [enrol EXCEPT !.pc = "rings", !.rev = rev,
                    !.todo = {g \in Groups : /\ life[enrol.d] # "removed"
                                             /\ enrol.d \in Members[g]
                                             /\ groupPin[g] \notin {NoRev, rev}}]
    /\ UNCHANGED <<doc, refs, obs, run, tick, delivery, auto, riskHoldNotified, now, history,
                   bounds>>

\* Group by group: set the branch and push it.
AdvanceRing(g) ==
    /\ enrol.pc = "rings" /\ g \in enrol.todo
    /\ localRef'  = [localRef EXCEPT ![g] = enrol.rev]
    /\ remoteRef' = [remoteRef EXCEPT ![g] = enrol.rev]
    /\ placed'    = [placed EXCEPT ![g] = enrol.rev]
    /\ enrol' = [enrol EXCEPT !.todo = @ \ {g}]
    /\ UNCHANGED <<doc, obs, run, tick, delivery, auto, riskHoldNotified, now, base, proven,
                   emptied, bounds>>

AdvanceRingFails(g) ==
    /\ Fault
    /\ enrol.pc = "rings" /\ g \in enrol.todo
    /\ localRef' = [localRef EXCEPT ![g] = enrol.rev]
    /\ enrol' = NoEnrol
    /\ UNCHANGED <<doc, remoteRef, obs, run, tick, delivery, auto, riskHoldNotified, now,
                   history, starts, edits>>

\* A member of the group would change (EnrolmentRings has the comparison): the
\* batch stops, what has been moved stays moved.
RefuseRing ==
    /\ enrol.pc = "rings" /\ enrol.todo # {}
    /\ enrol' = NoEnrol
    /\ UNCHANGED <<doc, refs, obs, run, tick, delivery, auto, riskHoldNotified, now, history,
                   bounds>>

\* Every covering branch has moved: the machine is imaged from that revision.
DispatchImage ==
    /\ enrol.pc = "rings" /\ enrol.todo = {}
    /\ obs' = IF life[enrol.d] = "provisional"
              THEN [obs EXCEPT ![enrol.d] = [rev |-> enrol.rev, cond |-> "absent"]] ELSE obs
    /\ enrol' = NoEnrol
    /\ UNCHANGED <<doc, refs, run, tick, delivery, auto, riskHoldNotified, now, history, bounds>>

(***************************************************************************)
(* People and devices.                                                     *)
(***************************************************************************)
Commit ==
    /\ edits < MaxEdits /\ edits' = edits + 1
    /\ log' = Append(log, "edit")
    /\ UNCHANGED <<devPin, refs, obs, run, memory, now, history, starts, faults>>

EditPlan(p) ==
    /\ p # plan
    /\ Commit /\ plan' = p /\ UNCHANGED <<groupPin, life>>

Unpin(g) ==
    /\ groupPin[g] # NoRev
    /\ Commit /\ groupPin' = [groupPin EXCEPT ![g] = NoRev] /\ UNCHANGED <<plan, life>>

Retire(d) ==
    /\ life[d] = "active"
    /\ Commit /\ life' = [life EXCEPT ![d] = "retired"] /\ UNCHANGED <<plan, groupPin>>

Reactivate(d) ==
    /\ life[d] = "retired"
    /\ Commit /\ life' = [life EXCEPT ![d] = "active"] /\ UNCHANGED <<plan, groupPin>>

\* One commit drops the enrolments that are stale; which ones are depends on
\* their age, so any of the provisional devices may be.
ReapAbandonedEnrolments(stale) ==
    /\ stale # {}
    /\ \A d \in stale : life[d] = "provisional"
    /\ life' = [d \in Devices |-> IF d \in stale THEN "removed" ELSE life[d]]
    /\ log' = Append(log, Machine)
    /\ UNCHANGED <<plan, groupPin, devPin, refs, obs, run, memory, now, history, bounds>>

\* What d runs once it has looked at its branch: comin refuses a head that is
\* not a descendant of what runs, so a branch that moved back changes nothing.
Adopted(d) == {IF rev >= obs[d].rev THEN rev ELSE obs[d].rev : rev \in Offered(d)}

\* A check-in reports the revision the device runs, healthy or not.  The first
\* one turns a provisional device active.
CheckIn(d, cond) ==
    /\ life[d] \in {"provisional", "active"}
    /\ cond = "broken" => d \in Flaky
    /\ \E rev \in Adopted(d) : obs' = [obs EXCEPT ![d] = [rev |-> rev, cond |-> cond]]
    /\ life' = [life EXCEPT ![d] = "active"]
    /\ log' = IF life[d] = "provisional" THEN Append(log, Machine) ELSE log
    /\ UNCHANGED <<plan, groupPin, devPin, refs, run, memory, now, history, bounds>>

\* Silence: past the online window, then past the absent window.
Fade(d) ==
    /\ d \in Flaky
    /\ obs[d].cond # "absent"
    /\ obs' = [obs EXCEPT ![d].cond = IF @ = "quiet" THEN "absent" ELSE "quiet"]
    /\ UNCHANGED <<doc, refs, run, memory, now, history, bounds>>

SoakPending ==
    /\ InFlight
    /\ run.ring <= Len(run.rings)
    /\ run.convergedAt[run.ring] # Never
    /\ ~Soaked(CurrentRing, run, now)

Clock ==
    /\ SoakPending /\ now < MaxTime
    /\ now' = now + 1
    /\ UNCHANGED <<doc, refs, obs, run, memory, history, bounds>>

(***************************************************************************)
(* The specification.                                                      *)
(***************************************************************************)
Init ==
    /\ log = InitLog
    /\ plan \in Plans
    /\ groupPin = [g \in Groups |-> IF StartPinned THEN 1 ELSE NoRev]
    /\ devPin = [d \in Devices |-> NoGroup]
    /\ life = [d \in Devices |-> IF d \in Late THEN "provisional" ELSE "active"]
    /\ localRef = [g \in Groups |-> 1] /\ remoteRef = [g \in Groups |-> 1]
    /\ obs = [d \in Devices |-> IF d \in Late THEN [rev |-> NoRev, cond |-> "absent"]
                                              ELSE [rev |-> 1, cond |-> "ok"]]
    /\ run = NoRun
    /\ tick = Idle /\ delivery = {} /\ auto = NoRev /\ riskHoldNotified = NoRev
    /\ now = 0
    /\ enrol = NoEnrol
    /\ base = remoteRef /\ proven = {} /\ emptied = {}
    /\ placed = [g \in Groups |-> NoRev]
    /\ starts = 0 /\ faults = 0 /\ edits = 0

Tick ==
    \/ TickWait \/ TickAwaitApproval \/ TickAdvance \/ TickHalt \/ TickDone
    \/ TickBuildFailed \/ TickPromote \/ TickWiden
    \/ PinGroup \/ PickCohort \/ ReleaseDevice \/ CohortReleased \/ MoveRef \/ PutTick

AutoFlow == AutoCheck \/ AutoHold \/ AutoStart \/ AutoRefused

Enrolment ==
    \/ \E d \in Late : Enrol(d)
    \/ EnsureRingsContain \/ RefuseRing \/ DispatchImage
    \/ \E g \in Groups : AdvanceRing(g) \/ AdvanceRingFails(g)

Operate == Cancel \/ ApproveWave \/ Pause \/ Resume

Next ==
    \/ \E target \in Targets \cap 1..head, scope \in Scopes, expedited \in BOOLEAN :
            Start(target, scope, expedited)
    \/ \E kind \in CommitKinds, scope \in Scopes : Merge(kind, scope)
    \/ \E d \in delivery : Deliver(d) \/ DeliverRefused(d)
    \/ AutoFlow
    \/ Operate
    \/ Tick
    \/ TickFails \/ Crash
    \/ FollowHead \/ FollowHeadFails
    \/ Enrolment
    \/ \E p \in Plans : EditPlan(p)
    \/ \E g \in Groups : Unpin(g)
    \/ \E d \in Devices : Retire(d) \/ Reactivate(d) \/ Fade(d)
    \/ \E stale \in SUBSET Late : ReapAbandonedEnrolments(stale)
    \/ \E d \in Devices, cond \in {"ok", "broken"} : CheckIn(d, cond)
    \/ Clock

Spec == Init /\ [][Next]_vars

\* The ticker keeps calling Tick and a tick's writes eventually succeed (the
\* failures are bounded); release builds finish; every device keeps checking
\* in; time passes.
Fairness ==
    /\ WF_vars(Tick)
    /\ WF_vars(Clock)
    /\ \A d \in Devices : WF_vars(CheckIn(d, "ok"))

FairSpec == Spec /\ Fairness

(***************************************************************************)
(* Properties.                                                             *)
(***************************************************************************)
Times == Nat \cup {Never}
Runs  == [status : {"none", "active", "paused", "halted", "completed", "cancelled"},
          target : Nat, rings : Seq(Ring), ring : Nat \ {0},
          promotedAt : [RingIds -> Times], convergedAt : [RingIds -> Times],
          approved : SUBSET Nat, waiting : ActionKinds \cup {""},
          origin : {"none", "operator", "delivery", "autoflow"}]
Enrols == [pc : {"none", "committed", "rings"}, d : Nat, rev : Nat, todo : SUBSET Groups]
Ticks == [pc : {"idle", "pin", "release", "move", "put"},
          kind : {"none", "promote", "widen-cohort"},
          todo : Seq(Groups), batch : SUBSET (Devices \X Groups), at : Nat]

\* The types of the document, the branches, the record and the tick; a run's
\* waves always fit the record and every group a tick touches exists.
TypeOK ==
    /\ log \in Seq({"edit", "risky", Machine})
    /\ plan \in Plans
    /\ groupPin \in [Groups -> Nat]
    /\ devPin \in [Devices -> Groups \cup {NoGroup}]
    /\ life \in [Devices -> {"provisional", "active", "retired", "removed"}]
    /\ localRef \in [Groups -> Nat] /\ remoteRef \in [Groups -> Nat]
    /\ obs \in [Devices -> [rev : Nat, cond : {"ok", "broken", "quiet", "absent"}]]
    /\ run \in Runs
    /\ Len(run.rings) <= MaxRings /\ run.ring <= Len(run.rings) + 1
    /\ tick \in Ticks
    /\ delivery \in SUBSET (Scopes \X Nat)
    /\ auto \in Nat /\ riskHoldNotified \in Nat
    /\ enrol \in Enrols /\ (enrol.pc # "none" => enrol.d \in Devices /\ enrol.rev # NoRev)
    /\ now \in Nat
    /\ base \in [Groups -> Nat] /\ proven \in SUBSET Devices /\ emptied \in SUBSET Nat
    /\ placed \in [Groups -> Nat]
    /\ starts \in Nat /\ faults \in Nat /\ edits \in Nat

\* Two consecutive waves are promoted at least the first one's soak apart,
\* whatever failed, crashed or was paused in between; only a wave without
\* devices (Decide's "has no devices") is exempt.
WavesSpaced ==
    \A i \in RingIds : i + 1 \in RingIds /\ run.promotedAt[i + 1] # Never =>
        /\ run.promotedAt[i] # Never
        /\ i \in emptied \/ run.promotedAt[i + 1] >= run.promotedAt[i] + run.rings[i].soak

\* A manual gate holds: the wave after a RequireApproval wave is promoted only
\* once an operator signed that wave off, unless it had no devices.
ApprovalRespected ==
    \A i \in RingIds :
        /\ i + 1 \in RingIds /\ run.promotedAt[i + 1] # Never
        /\ run.rings[i].requireApproval
        => i \in run.approved \cup emptied

Promoted(i) == i <= Len(run.rings) /\ run.promotedAt[i] # Never

\* g's remote branch is where an enrolment put it.
Placed(g)   == placed[g] # NoRev /\ remoteRef[g] = placed[g]

\* A wave the record calls promoted has really been offered: while the run is
\* in flight the REMOTE branch of each of its groups stands on the target, also
\* when an earlier attempt set the local branch and failed its push.  The one
\* exception is a branch an enrolment has moved since: it stands on the
\* revision EnsureRingsContain gave it, past the target or behind it.
PromotedMeansOffered ==
    InFlight => \A i \in RingIds : Promoted(i) =>
        \A g \in GroupsOf(run.rings[i]) :
            remoteRef[g] = run.target \/ Placed(g)

\* No leapfrogging by the service: while a run is in flight (paused and halted
\* included), the branches of waves it has not reached stay where they were when
\* it started, whatever becomes of main, except where an enrolment put one: the
\* service holds them and EnsureRingsContain does not ask it.
LaterWavesHeld ==
    InFlight => \A g \in Groups :
        \/ remoteRef[g] = base[g]
        \/ Placed(g)
        \/ \E i \in RingIds : i <= run.ring /\ i <= Len(run.rings) /\ g \in GroupsOf(run.rings[i])

\* A paused or halted run is still: until an operator resumes, cancels or
\* replaces it no step adds a pin or releases a device, and no step moves a
\* branch but the enrolment's, to the revision that enrolment has read.  It is the
\* run of this process's record: a pause another replica takes is not of this run.
StoppedMeansStill ==
    [][run.status \in {"paused", "halted"} =>
        /\ devPin' = devPin
        /\ \A g \in Groups :
            /\ localRef'[g] # localRef[g] => g \in enrol.todo /\ localRef'[g] = enrol.rev
            /\ remoteRef'[g] # remoteRef[g] => g \in enrol.todo /\ remoteRef'[g] = enrol.rev
        /\ \A g \in Groups : groupPin'[g] \in {groupPin[g], NoRev}]_vars

\* A count-capped wave exposes at most maxDevices devices beyond those that
\* have already been part of a healthy and soaked cohort (releaseCohort).
CohortCap ==
    InFlight /\ Promoted(run.ring) =>
        LET r == CurrentRing IN
        r.maxDevices > 0 /\ r.groups = <<>> =>
            Cardinality(ReleasedGroupDevices(r.group) \ proven) <= r.maxDevices

\* A cohort is released in tag order: the released devices of a group are the
\* first ones of its converging devices.
ReleasedIsPrefix ==
    InFlight => \A g \in Groups : \A d \in ReleasedGroupDevices(g) :
        \A e \in ConvergingGroupDevices(g) : e < d => e \in ReleasedGroupDevices(g)

\* The pin is the marker of where a wave's branch stands: between ticks a
\* pinned group's remote branch is on its pin, or where an enrolment put it
\* since, for EnsureRingsContain moves the branch and leaves the pin.
PinMatchesBranch ==
    Unlocked => \A g \in Groups : groupPin[g] # NoRev =>
        remoteRef[g] = groupPin[g] \/ Placed(g)

\* Damping: when auto-flow follows a completed run with another one, some
\* person committed above the completed target; a run's own pin and release
\* commits never start the next run.
AutoRunsCarryWork ==
    [][starts' = starts + 1 /\ run'.origin = "autoflow" /\ run.status = "completed" =>
        \E r \in (run.target + 1)..run'.target : log[r] # Machine]_vars

\* The risk brake: when only auto-flow starts runs, no group is ever pinned to
\* a revision that contains a change marked high-risk.
RiskBrake ==
    Origins = {"autoflow"} =>
        \A g \in Groups : \A r \in 1..groupPin[g] : log[r] # "risky"

\* A stopped run is the operator's to clear: a run that is paused or halted is
\* replaced only by a run an operator starts.
StoppedRunKept ==
    [][run.status \in {"paused", "halted"} /\ starts' = starts + 1 =>
        run'.origin = "operator"]_vars

\* The current wave cannot converge on the target any more: a released device
\* runs a later revision, which comin does not give up, or an enrolment has taken the
\* branch of one of its groups off the target after the promotion.
Overtaken ==
    /\ run.ring <= Len(run.rings)
    /\ \E g \in GroupsOf(CurrentRing) :
        \/ \E d \in ReleasedGroupDevices(g) : obs[d].rev > run.target
        \/ Promoted(run.ring) /\ placed[g] \notin {NoRev, run.target}

\* Every run gets somewhere: it completes, halts, is stopped by an operator,
\* or waits for a sign-off.  Only a wave that was overtaken keeps a run waiting:
\* nothing in the service notices that it will never converge.
RunSettles ==
    run.status = "active" ~>
        (run.status # "active" \/ run.waiting = "await-approval" \/ Overtaken)
=============================================================================
