------------------------ MODULE RolloutBranchProofs ------------------------
(***************************************************************************)
(* Proofs about the branches, the pins and the cohorts the rollout service *)
(* moves, for every fleet, plan, bound and fault budget.                   *)
(*                                                                         *)
(* Part 1 sorts the steps of the service into a few shapes; every later    *)
(* induction goes over the shapes instead of over all actions.             *)
(*                                                                         *)
(* Part 2: the branches.  A wave the record calls promoted is really on    *)
(* the target, waves the run has not reached have not moved, and a paused  *)
(* or halted run is still.  The invariant says what a promoting tick knows *)
(* half way through its pushes.                                            *)
(*                                                                         *)
(* Part 3: the pin is where the branch is, as long as nothing has failed.  *)
(*                                                                         *)
(* Part 4: the risk brake.                                                 *)
(*                                                                         *)
(* Part 5: the devices of a capped wave are released in tag order, from    *)
(* what a rank among the active devices means.                             *)
(*                                                                         *)
(* Part 6: a capped wave exposes no more devices at a time than its cap,   *)
(* under the conditions the code needs for that.                           *)
(*                                                                         *)
(* Part 7: auto-flow follows a completed run only with new work.           *)
(***************************************************************************)
EXTENDS RolloutProofs, FiniteSetTheorems

(***************************************************************************)
(* Part 1: the shapes of a step.                                           *)
(***************************************************************************)
\* A device that has not reported since it was last put into the fleet.
Unseen == {"provisional", "removed"}

\* People, devices, the clock, auto-flow's check, an enrolment before it touches a
\* branch and a crash: the record and the branches stay, a pin can only be removed,
\* which people do with a commit, as they do when they edit the plan, no device that
\* has reported becomes unseen, and the tick goes on or is lost.
Aside ==
    /\ run' = run /\ base' = base /\ UNCHANGED <<refs, devPin, proven, starts, placed>>
    /\ \A g \in Groups : groupPin'[g] \in {groupPin[g], NoRev}
    /\ UNCHANGED <<plan, groupPin>> \/ log' = Append(log, "edit")
    /\ \A d \in Devices : life'[d] \in Unseen => life[d] \in Unseen
    /\ \/ tick' = tick /\ faults' = faults
       \/ Unlocked' /\ tick' = Idle /\ faults' = faults + 1

\* A control or a tick that only rewrites the record, under the mutex.
Rewrites ==
    /\ Unlocked /\ tick' = tick /\ base' = base /\ faults' = faults
    /\ UNCHANGED <<refs, plan, groupPin, devPin, life, proven, starts, placed>>
    /\ run'.rings = run.rings /\ run'.target = run.target
    /\ run'.ring \in {run.ring, run.ring + 1}
    /\ run'.promotedAt = run.promotedAt
    /\ InFlight
    /\ run'.status = "completed" => Deciding("done")

\* StartWith: a new run has promoted nothing, takes its waves from the plan and
\* remembers where the branches are.
Starts ==
    /\ Unlocked /\ tick' = tick /\ base' = remoteRef /\ faults' = faults /\ starts' = starts + 1
    /\ UNCHANGED <<refs, plan, groupPin, devPin, life, placed>>
    /\ run'.ring = 1 /\ \A i \in RingIds : run'.promotedAt[i] = Never
    /\ \E scope : run'.rings \in {ScopedRings(scope), Expedite(ScopedRings(scope))}

\* An enrolment moves one branch to the revision it has read; when its push fails,
\* only the local one.
Advances ==
    /\ run' = run /\ base' = base /\ tick' = tick
    /\ UNCHANGED <<log, plan, groupPin, devPin, life, proven, starts>>
    /\ enrol.rev # NoRev
    /\ \E g \in Groups :
        /\ g \in enrol.todo
        /\ localRef' = [localRef EXCEPT ![g] = enrol.rev]
        /\ \/ /\ remoteRef' = [remoteRef EXCEPT ![g] = enrol.rev]
              /\ placed' = [placed EXCEPT ![g] = enrol.rev]
              /\ faults' = faults
           \/ UNCHANGED <<remoteRef, placed>> /\ faults' = faults + 1

\* Every step has one of the shapes, or is a step of a promoting or widening
\* tick, or lets branches follow main between runs.
LEMMA StepShapes ==
    ASSUME TypeInv, [Next]_vars
    PROVE  \/ Aside \/ Rewrites \/ Starts \/ Advances
           \/ TickPromote \/ TickWiden \/ PinGroup \/ PickCohort \/ ReleaseDevice
           \/ CohortReleased \/ MoveRef \/ PutTick \/ TickFails
           \/ FollowHead \/ FollowHeadFails
<1>t. /\ TypeOK /\ run \in Runs /\ groupPin \in [Groups -> Nat]
      /\ life \in [Devices -> {"provisional", "active", "retired", "removed"}]
    BY DEF TypeInv, TypeOK
<1>s. ASSUME NEW target, NEW scope, NEW expedited, NEW origin,
             StartWith(target, scope, expedited, origin)
      PROVE  Starts
    BY <1>s DEF StartWith, Starts, NewState, doc, refs
<1>1. ASSUME NEW target \in Targets \cap 1..head, NEW scope \in Scopes, NEW expedited \in BOOLEAN,
             Start(target, scope, expedited)
      PROVE  Starts
    BY <1>1, <1>s, Zenon DEF Start
<1>2. ASSUME NEW kind \in CommitKinds, NEW scope \in Scopes, Merge(kind, scope)
      PROVE  Aside
    BY <1>2 DEF Merge, Aside, history
<1>3. ASSUME NEW d \in delivery, Deliver(d)
      PROVE  Starts
    BY <1>3, <1>s, Zenon DEF Deliver
<1>4. ASSUME NEW d \in delivery, DeliverRefused(d)
      PROVE  Aside
    BY <1>4 DEF DeliverRefused, Aside, doc, history, bounds
<1>5. CASE AutoCheck \/ AutoHold \/ AutoRefused
    BY <1>5 DEF AutoCheck, AutoHold, AutoRefused, Aside, doc, history, bounds
<1>6. CASE AutoStart
    BY <1>6, <1>s, Zenon DEF AutoStart
<1>7. ASSUME NEW from, NEW s, Control(from, s),
             s.rings = run.rings, s.target = run.target, s.ring = run.ring,
             s.promotedAt = run.promotedAt, s.status # "completed",
             from \subseteq {"active", "paused", "halted"}
      PROVE  Rewrites
    BY <1>7 DEF Control, Rewrites, InFlight, doc, memory, history, bounds
<1>8. ASSUME NEW s, s \in Runs, NEW kind, kind \in ActionKinds, Unlocked, run.status = "active",
             Store(s, kind),
             s.rings = run.rings, s.target = run.target, s.ring \in {run.ring, run.ring + 1},
             s.promotedAt = run.promotedAt, proven' = proven,
             s.status = "completed" => Deciding("done")
      PROVE  Rewrites
  <2>1. /\ run'.rings = run.rings /\ run'.target = run.target
        /\ run'.ring \in {run.ring, run.ring + 1} /\ run'.promotedAt = run.promotedAt
        /\ run'.status = s.status
    BY <1>8, NoteType DEF Store
  <2> QED BY <1>8, <2>1 DEF Store, Rewrites, InFlight, doc, memory, bounds
<1>k. {"done", "wait", "await-approval", "advance", "halt"} \subseteq ActionKinds
    BY DEF ActionKinds
<1>9. CASE Cancel
  <2> DEFINE s == [run EXCEPT !.status = "cancelled"]
  <2>1. /\ s \in Runs /\ s.rings = run.rings /\ s.ring = run.ring /\ s.target = run.target
        /\ s.promotedAt = run.promotedAt /\ s.status = "cancelled"
    BY <1>t, StatusUpdate
  <2>2. Control({"active", "paused", "halted"}, Note(s, "done"))
    BY <1>9 DEF Cancel
  <2> HIDE DEF s
  <2>3. LET u == Note(s, "done") IN
        /\ u.rings = run.rings /\ u.ring = run.ring /\ u.target = run.target
        /\ u.promotedAt = run.promotedAt /\ u.status = "cancelled"
    BY <1>k, <2>1, NoteType
  <2> QED BY <1>7, <2>2, <2>3
<1>10. CASE ApproveWave
  <2>1. LET u == Approve(run) IN
        /\ u.rings = run.rings /\ u.ring = run.ring /\ u.target = run.target
        /\ u.promotedAt = run.promotedAt /\ u.status = run.status
    BY <1>t, ApproveUpdate
  <2>2. run.status # "completed"
    BY <1>10 DEF ApproveWave, Control
  <2> QED BY <1>7, <1>10, <2>1, <2>2 DEF ApproveWave
<1>11. CASE Pause
  <2> DEFINE s == [run EXCEPT !.status = "paused"]
  <2>1. /\ s.rings = run.rings /\ s.ring = run.ring /\ s.target = run.target
        /\ s.promotedAt = run.promotedAt /\ s.status = "paused"
    BY <1>t, StatusUpdate
  <2>2. Control({"active"}, s)
    BY <1>11 DEF Pause
  <2> HIDE DEF s
  <2> QED BY <1>7, <2>1, <2>2
<1>12. CASE Resume
  <2> DEFINE s == [run EXCEPT !.status = "active"]
  <2>1. /\ s.rings = run.rings /\ s.ring = run.ring /\ s.target = run.target
        /\ s.promotedAt = run.promotedAt /\ s.status = "active"
    BY <1>t, StatusUpdate
  <2>2. Control({"paused"}, s)
    BY <1>12 DEF Resume
  <2> HIDE DEF s
  <2> QED BY <1>7, <2>1, <2>2
<1>13. CASE TickWait
  <2> DEFINE s == IF Converged(CurrentRing, CurrentStatus) /\ run.convergedAt[run.ring] = Never
                  THEN [run EXCEPT !.convergedAt[run.ring] = now] ELSE run
  <2>1. now \in Times
    BY <1>t DEF TypeOK, Times
  <2>2. /\ s \in Runs /\ s.rings = run.rings /\ s.ring = run.ring /\ s.target = run.target
        /\ s.promotedAt = run.promotedAt /\ s.status = run.status
    BY <1>t, <2>1, ConvergedUpdate
  <2>3. Unlocked /\ run.status = "active" /\ Store(s, "wait") /\ proven' = proven
    BY <1>13 DEF TickWait, Deciding
  <2> HIDE DEF s
  <2> QED BY <1>8, <1>k, <2>2, <2>3
<1>14. CASE TickAwaitApproval
  <2>1. Unlocked /\ run.status = "active" /\ Store(run, "await-approval") /\ proven' = proven
    BY <1>14 DEF TickAwaitApproval, Deciding
  <2> QED BY <1>8, <1>k, <1>t, <2>1
<1>15. CASE TickAdvance
  <2> DEFINE s == [run EXCEPT !.ring = @ + 1]
  <2>1. Unlocked /\ run.status = "active" /\ Store(s, "advance") /\ proven' = proven
    BY <1>15 DEF TickAdvance, Deciding
  <2>2. run.ring + 1 \in Nat \ {0}
    BY <1>t, WaveTypes
  <2>3. /\ s \in Runs /\ s.rings = run.rings /\ s.ring = run.ring + 1 /\ s.target = run.target
        /\ s.promotedAt = run.promotedAt /\ s.status = run.status
    BY <1>t, <2>2, RingUpdate
  <2> HIDE DEF s
  <2> QED BY <1>8, <1>k, <2>1, <2>3
<1>16. CASE TickHalt
  <2> DEFINE s == [run EXCEPT !.status = "halted"]
  <2>1. Unlocked /\ run.status = "active" /\ Store(s, "halt") /\ proven' = proven
    BY <1>16 DEF TickHalt, Deciding
  <2>2. /\ s \in Runs /\ s.rings = run.rings /\ s.ring = run.ring /\ s.target = run.target
        /\ s.promotedAt = run.promotedAt /\ s.status = "halted"
    BY <1>t, StatusUpdate
  <2> HIDE DEF s
  <2> QED BY <1>8, <1>k, <2>1, <2>2
<1>17. CASE TickDone
  <2> DEFINE s == [run EXCEPT !.status = "completed"]
  <2>1. /\ Unlocked /\ run.status = "active" /\ Store(s, "done") /\ proven' = proven
        /\ Deciding("done")
    BY <1>17 DEF TickDone, Deciding
  <2>2. /\ s \in Runs /\ s.rings = run.rings /\ s.ring = run.ring /\ s.target = run.target
        /\ s.promotedAt = run.promotedAt
    BY <1>t, StatusUpdate
  <2> HIDE DEF s
  <2> QED BY <1>8, <1>k, <2>1, <2>2
<1>18. CASE TickBuildFailed
  <2> DEFINE s == [run EXCEPT !.status = "halted"]
  <2>1. /\ s.rings = run.rings /\ s.ring = run.ring /\ s.target = run.target
        /\ s.promotedAt = run.promotedAt /\ s.status = "halted"
    BY <1>t, StatusUpdate
  <2>2. Unlocked /\ run.status = "active" /\ run' = s
    BY <1>18 DEF TickBuildFailed, Deciding
  <2> HIDE DEF s
  <2> QED BY <1>18, <2>1, <2>2 DEF TickBuildFailed, Rewrites, InFlight, doc, memory, history, bounds
<1>19. CASE Crash
    BY <1>19 DEF Crash, Fault, Aside, Unlocked, Idle, doc, history
<1>20. ASSUME Commit, \A g \in Groups : groupPin'[g] \in {groupPin[g], NoRev},
              \A d \in Devices : life'[d] \in Unseen => life[d] \in Unseen
       PROVE  Aside
    BY <1>20 DEF Commit, Aside, memory, history
<1>21. ASSUME NEW d \in Devices, NEW cond \in {"ok", "broken"}, Fade(d) \/ CheckIn(d, cond)
       PROVE  Aside
  <2>1. \A e \in Devices : life'[e] \in Unseen => life[e] \in Unseen
    BY <1>t, <1>21 DEF Fade, CheckIn, doc, Unseen
  <2> QED BY <1>21, <2>1 DEF Fade, CheckIn, Aside, doc, memory, history, bounds
<1>22. ASSUME NEW stale \in SUBSET Late, ReapAbandonedEnrolments(stale)
       PROVE  Aside
    BY <1>22 DEF ReapAbandonedEnrolments, Aside, Unseen, memory, history, bounds
<1>23. CASE Clock
    BY <1>23 DEF Clock, Aside, doc, memory, history, bounds
<1>24. CASE UNCHANGED vars
    BY <1>24 DEF vars, Aside, doc, memory, history, bounds
<1>25. /\ \A p \in Plans : EditPlan(p) => Commit /\ groupPin' = groupPin /\ life' = life
       /\ \A d \in Devices : Retire(d) \/ Reactivate(d) =>
            /\ Commit /\ groupPin' = groupPin
            /\ \A e \in Devices : life'[e] \in Unseen => life[e] \in Unseen
    BY <1>t DEF EditPlan, Retire, Reactivate, Unseen
<1>27. ASSUME NEW g \in Groups, Unpin(g)
       PROVE  Aside
  <2>1. Commit /\ groupPin' = [groupPin EXCEPT ![g] = NoRev] /\ life' = life
    BY <1>27 DEF Unpin
  <2>2. \A h \in Groups : groupPin'[h] \in {groupPin[h], NoRev}
    BY <1>t, <2>1
  <2> QED BY <1>20, <2>1, <2>2
<1>28. /\ \A p \in Plans : EditPlan(p) => Aside
       /\ \A d \in Devices : Retire(d) \/ Reactivate(d) => Aside
    BY <1>t, <1>20, <1>25
<1>29. ASSUME NEW d \in Late, Enrol(d)
       PROVE  Aside
  <2>1. \A e \in Devices : life'[e] \in Unseen => life[e] \in Unseen
    BY <1>t, <1>29 DEF Enrol, Unseen
  <2> QED BY <1>29, <2>1 DEF Enrol, Aside, history
<1>30. CASE EnsureRingsContain \/ RefuseRing \/ DispatchImage
    BY <1>30 DEF EnsureRingsContain, RefuseRing, DispatchImage, Aside, doc, history, bounds
<1>31. ASSUME NEW g \in Groups, AdvanceRing(g) \/ AdvanceRingFails(g)
       PROVE  Advances
  <2>1. enrol.rev # NoRev
    BY <1>t, <1>31 DEF TypeOK, AdvanceRing, AdvanceRingFails
  <2> QED BY <1>31, <2>1
      DEF AdvanceRing, AdvanceRingFails, Advances, Fault, doc, history, bounds
<1> QED
    BY <1>1, <1>2, <1>3, <1>4, <1>5, <1>6, <1>9, <1>10, <1>11, <1>12, <1>13, <1>14,
       <1>15, <1>16, <1>17, <1>18, <1>19, <1>21, <1>22, <1>23, <1>24, <1>27, <1>28,
       <1>29, <1>30, <1>31
    DEF Next, Tick, AutoFlow, Operate, Enrolment

(***************************************************************************)
(* Part 2: the branches.                                                   *)
(***************************************************************************)
\* A paused or halted run is still, but for enrolments: FollowHead leaves the
\* branches of a run in flight alone, only an active run ticks, and a tick under way
\* holds the mutex Pause takes, so it has ended before the run can be paused.
THEOREM StoppedAlwaysStill == Spec => StoppedMeansStill
<1>1. ASSUME TypeInv, [Next]_vars, run.status \in {"paused", "halted"}
      PROVE  /\ devPin' = devPin
             /\ \A g \in Groups :
                /\ localRef'[g] # localRef[g] => g \in enrol.todo /\ localRef'[g] = enrol.rev
                /\ remoteRef'[g] # remoteRef[g] => g \in enrol.todo /\ remoteRef'[g] = enrol.rev
             /\ \A g \in Groups : groupPin'[g] \in {groupPin[g], NoRev}
  <2>1. Unlocked /\ run.status # "active" /\ InFlight
    BY <1>1 DEF TypeInv, InFlight
  <2>2. CASE Aside
    BY <2>2 DEF Aside, refs
  <2>3. CASE Rewrites
    BY <2>3 DEF Rewrites, refs
  <2>4. CASE Starts
    BY <2>4 DEF Starts, refs
  <2>8. CASE Advances
    <3>1. localRef \in [Groups -> Nat] /\ remoteRef \in [Groups -> Nat]
        BY <1>1 DEF TypeInv, TypeOK
    <3> QED BY <2>8, <3>1 DEF Advances
  <2>5. ~(TickPromote \/ TickWiden)
    BY <2>1 DEF TickPromote, TickWiden, Deciding
  <2>6. ~(PinGroup \/ PickCohort \/ ReleaseDevice \/ CohortReleased \/ MoveRef \/ PutTick \/ TickFails)
    BY <2>1 DEF PinGroup, PickCohort, ReleaseDevice, CohortReleased, MoveRef, PutTick, TickFails,
                Unlocked
  <2>7. ~(FollowHead \/ FollowHeadFails)
    BY <2>1 DEF FollowHead, FollowHeadFails, MayFollow
  <2> QED BY <1>1, <2>2, <2>3, <2>4, <2>5, <2>6, <2>7, <2>8, StepShapes
<1>2. TypeInv /\ [Next]_vars =>
        [run.status \in {"paused", "halted"} =>
            /\ devPin' = devPin
            /\ \A g \in Groups :
                /\ localRef'[g] # localRef[g] => g \in enrol.todo /\ localRef'[g] = enrol.rev
                /\ remoteRef'[g] # remoteRef[g] => g \in enrol.todo /\ remoteRef'[g] = enrol.rev
            /\ \A g \in Groups : groupPin'[g] \in {groupPin[g], NoRev}]_vars
    BY <1>1
<1> QED BY TypeInit, TypeStep, <1>2, PTL DEF Spec, StoppedMeansStill

InSeq(g, s) == \E i \in 1..Len(s) : s[i] = g

\* A wave's groups are the ones its list names.
LEMMA InGroupList ==
    ASSUME NEW r
    PROVE  \A g : g \in GroupsOf(r) <=> InSeq(g, GroupList(r))
BY DEF GroupsOf, InSeq

\* Dealing with the head of a work list leaves the other members.
LEMMA InTail ==
    ASSUME NEW S, NEW s \in Seq(S), s # <<>>
    PROVE  /\ InSeq(Head(s), s)
           /\ \A g : InSeq(g, s) => g = Head(s) \/ InSeq(g, Tail(s))
           /\ \A g : InSeq(g, Tail(s)) => InSeq(g, s)
<1>1. /\ Len(s) \in Nat \ {0} /\ Head(s) = s[1] /\ Len(Tail(s)) = Len(s) - 1
      /\ \A i \in 1..Len(Tail(s)) : Tail(s)[i] = s[i + 1]
    OBVIOUS
<1>2. ASSUME NEW g, NEW i \in 1..Len(s), s[i] = g, g # Head(s)
      PROVE  InSeq(g, Tail(s))
  <2>1. i - 1 \in 1..Len(Tail(s)) /\ (i - 1) + 1 = i
    BY <1>1, <1>2
  <2>2. Tail(s)[i - 1] = s[i]
    BY <1>1, <2>1
  <2> QED BY <1>2, <2>1, <2>2 DEF InSeq
<1>3. ASSUME NEW g, NEW i \in 1..Len(Tail(s)), Tail(s)[i] = g
      PROVE  InSeq(g, s)
  <2>1. i + 1 \in 1..Len(s)
    BY <1>1, <1>3
  <2> QED BY <1>1, <1>3, <2>1 DEF InSeq
<1>4. InSeq(Head(s), s)
    BY <1>1 DEF InSeq
<1> QED BY <1>2, <1>3, <1>4 DEF InSeq

\* What a tick knows about its own progress: only a promotion pins groups and
\* moves branches, the ones it still has to deal with are the current wave's, and
\* the branches of that wave it has moved stand on the target, or where an
\* enrolment has put them since.
MoveInv ==
    /\ tick.pc \in {"pin", "move"} =>
        /\ tick.kind = "promote"
        /\ \A g : InSeq(g, tick.todo) => g \in GroupsOf(CurrentRing)
    /\ tick.pc = "put" => tick.kind # "promote"
    /\ tick.pc = "move" =>
        \A g \in GroupsOf(CurrentRing) :
            InSeq(g, tick.todo) \/ remoteRef[g] = run.target \/ Placed(g)

BranchInv == TypeInv /\ MoveInv /\ PromotedMeansOffered /\ LaterWavesHeld

\* Nothing is promoted and no run is in flight when the service starts.
LEMMA BranchInit == Init => BranchInv
<1> SUFFICES ASSUME Init PROVE MoveInv /\ PromotedMeansOffered /\ LaterWavesHeld
    BY TypeInit DEF BranchInv
<1>1. tick.pc = "idle"
    BY DEF Init, Idle
<1>2. run.status = "none"
  <2>1. NewState(RingIds, NoRev, <<>>, "none") \in Runs
    BY DEF NewState, Runs, Times, Never, NoRev
  <2> QED BY <2>1, StatusUpdate DEF Init, NoRun
<1> QED BY <1>1, <1>2 DEF MoveInv, PromotedMeansOffered, LaterWavesHeld, InFlight

\* Steps that keep the record, the branches and the tick (or lose the tick).
LEMMA BranchFrame ==
    ASSUME BranchInv, TypeInv', run' = run, base' = base, remoteRef' = remoteRef,
           placed' = placed, tick' = tick \/ Unlocked'
    PROVE  BranchInv'
<1>1. MoveInv'
    BY DEF BranchInv, MoveInv, Unlocked, CurrentRing, Placed
<1>2. PromotedMeansOffered' /\ LaterWavesHeld'
    BY DEF BranchInv, PromotedMeansOffered, LaterWavesHeld, InFlight, Promoted, Placed
<1> QED BY <1>1, <1>2 DEF BranchInv

\* Steps that rewrite the record between ticks.
LEMMA BranchRewrites ==
    ASSUME BranchInv, TypeInv', Rewrites
    PROVE  BranchInv'
<1>1. MoveInv'
    BY DEF Rewrites, Unlocked, MoveInv
<1>2. TypeOK /\ run.ring \in Nat /\ Len(run.rings) \in Nat /\ \A i \in RingIds : i \in Nat
    BY WaveTypes DEF BranchInv, TypeInv
<1>3. PromotedMeansOffered'
    BY DEF BranchInv, Rewrites, PromotedMeansOffered, Promoted, Placed, refs
<1>4. \A i \in RingIds : i <= run.ring => i <= run'.ring
    BY <1>2 DEF Rewrites
<1>5. LaterWavesHeld'
    BY <1>4 DEF BranchInv, Rewrites, LaterWavesHeld, Placed, refs
<1> QED BY <1>1, <1>3, <1>5 DEF BranchInv

\* StartWith: the branches stand where the new run's history says.
LEMMA BranchStarts ==
    ASSUME BranchInv, TypeInv', Starts
    PROVE  BranchInv'
<1>1. MoveInv'
    BY DEF Starts, Unlocked, MoveInv
<1>2. PromotedMeansOffered' /\ LaterWavesHeld'
    BY DEF Starts, PromotedMeansOffered, LaterWavesHeld, Promoted, refs
<1> QED BY <1>1, <1>2 DEF BranchInv

\* A push: the branch belongs to the current wave and reaches the target.
LEMMA BranchMove ==
    ASSUME BranchInv, TypeInv', MoveRef
    PROVE  BranchInv'
<1>t. /\ TypeOK /\ ~Unlocked /\ run.ring <= Len(run.rings) /\ run.ring \in RingIds
      /\ tick.todo \in Seq(Groups) /\ tick.todo # <<>> /\ tick \in Ticks
      /\ remoteRef \in [Groups -> Nat] /\ placed \in [Groups -> Nat]
  <2>1. TypeOK /\ tick.pc = "move" /\ tick.todo # <<>>
    BY DEF BranchInv, TypeInv, MoveRef
  <2>2. ~Unlocked /\ run.ring <= Len(run.rings)
    BY <2>1 DEF Unlocked, BranchInv, TypeInv
  <2>3. run.ring \in RingIds
    BY <2>1, <2>2, WaveTypes
  <2> QED BY <2>1, <2>2, <2>3 DEF TypeOK, Ticks
<1>1. /\ tick.pc = "move" /\ run' = run /\ base' = base
      /\ tick' = [tick EXCEPT !.todo = Tail(@)]
      /\ remoteRef' = [remoteRef EXCEPT ![Head(tick.todo)] = run.target]
      /\ placed' = [placed EXCEPT ![Head(tick.todo)] = NoRev]
    BY DEF MoveRef, moveRingRef
<1>2. tick'.pc = "move" /\ tick'.kind = tick.kind /\ tick'.todo = Tail(tick.todo)
    BY <1>t, <1>1 DEF Ticks
<1>3. Head(tick.todo) \in GroupsOf(CurrentRing) /\ Head(tick.todo) \in Groups
    BY <1>t, <1>1, InTail DEF BranchInv, MoveInv
<1>4. /\ \A g \in Groups : remoteRef'[g] = IF g = Head(tick.todo) THEN run.target ELSE remoteRef[g]
      /\ \A g \in Groups : g # Head(tick.todo) => placed'[g] = placed[g]
    BY <1>t, <1>1
<1>9. \A g \in Groups : Placed(g) => Placed(g)' \/ remoteRef'[g] = run.target
    BY <1>4 DEF Placed
<1>5. GroupsOf(CurrentRing) \subseteq Groups /\ CurrentRing' = CurrentRing
    BY <1>t, <1>1, CurrentRingType DEF CurrentRing
<1>6. MoveInv'
  <2>1. \A g : InSeq(g, Tail(tick.todo)) => g \in GroupsOf(CurrentRing)
    BY <1>t, <1>1, InTail DEF BranchInv, MoveInv
  <2>2. ASSUME NEW g \in GroupsOf(CurrentRing)
        PROVE  InSeq(g, Tail(tick.todo)) \/ remoteRef'[g] = run.target \/ Placed(g)'
    <3>1. InSeq(g, tick.todo) \/ remoteRef[g] = run.target \/ Placed(g)
        BY <1>1 DEF BranchInv, MoveInv
    <3>2. g \in Groups
        BY <1>5
    <3>3. InSeq(g, tick.todo) => g = Head(tick.todo) \/ InSeq(g, Tail(tick.todo))
        BY <1>t, InTail
    <3> QED BY <1>4, <1>9, <3>1, <3>2, <3>3
  <2>3. tick.kind = "promote"
    BY <1>1 DEF BranchInv, MoveInv
  <2> QED BY <1>1, <1>2, <1>5, <2>1, <2>2, <2>3 DEF MoveInv
<1>7. PromotedMeansOffered'
  <2> SUFFICES ASSUME InFlight', NEW i \in RingIds, Promoted(i)', NEW g \in GroupsOf(run'.rings[i])
               PROVE  remoteRef'[g] = run'.target \/ Placed(g)'
    BY DEF PromotedMeansOffered
  <2>1. InFlight /\ Promoted(i)
    BY <1>1 DEF InFlight, Promoted
  <2>2. remoteRef[g] = run.target \/ Placed(g)
    BY <1>1, <2>1 DEF BranchInv, PromotedMeansOffered
  <2>3. g \in Groups
    <3>1. run.rings[i] \in Ring
        BY <1>t, <2>1, WaveTypes DEF Promoted
    <3> QED BY <1>1, <3>1, GroupListType
  <2> QED BY <1>1, <1>4, <1>9, <2>2, <2>3
<1>8. LaterWavesHeld'
  <2> SUFFICES ASSUME InFlight', NEW g \in Groups
               PROVE  \/ remoteRef'[g] = base'[g]
                      \/ Placed(g)'
                      \/ \E i \in RingIds : /\ i <= run'.ring /\ i <= Len(run'.rings)
                                            /\ g \in GroupsOf(run'.rings[i])
    BY DEF LaterWavesHeld
  <2>1. InFlight
    BY <1>1 DEF InFlight
  <2>2. CASE g = Head(tick.todo)
    <3>1. run.ring <= run.ring
        BY <1>t, WaveTypes
    <3> QED BY <1>t, <1>1, <1>3, <2>2, <3>1 DEF CurrentRing
  <2>3. CASE g # Head(tick.todo)
    BY <1>1, <1>4, <2>1, <2>3 DEF BranchInv, LaterWavesHeld, Placed
  <2> QED BY <2>2, <2>3
<1> QED BY <1>6, <1>7, <1>8 DEF BranchInv

\* The store write that records a promotion comes after the last push.
LEMMA BranchPut ==
    ASSUME BranchInv, TypeInv', PutTick
    PROVE  BranchInv'
<1>t. TypeOK /\ ~Unlocked /\ run.ring <= Len(run.rings) /\ run \in Runs
      /\ tick.at \in Times /\ Never \in Times
  <2>1. ~Unlocked
    BY DEF PutTick, Unlocked
  <2> QED BY <2>1 DEF BranchInv, TypeInv, TypeOK, Ticks, Times
<1>1. MoveInv'
    BY DEF PutTick, Idle, MoveInv
<1>2. base' = base /\ remoteRef' = remoteRef /\ \A g : Placed(g)' <=> Placed(g)
    BY DEF PutTick, history, refs, Placed
<1>3. "promote" \in ActionKinds /\ "widen-cohort" \in ActionKinds
    BY DEF ActionKinds
<1>4. CASE tick.kind = "promote"
  <2> DEFINE s == [run EXCEPT !.promotedAt[run.ring] = tick.at]
  <2>1. /\ s \in Runs /\ s.rings = run.rings /\ s.ring = run.ring /\ s.target = run.target
        /\ s.promotedAt = [run.promotedAt EXCEPT ![run.ring] = tick.at] /\ s.status = run.status
    BY <1>t, PromotedUpdate
  <2>2. run' = Note(s, "promote")
    BY <1>4 DEF PutTick
  <2> HIDE DEF s
  <2>3. /\ run'.rings = run.rings /\ run'.ring = run.ring /\ run'.target = run.target
        /\ run'.promotedAt = [run.promotedAt EXCEPT ![run.ring] = tick.at]
        /\ run'.status = run.status
    BY <1>3, <2>1, <2>2, NoteType
  <2>4. \A g \in GroupsOf(CurrentRing) : remoteRef[g] = run.target \/ Placed(g)
    <3>1. tick.pc = "move" /\ tick.todo = <<>>
        BY <1>4 DEF PutTick, BranchInv, MoveInv
    <3>2. \A g : ~InSeq(g, <<>>)
        BY DEF InSeq
    <3> QED BY <3>1, <3>2 DEF BranchInv, MoveInv
  <2>5. PromotedMeansOffered'
    <3> SUFFICES ASSUME InFlight', NEW i \in RingIds, Promoted(i)', NEW g \in GroupsOf(run'.rings[i])
                 PROVE  remoteRef'[g] = run'.target \/ Placed(g)'
        BY DEF PromotedMeansOffered
    <3>1. CASE i = run.ring
        BY <1>2, <2>3, <2>4, <3>1 DEF CurrentRing
    <3>2. CASE i # run.ring
      <4>1. Promoted(i)
        BY <1>t, <2>3, <3>2, WaveTypes DEF Promoted
      <4> QED BY <1>2, <2>3, <4>1 DEF BranchInv, PromotedMeansOffered, InFlight
    <3> QED BY <3>1, <3>2
  <2>6. LaterWavesHeld'
    BY <1>2, <2>3 DEF BranchInv, LaterWavesHeld, InFlight
  <2> QED BY <1>1, <2>5, <2>6 DEF BranchInv
<1>5. CASE tick.kind # "promote"
  <2> DEFINE s == [run EXCEPT !.convergedAt[run.ring] = Never]
  <2>1. /\ s \in Runs /\ s.rings = run.rings /\ s.ring = run.ring /\ s.target = run.target
        /\ s.promotedAt = run.promotedAt /\ s.status = run.status
    BY <1>t, ConvergedUpdate
  <2>2. run' = Note(s, "widen-cohort")
    BY <1>5 DEF PutTick
  <2> HIDE DEF s
  <2>3. /\ run'.rings = run.rings /\ run'.ring = run.ring /\ run'.target = run.target
        /\ run'.promotedAt = run.promotedAt /\ run'.status = run.status
    BY <1>3, <2>1, <2>2, NoteType
  <2>4. PromotedMeansOffered' /\ LaterWavesHeld'
    BY <1>2, <2>3 DEF BranchInv, PromotedMeansOffered, LaterWavesHeld, InFlight, Promoted
  <2> QED BY <1>1, <2>4 DEF BranchInv
<1> QED BY <1>4, <1>5

\* Steps of a tick that touch neither the record nor a branch.
LEMMA BranchInTick ==
    ASSUME BranchInv, TypeInv', run' = run, base' = base, remoteRef' = remoteRef,
           placed' = placed, MoveInv'
    PROVE  BranchInv'
BY DEF BranchInv, PromotedMeansOffered, LaterWavesHeld, InFlight, Promoted, Placed

\* An enrolment's push: whatever the branch was held to before, it now stands where
\* the enrolment put it.
LEMMA BranchAdvances ==
    ASSUME BranchInv, TypeInv', Advances
    PROVE  BranchInv'
<1>1. remoteRef \in [Groups -> Nat] /\ placed \in [Groups -> Nat]
    BY DEF BranchInv, TypeInv, TypeOK
<1>2. \A g \in Groups : Placed(g)' \/ (remoteRef'[g] = remoteRef[g] /\ placed'[g] = placed[g])
    BY <1>1 DEF Advances, Placed
<1>3. \A g \in Groups : Placed(g)' \/ (remoteRef'[g] = remoteRef[g] /\ (Placed(g) => Placed(g)'))
    BY <1>2 DEF Placed
<1>4. MoveInv'
  <2>1. tick.pc = "move" => GroupsOf(CurrentRing) \subseteq Groups
    BY CurrentRingType DEF BranchInv, TypeInv, Unlocked
  <2> QED BY <1>3, <2>1 DEF BranchInv, MoveInv, Advances, CurrentRing
<1>5. PromotedMeansOffered'
  <2> SUFFICES ASSUME InFlight', NEW i \in RingIds, Promoted(i)', NEW g \in GroupsOf(run'.rings[i])
               PROVE  remoteRef'[g] = run'.target \/ Placed(g)'
    BY DEF PromotedMeansOffered
  <2>1. InFlight /\ Promoted(i) /\ run' = run
    BY DEF Advances, InFlight, Promoted
  <2>2. g \in Groups
    <3>1. run.rings[i] \in Ring
        BY <2>1, WaveTypes DEF Promoted, BranchInv, TypeInv
    <3> QED BY <2>1, <3>1, GroupListType
  <2>3. remoteRef[g] = run.target \/ Placed(g)
    BY <2>1 DEF BranchInv, PromotedMeansOffered
  <2> QED BY <1>3, <2>1, <2>2, <2>3
<1>6. LaterWavesHeld'
    BY <1>3 DEF BranchInv, LaterWavesHeld, Advances, InFlight
<1> QED BY <1>4, <1>5, <1>6 DEF BranchInv

\* Every step keeps the branches where the record says they are.
LEMMA BranchStep == BranchInv /\ [Next]_vars => BranchInv'
<1> SUFFICES ASSUME BranchInv, [Next]_vars PROVE BranchInv'
    OBVIOUS
<1>y. TypeInv /\ TypeInv' /\ tick \in Ticks
    BY TypeStep DEF BranchInv, TypeInv, TypeOK
<1>1. CASE Aside
    BY <1>1, <1>y, BranchFrame DEF Aside, refs
<1>12. CASE Advances
    BY <1>12, <1>y, BranchAdvances
<1>2. CASE Rewrites
    BY <1>2, <1>y, BranchRewrites
<1>3. CASE Starts
    BY <1>3, <1>y, BranchStarts
<1>4. CASE TickPromote \/ TickWiden
  <2>1. run' = run /\ base' = base /\ remoteRef' = remoteRef /\ placed' = placed
        /\ \/ /\ tick'.pc = "pin" /\ tick'.kind = "promote"
              /\ tick'.todo = GroupList(CurrentRing)
           \/ tick'.pc = "release"
    BY <1>4 DEF TickPromote, TickWiden, refs, history
  <2>2. MoveInv'
    BY <2>1, InGroupList DEF MoveInv, CurrentRing
  <2> QED BY <1>y, <2>1, <2>2, BranchInTick
<1>5. CASE PinGroup
  <2>1. /\ run' = run /\ base' = base /\ remoteRef' = remoteRef /\ placed' = placed
        /\ tick.pc = "pin" /\ tick.todo \in Seq(Groups) /\ tick.todo # <<>>
    BY <1>5, <1>y DEF PinGroup, refs, history, Ticks
  <2>2. tick'.pc = "pin" /\ tick'.kind = tick.kind /\ tick'.todo = Tail(tick.todo)
    BY <1>5, <1>y DEF PinGroup, Ticks
  <2>3. \A g : InSeq(g, Tail(tick.todo)) => InSeq(g, tick.todo)
    BY <2>1, InTail
  <2>4. MoveInv'
    BY <2>1, <2>2, <2>3 DEF BranchInv, MoveInv, CurrentRing
  <2> QED BY <1>y, <2>1, <2>4, BranchInTick
<1>11. CASE PickCohort \/ ReleaseDevice
  <2>1. run' = run /\ base' = base /\ remoteRef' = remoteRef /\ placed' = placed
    BY <1>11 DEF PickCohort, ReleaseDevice, refs, history
  <2>2. tick'.pc = "release"
    BY <1>11, <1>y DEF PickCohort, ReleaseDevice, Ticks
  <2>3. MoveInv'
    BY <2>2 DEF MoveInv
  <2> QED BY <1>y, <2>1, <2>3, BranchInTick
<1>6. CASE CohortReleased
  <2>1. run' = run /\ base' = base /\ remoteRef' = remoteRef /\ placed' = placed
    BY <1>6 DEF CohortReleased, refs, history
  <2>2. CurrentRing' = CurrentRing
    BY <2>1 DEF CurrentRing
  <2>3. \/ tick'.pc = "move" /\ tick'.kind = "promote" /\ tick'.todo = GroupList(CurrentRing)
        \/ tick'.pc = "put" /\ tick'.kind # "promote"
    BY <1>6, <1>y DEF CohortReleased, Ticks
  <2>4. MoveInv'
    BY <2>1, <2>2, <2>3, InGroupList DEF MoveInv
  <2> QED BY <1>y, <2>1, <2>4, BranchInTick
<1>7. CASE MoveRef
    BY <1>7, <1>y, BranchMove
<1>8. CASE PutTick
    BY <1>8, <1>y, BranchPut
<1>9. CASE TickFails
  <2>1. run' = run /\ base' = base /\ remoteRef' = remoteRef /\ placed' = placed /\ Unlocked'
    BY <1>9 DEF TickFails, Unlocked, Idle, history
  <2> QED BY <1>y, <2>1, BranchFrame
<1>10. CASE FollowHead \/ FollowHeadFails
  <2>1. run' = run /\ tick' = tick /\ ~InFlight /\ tick.pc = "idle"
    BY <1>10 DEF FollowHead, FollowHeadFails, MayFollow, Unlocked, memory
  <2>2. MoveInv' /\ PromotedMeansOffered' /\ LaterWavesHeld'
    BY <2>1 DEF MoveInv, PromotedMeansOffered, LaterWavesHeld, InFlight
  <2> QED BY <1>y, <2>2 DEF BranchInv
<1> QED BY <1>y, <1>1, <1>2, <1>3, <1>4, <1>5, <1>6, <1>7, <1>8, <1>9, <1>10, <1>11, <1>12,
           StepShapes

\* A promotion that failed half way and was retried, by this process or the next
\* one, is only recorded once every REMOTE branch of its wave has been on the target,
\* and only an enrolment takes one off it again.
THEOREM PromotedAlwaysOffered == Spec => []PromotedMeansOffered
<1>1. BranchInv => PromotedMeansOffered
    BY DEF BranchInv
<1> QED BY BranchInit, BranchStep, <1>1, PTL DEF Spec

\* While a run is in flight no branch moves ahead of its wave, unless an enrolment
\* moves it.
THEOREM LaterWavesAlwaysHeld == Spec => []LaterWavesHeld
<1>1. BranchInv => LaterWavesHeld
    BY DEF BranchInv
<1> QED BY BranchInit, BranchStep, <1>1, PTL DEF Spec

(***************************************************************************)
(* Part 3: pins and branches.                                              *)
(***************************************************************************)
Promoting == tick.kind = "promote" /\ tick.pc \in {"pin", "release", "move"}

\* A pin and its branch differ only inside the promotion that writes the one and
\* then moves the other, and where an enrolment has moved the branch.
PinOrBranch(g) ==
    groupPin[g] # NoRev =>
        \/ remoteRef[g] = groupPin[g]
        \/ Placed(g)
        \/ /\ Promoting /\ g \in GroupsOf(CurrentRing) /\ groupPin[g] = run.target
           /\ tick.pc = "move" => InSeq(g, tick.todo)

\* The groups a promotion has pinned are on the target, or a person has removed
\* the pin again.
PinnedSoFar ==
    Promoting => \A g \in GroupsOf(CurrentRing) :
        \/ tick.pc = "pin" /\ InSeq(g, tick.todo)
        \/ groupPin[g] \in {NoRev, run.target}

PinInv ==
    /\ BranchInv
    /\ faults = 0 => PinnedSoFar /\ \A g \in Groups : PinOrBranch(g)

\* Every branch starts on the first revision, and so does every pin.
LEMMA PinInit == Init => PinInv
<1> SUFFICES ASSUME Init PROVE PinnedSoFar /\ \A g \in Groups : PinOrBranch(g)
    BY BranchInit DEF PinInv
<1>1. ~Promoting
    BY DEF Init, Idle, Promoting
<1>2. \A g \in Groups : groupPin[g] \in {NoRev, 1} /\ remoteRef[g] = 1
    BY DEF Init, NoRev
<1> QED BY <1>1, <1>2 DEF PinnedSoFar, PinOrBranch

\* The faults counted so far never go back to none.
LEMMA NoFaultYet ==
    ASSUME TypeInv, [Next]_vars, faults' = 0
    PROVE  faults = 0 /\ ~TickFails /\ ~FollowHeadFails
           /\ (Aside => tick' = tick)
<1>1. faults \in Nat
    BY DEF TypeInv, TypeOK
<1>2. /\ ~TickFails /\ ~FollowHeadFails /\ (Aside => tick' = tick /\ faults' = faults)
      /\ Advances => faults' = faults
    BY <1>1 DEF TickFails, FollowHeadFails, Fault, Aside, Advances
<1>3. Rewrites \/ Starts => faults' = faults
    BY DEF Rewrites, Starts
<1>4. TickPromote \/ TickWiden \/ PinGroup \/ PickCohort \/ ReleaseDevice \/ CohortReleased
      \/ MoveRef \/ PutTick \/ FollowHead => faults' = faults
    BY DEF TickPromote, TickWiden, PinGroup, PickCohort, ReleaseDevice, CohortReleased,
           MoveRef, PutTick, FollowHead, bounds
<1> QED BY <1>2, <1>3, <1>4, StepShapes

\* Steps in which no branch moves, nothing new is pinned and the promotion, if
\* there is one, stays in its phase with its work list.
LEMMA PinFrame ==
    ASSUME PinnedSoFar, \A g \in Groups : PinOrBranch(g), TypeInv,
           remoteRef' = remoteRef, \A g \in Groups : Placed(g) => Placed(g)',
           \A g \in Groups : groupPin'[g] \in {groupPin[g], NoRev}, run' = run, Promoting' <=> Promoting,
           Promoting => tick'.pc = tick.pc /\ tick'.todo = tick.todo
    PROVE  PinnedSoFar' /\ \A g \in Groups : PinOrBranch(g)'
<1>1. CurrentRing' = CurrentRing
    BY DEF CurrentRing
<1>2. Promoting => GroupsOf(CurrentRing) \subseteq Groups
  <2>1. Promoting => ~Unlocked
    BY DEF Promoting, Unlocked
  <2> QED BY <2>1, CurrentRingType DEF TypeInv
<1>3. PinnedSoFar'
    BY <1>1, <1>2 DEF PinnedSoFar
<1>4. ASSUME NEW g \in Groups PROVE PinOrBranch(g)'
    BY <1>1 DEF PinOrBranch
<1> QED BY <1>3, <1>4

\* Between promotions the record may change as it likes.
LEMMA PinIdle ==
    ASSUME PinnedSoFar, \A g \in Groups : PinOrBranch(g),
           remoteRef' = remoteRef, placed' = placed, groupPin' = groupPin, ~Promoting, ~Promoting'
    PROVE  PinnedSoFar' /\ \A g \in Groups : PinOrBranch(g)'
BY DEF PinnedSoFar, PinOrBranch, Placed

\* Every step keeps pins and branches together.
LEMMA PinStep == PinInv /\ [Next]_vars => PinInv'
<1> SUFFICES ASSUME PinInv, [Next]_vars, faults' = 0
             PROVE  PinnedSoFar' /\ \A g \in Groups : PinOrBranch(g)'
    BY BranchStep DEF PinInv
<1>y. TypeInv /\ TypeOK /\ MoveInv /\ tick \in Ticks /\ groupPin \in [Groups -> Nat]
      /\ remoteRef \in [Groups -> Nat] /\ placed \in [Groups -> Nat]
    BY DEF PinInv, BranchInv, TypeInv, TypeOK
<1>f. /\ faults = 0 /\ ~TickFails /\ ~FollowHeadFails
      /\ Aside => tick' = tick
    BY <1>y, NoFaultYet
<1>i. PinnedSoFar /\ \A g \in Groups : PinOrBranch(g)
    BY <1>f DEF PinInv
<1>c. ~Unlocked => GroupsOf(CurrentRing) \subseteq Groups /\ run.target \in Nat
    BY <1>y, CurrentRingType DEF TypeInv, TypeOK, Runs
<1>1. CASE Aside
    BY <1>1, <1>f, <1>i, <1>y, PinFrame DEF Aside, refs, Promoting, Placed
<1>2. CASE Rewrites \/ Starts
    BY <1>2, <1>i, PinIdle DEF Rewrites, Starts, Unlocked, Promoting, refs
<1>3. CASE TickPromote
  <2>1. /\ ~Promoting /\ run' = run /\ groupPin' = groupPin /\ remoteRef' = remoteRef
        /\ placed' = placed
        /\ tick'.pc = "pin" /\ tick'.todo = GroupList(CurrentRing) /\ CurrentRing' = CurrentRing
    BY <1>3 DEF TickPromote, Deciding, Unlocked, Promoting, doc, refs, CurrentRing, history
  <2>2. PinnedSoFar'
    BY <2>1, InGroupList DEF PinnedSoFar
  <2> QED BY <1>i, <2>1, <2>2 DEF PinOrBranch, Placed
<1>4. CASE TickWiden
  <2>1. /\ ~Promoting /\ ~Promoting' /\ groupPin' = groupPin /\ remoteRef' = remoteRef
        /\ placed' = placed
    BY <1>4 DEF TickWiden, Deciding, Unlocked, Promoting, doc, refs
  <2> QED BY <1>i, <2>1, PinIdle
<1>5. CASE PinGroup
  <2>1. /\ tick.pc = "pin" /\ tick.todo # <<>> /\ run' = run /\ remoteRef' = remoteRef
        /\ placed' = placed
        /\ groupPin' = [groupPin EXCEPT ![Head(tick.todo)] = run.target]
        /\ tick' = [tick EXCEPT !.todo = Tail(@)] /\ tick.todo \in Seq(Groups)
    BY <1>5, <1>y DEF PinGroup, refs, Ticks, history
  <2>2. tick'.pc = "pin" /\ tick'.kind = tick.kind /\ tick'.todo = Tail(tick.todo)
        /\ tick.kind = "promote"
    BY <1>y, <2>1 DEF Ticks, MoveInv
  <2>3. Promoting /\ Promoting' /\ CurrentRing' = CurrentRing /\ ~Unlocked
    BY <2>1, <2>2 DEF Promoting, CurrentRing, Unlocked
  <2>4. \A g \in Groups : groupPin'[g] = IF g = Head(tick.todo) THEN run.target ELSE groupPin[g]
    BY <1>y, <2>1
  <2>5. PinnedSoFar'
    <3> SUFFICES ASSUME NEW g \in GroupsOf(CurrentRing)
                 PROVE  InSeq(g, tick'.todo) \/ groupPin'[g] \in {NoRev, run'.target}
        BY <2>2, <2>3 DEF PinnedSoFar
    <3>1. InSeq(g, tick.todo) \/ groupPin[g] \in {NoRev, run.target}
        BY <1>i, <2>3 DEF PinnedSoFar
    <3>2. InSeq(g, tick.todo) => g = Head(tick.todo) \/ InSeq(g, Tail(tick.todo))
        BY <2>1, InTail
    <3>3. g \in Groups
        BY <1>c, <2>3
    <3> QED BY <2>1, <2>2, <2>4, <3>1, <3>2, <3>3
  <2>6. ASSUME NEW g \in Groups PROVE PinOrBranch(g)'
    <3>1. CASE g = Head(tick.todo) /\ g \in GroupsOf(CurrentRing)
        BY <2>1, <2>2, <2>3, <2>4, <3>1 DEF PinOrBranch
    <3>2. CASE g # Head(tick.todo)
        BY <1>i, <2>1, <2>2, <2>3, <2>4, <3>2 DEF PinOrBranch, Placed
    <3>3. Head(tick.todo) \in GroupsOf(CurrentRing)
        BY <1>y, <2>1, InTail DEF MoveInv
    <3> QED BY <3>1, <3>2, <3>3
  <2> QED BY <2>5, <2>6
<1>6. CASE PickCohort
  <2>1. /\ tick.pc = "pin" /\ tick.todo = <<>> /\ tick'.pc = "release" /\ tick'.kind = tick.kind
        /\ run' = run /\ groupPin' = groupPin /\ remoteRef' = remoteRef /\ placed' = placed
    BY <1>6, <1>y DEF PickCohort, Ticks, doc, refs, history
  <2>2. CurrentRing' = CurrentRing /\ \A g : ~InSeq(g, <<>>)
    BY <2>1 DEF CurrentRing, InSeq
  <2>3. tick.kind = "promote"
    BY <1>y, <2>1 DEF MoveInv
  <2>4. Promoting /\ Promoting'
    BY <2>1, <2>3 DEF Promoting
  <2>5. PinnedSoFar'
    BY <1>i, <2>1, <2>2, <2>4 DEF PinnedSoFar
  <2>6. ASSUME NEW g \in Groups PROVE PinOrBranch(g)'
    BY <1>i, <2>1, <2>2, <2>4 DEF PinOrBranch, Placed
  <2> QED BY <2>5, <2>6
<1>7. CASE ReleaseDevice
  <2>1. /\ tick'.pc = tick.pc /\ tick'.kind = tick.kind /\ tick'.todo = tick.todo
        /\ run' = run /\ groupPin' = groupPin /\ remoteRef' = remoteRef /\ placed' = placed
    BY <1>7, <1>y DEF ReleaseDevice, Ticks, refs, history
  <2> QED BY <1>i, <1>y, <2>1, PinFrame DEF Promoting, Placed
<1>8. CASE CohortReleased
  <2>1. /\ run' = run /\ groupPin' = groupPin /\ remoteRef' = remoteRef /\ placed' = placed
        /\ tick.pc = "release"
    BY <1>8 DEF CohortReleased, doc, refs, history
  <2>2. CurrentRing' = CurrentRing
    BY <2>1 DEF CurrentRing
  <2>3. CASE tick.kind = "promote"
    <3>1. tick'.pc = "move" /\ tick'.kind = "promote" /\ tick'.todo = GroupList(CurrentRing)
        BY <1>8, <1>y, <2>3 DEF CohortReleased, Ticks
    <3>2. Promoting /\ Promoting'
        BY <2>1, <2>3, <3>1 DEF Promoting
    <3>3. PinnedSoFar'
        BY <1>i, <2>1, <2>2, <3>1, <3>2 DEF PinnedSoFar
    <3>4. ASSUME NEW g \in Groups PROVE PinOrBranch(g)'
        BY <1>i, <2>1, <2>2, <3>1, <3>2, InGroupList DEF PinOrBranch, Placed
    <3> QED BY <3>3, <3>4
  <2>4. CASE tick.kind # "promote"
    <3>1. ~Promoting /\ ~Promoting'
        BY <1>8, <1>y, <2>4 DEF CohortReleased, Ticks, Promoting
    <3> QED BY <1>i, <2>1, <3>1, PinIdle
  <2> QED BY <2>3, <2>4
<1>9. CASE MoveRef
  <2>1. /\ tick.pc = "move" /\ tick.todo # <<>> /\ run' = run /\ groupPin' = groupPin
        /\ remoteRef' = [remoteRef EXCEPT ![Head(tick.todo)] = run.target]
        /\ tick' = [tick EXCEPT !.todo = Tail(@)] /\ tick.todo \in Seq(Groups)
        /\ placed' = [placed EXCEPT ![Head(tick.todo)] = NoRev]
    BY <1>9, <1>y DEF MoveRef, moveRingRef, doc, Ticks
  <2>2. tick'.pc = "move" /\ tick'.kind = tick.kind /\ tick'.todo = Tail(tick.todo)
        /\ tick.kind = "promote"
    BY <1>y, <2>1 DEF Ticks, MoveInv
  <2>3. Promoting /\ Promoting' /\ CurrentRing' = CurrentRing
    BY <2>1, <2>2 DEF Promoting, CurrentRing
  <2>4. PinnedSoFar'
    BY <1>i, <2>1, <2>2, <2>3 DEF PinnedSoFar
  <2>5. /\ \A g \in Groups : remoteRef'[g] = IF g = Head(tick.todo) THEN run.target ELSE remoteRef[g]
        /\ \A g \in Groups : g # Head(tick.todo) => placed'[g] = placed[g]
    BY <1>y, <2>1
  <2>6. ASSUME NEW g \in Groups PROVE PinOrBranch(g)'
    <3>1. CASE g = Head(tick.todo)
      <4>1. g \in GroupsOf(CurrentRing)
        BY <1>y, <2>1, <3>1, InTail DEF MoveInv
      <4>2. groupPin[g] \in {NoRev, run.target}
        BY <1>i, <2>1, <2>3, <4>1 DEF PinnedSoFar
      <4> QED BY <2>1, <2>5, <3>1, <4>2 DEF PinOrBranch
    <3>2. CASE g # Head(tick.todo)
      <4>1. InSeq(g, tick.todo) => InSeq(g, Tail(tick.todo))
        BY <2>1, <3>2, InTail
      <4> QED BY <1>i, <2>1, <2>2, <2>3, <2>5, <3>2, <4>1 DEF PinOrBranch, Placed
    <3> QED BY <3>1, <3>2
  <2> QED BY <2>4, <2>6
<1>10. CASE PutTick
  <2>1. ~Promoting' /\ groupPin' = groupPin /\ remoteRef' = remoteRef /\ placed' = placed
    BY <1>10 DEF PutTick, Idle, Promoting, doc, refs, history
  <2>2. ASSUME NEW g \in Groups, groupPin[g] # NoRev PROVE remoteRef[g] = groupPin[g] \/ Placed(g)
    <3>1. CASE tick.pc = "move" /\ tick.todo = <<>>
      <4>1. ~InSeq(g, tick.todo)
        BY <3>1 DEF InSeq
      <4> QED BY <1>i, <2>2, <3>1, <4>1 DEF PinOrBranch
    <3>2. CASE tick.pc = "put"
        BY <1>i, <2>2, <3>2 DEF PinOrBranch, Promoting
    <3> QED BY <1>10, <3>1, <3>2 DEF PutTick
  <2> QED BY <2>1, <2>2 DEF PinnedSoFar, PinOrBranch, Placed
<1>11. CASE FollowHead
  <2>1. /\ ~Promoting /\ ~Promoting' /\ groupPin' = groupPin
        /\ remoteRef' = Following(remoteRef, Unpinned, head)
        /\ placed' = Following(placed, Unpinned, NoRev)
    BY <1>11 DEF FollowHead, MayFollow, Unlocked, Promoting, doc, memory
  <2>2. ASSUME NEW g \in Groups, groupPin[g] # NoRev
        PROVE  remoteRef'[g] = remoteRef[g] /\ placed'[g] = placed[g]
    BY <2>1, <2>2 DEF Following, Unpinned
  <2> QED BY <1>i, <2>1, <2>2 DEF PinnedSoFar, PinOrBranch, Placed
<1>12. CASE Advances
  <2>1. /\ run' = run /\ tick' = tick /\ groupPin' = groupPin
        /\ CurrentRing' = CurrentRing /\ (Promoting' <=> Promoting)
    BY <1>12 DEF Advances, CurrentRing, Promoting
  <2>2. ASSUME NEW g \in Groups
        PROVE  Placed(g)' \/ (remoteRef'[g] = remoteRef[g] /\ (Placed(g) => Placed(g)'))
    BY <1>12, <1>y DEF Advances, Placed
  <2>3. PinnedSoFar'
    BY <1>i, <2>1 DEF PinnedSoFar
  <2> QED BY <1>i, <2>1, <2>2, <2>3 DEF PinOrBranch
<1> QED BY <1>y, <1>f, <1>1, <1>2, <1>3, <1>4, <1>5, <1>6, <1>7, <1>8, <1>9, <1>10, <1>11, <1>12,
           StepShapes

\* As long as no write, push or process has failed, a pinned group's remote branch
\* stands on its pin between ticks, or where an enrolment has put it.
THEOREM PinAlwaysMatchesBranch == Spec => [](faults = 0 => PinMatchesBranch)
<1>1. PinInv => (faults = 0 => PinMatchesBranch)
    BY DEF PinInv, PinOrBranch, PinMatchesBranch, Promoting, Unlocked
<1> QED BY PinInit, PinStep, <1>1, PTL DEF Spec

(***************************************************************************)
(* Part 4: the risk brake.                                                 *)
(***************************************************************************)
\* A revision of main without a high-risk change in its history.
Harmless(rev) == rev <= head /\ \A r \in 1..rev : log[r] # "risky"

\* Wherever a revision waits to become a pin, it is harmless: in the pins, in the
\* target auto-flow has chosen and not started yet, and in the run's record.
RiskInv ==
    /\ TypeInv
    /\ Origins = {"autoflow"} =>
        /\ delivery = {}
        /\ Harmless(auto) /\ Harmless(run.target)
        /\ \A g \in Groups : Harmless(groupPin[g])

\* main only grows, so a revision stays what it is.
LogGrows == log' = log \/ \E k \in {"edit", "risky", Machine} : log' = Append(log, k)

\* Growth of main makes no revision risky.
LEMMA HarmlessStays ==
    ASSUME TypeOK, LogGrows, NEW rev \in Nat, Harmless(rev)
    PROVE  Harmless(rev)'
<1>1. log \in Seq({"edit", "risky", Machine})
    BY DEF TypeOK
<1>2. Len(log') >= Len(log) /\ \A r \in 1..Len(log) : log'[r] = log[r]
    BY <1>1 DEF LogGrows
<1>3. \A r \in 1..rev : r \in 1..Len(log)
    BY <1>1 DEF Harmless, head
<1>4. rev <= Len(log')
    BY <1>1, <1>2 DEF Harmless, head, LogGrows
<1> QED BY <1>2, <1>3, <1>4 DEF Harmless, head

\* Outside StartWith the target of the record never changes.
LEMMA TargetKept ==
    ASSUME TypeInv, [Next]_vars, starts' = starts
    PROVE  run'.target = run.target
<1>1. ~Starts
    BY DEF Starts, TypeInv, TypeOK
<1>2. CASE PutTick
  <2>1. run \in Runs /\ tick.at \in Times /\ Never \in Times
    BY DEF TypeInv, TypeOK, Ticks, Times
  <2>2. "promote" \in ActionKinds /\ "widen-cohort" \in ActionKinds
    BY DEF ActionKinds
  <2>3. CASE tick.kind = "promote"
    <3> DEFINE s == [run EXCEPT !.promotedAt[run.ring] = tick.at]
    <3>1. s \in Runs /\ s.target = run.target
        BY <2>1, PromotedUpdate
    <3>2. run' = Note(s, "promote")
        BY <1>2, <2>3 DEF PutTick
    <3> HIDE DEF s
    <3> QED BY <2>2, <3>1, <3>2, NoteType
  <2>4. CASE tick.kind # "promote"
    <3> DEFINE s == [run EXCEPT !.convergedAt[run.ring] = Never]
    <3>1. s \in Runs /\ s.target = run.target
        BY <2>1, ConvergedUpdate
    <3>2. run' = Note(s, "widen-cohort")
        BY <1>2, <2>4 DEF PutTick
    <3> HIDE DEF s
    <3> QED BY <2>2, <3>1, <3>2, NoteType
  <2> QED BY <2>3, <2>4
<1>3. CASE Aside \/ Rewrites \/ Advances
    BY <1>3 DEF Aside, Rewrites, Advances
<1>4. CASE TickPromote \/ TickWiden \/ PinGroup \/ PickCohort \/ ReleaseDevice \/ CohortReleased
           \/ MoveRef \/ TickFails \/ FollowHead \/ FollowHeadFails
    BY <1>4 DEF TickPromote, TickWiden, PinGroup, PickCohort, ReleaseDevice, CohortReleased,
                MoveRef, TickFails, FollowHead, FollowHeadFails
<1> QED BY <1>1, <1>2, <1>3, <1>4, StepShapes

\* What the steps other than auto-flow's own do to everything the brake looks at.
Harmlessly ==
    /\ LogGrows /\ starts' = starts
    /\ auto' \in {auto, NoRev} /\ delivery' = {}
    /\ \A g \in Groups : groupPin'[g] \in {groupPin[g], NoRev, run.target}

\* When only auto-flow starts runs, it is the only one to choose a revision.
LEMMA RiskShapes ==
    ASSUME TypeInv, [Next]_vars, Origins = {"autoflow"}, delivery = {}
    PROVE  AutoCheck \/ AutoStart \/ Harmlessly
<1>t. TypeOK /\ groupPin \in [Groups -> Nat]
    BY DEF TypeInv, TypeOK
<1>1. \A target, scope, expedited : ~Start(target, scope, expedited)
    BY DEF Start
<1>2. ASSUME NEW kind \in CommitKinds, NEW scope \in Scopes, Merge(kind, scope)
      PROVE  Harmlessly
    BY <1>2, FleetAssumption DEF Merge, Harmlessly, LogGrows
<1>3. CASE AutoHold \/ AutoRefused
    BY <1>3 DEF AutoHold, AutoRefused, Harmlessly, LogGrows, doc, bounds
<1>4. CASE Operate
    BY <1>4 DEF Operate, Cancel, ApproveWave, Pause, Resume, Control, Harmlessly, LogGrows,
                doc, memory, bounds
<1>5. CASE TickWait \/ TickAwaitApproval \/ TickAdvance \/ TickHalt \/ TickDone
    BY <1>5 DEF TickWait, TickAwaitApproval, TickAdvance, TickHalt, TickDone, Store, Harmlessly,
                LogGrows, doc, memory, bounds
<1>6. CASE TickBuildFailed \/ TickPromote \/ TickWiden \/ PickCohort \/ CohortReleased \/ PutTick
    BY <1>6 DEF TickBuildFailed, TickPromote, TickWiden, PickCohort, CohortReleased, PutTick,
                Harmlessly, LogGrows, doc, memory, bounds
<1>7. CASE PinGroup
  <2>1. \A g \in Groups : groupPin'[g] \in {groupPin[g], NoRev, run.target}
    BY <1>7, <1>t DEF PinGroup
  <2> QED BY <1>7, <2>1 DEF PinGroup, Harmlessly, LogGrows, bounds
<1>8. CASE ReleaseDevice
    BY <1>8 DEF ReleaseDevice, Harmlessly, LogGrows, bounds
<1>9. CASE MoveRef \/ TickFails \/ Crash \/ FollowHead \/ FollowHeadFails
    BY <1>9 DEF MoveRef, TickFails, Crash, FollowHead, FollowHeadFails, Harmlessly, LogGrows,
                doc, memory, bounds
<1>10. ASSUME Commit, \A g \in Groups : groupPin'[g] \in {groupPin[g], NoRev}
       PROVE  Harmlessly
    BY <1>10 DEF Commit, Harmlessly, LogGrows, memory
<1>11. ASSUME NEW g \in Groups, Unpin(g)
       PROVE  Harmlessly
  <2>1. Commit /\ groupPin' = [groupPin EXCEPT ![g] = NoRev]
    BY <1>11 DEF Unpin
  <2>2. \A h \in Groups : groupPin'[h] \in {groupPin[h], NoRev}
    BY <1>t, <2>1
  <2> QED BY <1>10, <2>1, <2>2
<1>12. /\ \A p \in Plans : EditPlan(p) => Commit /\ groupPin' = groupPin
       /\ \A d \in Devices : Retire(d) \/ Reactivate(d) => Commit /\ groupPin' = groupPin
    BY DEF EditPlan, Retire, Reactivate
<1>13. ASSUME NEW d \in Devices, NEW cond \in {"ok", "broken"}, Fade(d) \/ CheckIn(d, cond)
       PROVE  Harmlessly
    BY <1>13 DEF Fade, CheckIn, Harmlessly, LogGrows, doc, memory, bounds
<1>14. ASSUME NEW stale \in SUBSET Late, ReapAbandonedEnrolments(stale)
       PROVE  Harmlessly
    BY <1>14 DEF ReapAbandonedEnrolments, Harmlessly, LogGrows, memory, bounds
<1>15. CASE Clock \/ UNCHANGED vars
    BY <1>15 DEF Clock, vars, Harmlessly, LogGrows, doc, memory, bounds
<1>16. ASSUME NEW d \in Late, Enrol(d)
       PROVE  Harmlessly
    BY <1>16 DEF Enrol, Harmlessly, LogGrows
<1>17. CASE EnsureRingsContain \/ RefuseRing \/ DispatchImage
    BY <1>17 DEF EnsureRingsContain, RefuseRing, DispatchImage, Harmlessly, LogGrows, doc, bounds
<1>18. ASSUME NEW g \in Groups, AdvanceRing(g) \/ AdvanceRingFails(g)
       PROVE  Harmlessly
    BY <1>18 DEF AdvanceRing, AdvanceRingFails, Harmlessly, LogGrows, doc, bounds
<1> QED
    BY <1>1, <1>2, <1>3, <1>4, <1>5, <1>6, <1>7, <1>8, <1>9, <1>10, <1>11, <1>12, <1>13, <1>14,
       <1>15, <1>16, <1>17, <1>18
    DEF Next, Tick, AutoFlow, Enrolment

\* Every step keeps the revisions that may become pins harmless.
LEMMA RiskStep == RiskInv /\ [Next]_vars => RiskInv'
<1> SUFFICES ASSUME RiskInv, [Next]_vars, Origins = {"autoflow"}
             PROVE  /\ delivery' = {}
                    /\ Harmless(auto)' /\ Harmless(run.target)'
                    /\ \A g \in Groups : Harmless(groupPin[g])'
    BY TypeStep DEF RiskInv
<1>t. /\ TypeInv /\ TypeOK /\ auto \in Nat /\ run.target \in Nat /\ groupPin \in [Groups -> Nat]
      /\ log \in Seq({"edit", "risky", Machine}) /\ head \in Nat
  <2>1. TypeInv /\ TypeOK /\ run \in Runs
    BY DEF RiskInv, TypeInv, TypeOK
  <2>2. run.target \in Nat
    BY <2>1 DEF Runs
  <2>3. /\ auto \in Nat /\ groupPin \in [Groups -> Nat]
        /\ log \in Seq({"edit", "risky", Machine})
    BY <2>1 DEF TypeOK
  <2> QED BY <2>1, <2>2, <2>3 DEF head
<1>i. /\ delivery = {} /\ Harmless(auto) /\ Harmless(run.target)
      /\ \A g \in Groups : Harmless(groupPin[g])
    BY DEF RiskInv
<1>0. Harmless(NoRev)
    BY <1>t DEF Harmless, NoRev
<1>1. CASE AutoCheck
  <2>1. /\ auto' = head /\ log' = log /\ delivery' = delivery /\ run' = run /\ groupPin' = groupPin
        /\ \A b \in promotedBaseline : RiskySince(b) = {}
    BY <1>1 DEF AutoCheck, doc
  <2>2. PICK b \in promotedBaseline : TRUE
    BY <1>1 DEF AutoCheck, AutoWanted
  <2>3. b \in Nat /\ Harmless(b)
    <3>1. \A p \in Places : GroupAt(p) \in Groups
      <4>1. plan \in Seq(Ring)
        BY <1>t, PlanAssumption DEF TypeOK
      <4>2. \A i \in 1..Len(plan) : GroupList(plan[i]) \in Seq(Groups)
        BY <4>1, GroupListType
      <4>3. ASSUME NEW i \in 1..Len(plan), NEW j \in 1..Len(GroupList(plan[i]))
            PROVE  GroupAt(<<i, j>>) \in Groups
        BY <4>2 DEF GroupAt
      <4> QED BY <4>3 DEF Places
    <3>2. \A p \in PinnedPlaces : groupPin[GroupAt(p)] \in Nat /\ Harmless(groupPin[GroupAt(p)])
        BY <1>t, <1>i, <3>1 DEF PinnedPlaces
    <3> QED BY <2>2, <3>2 DEF promotedBaseline
  <2>4. \A r \in 1..head : r > b => log[r] # "risky"
    BY <2>1, <2>2 DEF RiskySince, NonMachineCommitsSince, Machine
  <2>5. Harmless(head)
    BY <1>t, <2>3, <2>4 DEF Harmless
  <2>6. Harmless(auto)'
    BY <2>1, <2>5 DEF Harmless, head
  <2> QED BY <1>i, <2>1, <2>6 DEF Harmless, head
<1>2. CASE AutoStart
  <2>1. /\ auto' = NoRev /\ delivery' = delivery /\ log' = log /\ groupPin' = groupPin
        /\ run'.target = auto
    BY <1>2 DEF AutoStart, StartWith, NewState, doc
  <2> QED BY <1>0, <1>i, <2>1 DEF Harmless, head
<1>3. CASE Harmlessly
  <2>1. run'.target = run.target
    BY <1>3, <1>t, TargetKept DEF Harmlessly
  <2>2. \A rev \in Nat : Harmless(rev) => Harmless(rev)'
    BY <1>3, <1>t, HarmlessStays DEF Harmlessly
  <2>3. NoRev \in Nat
    BY DEF NoRev
  <2> QED BY <1>0, <1>3, <1>i, <1>t, <2>1, <2>2, <2>3 DEF Harmlessly
<1> QED BY <1>1, <1>2, <1>3, <1>i, <1>t, RiskShapes

\* Left to itself, auto-flow never pins a group to a revision with a high-risk
\* change in its history, provided the revision the fleet starts on has none:
\* the baseline it walks from is a pin, and nothing above it was risky.
THEOREM RiskBrakeHolds ==
    (StartPinned => InitLog[1] # "risky") => (Spec => []RiskBrake)
<1> SUFFICES ASSUME StartPinned => InitLog[1] # "risky" PROVE Spec => []RiskBrake
    OBVIOUS
<1>1. Init => RiskInv
  <2> SUFFICES ASSUME Init PROVE RiskInv
    OBVIOUS
  <2>1. delivery = {} /\ auto = NoRev /\ run.target = NoRev /\ log = InitLog
        /\ \A g \in Groups : groupPin[g] = IF StartPinned THEN 1 ELSE NoRev
    BY DEF Init, NoRun, NewState
  <2>2. Len(log) \in Nat \ {0}
    BY <2>1, FleetAssumption
  <2>3. Harmless(NoRev) /\ (StartPinned => Harmless(1))
    BY <2>1, <2>2 DEF Harmless, NoRev, head
  <2> QED BY <2>1, <2>3, TypeInit DEF RiskInv
<1>2. RiskInv => RiskBrake
    BY DEF RiskInv, RiskBrake, Harmless
<1> QED BY <1>1, <1>2, RiskStep, PTL DEF Spec

(***************************************************************************)
(* Part 5: cohorts are released in tag order.                              *)
(***************************************************************************)
\* A device outside a set of smaller ones ranks above their number.
LEMMA RankAbove ==
    ASSUME NEW S \in SUBSET Nat, IsFiniteSet(S), NEW T \in SUBSET S, NEW e \in S,
           \A t \in T : t < e
    PROVE  Rank(e, S) \in Nat /\ Cardinality(T) \in Nat /\ Rank(e, S) > Cardinality(T)
<1> DEFINE U == {x \in S : x <= e}
<1>1. IsFiniteSet(T) /\ IsFiniteSet(U)
    BY FS_Subset
<1>2. IsFiniteSet(T \cup {e}) /\ Cardinality(T \cup {e}) = Cardinality(T) + 1
  <2>1. e \notin T
    OBVIOUS
  <2> QED BY <1>1, <2>1, FS_AddElement
<1>3. T \cup {e} \in SUBSET U
    OBVIOUS
<1>4. Cardinality(T \cup {e}) <= Cardinality(U)
    BY <1>1, <1>3, FS_Subset
<1>5. Cardinality(U) \in Nat /\ Cardinality(T) \in Nat /\ Rank(e, S) = Cardinality(U)
    BY <1>1, FS_CardinalityType DEF Rank
<1> QED BY <1>2, <1>4, <1>5

\* A smaller tag ranks no higher.
LEMMA RankOrder ==
    ASSUME NEW S \in SUBSET Nat, IsFiniteSet(S), NEW d \in S, NEW e \in S, e < d
    PROVE  Rank(e, S) \in Nat /\ Rank(d, S) \in Nat /\ Rank(e, S) < Rank(d, S)
<1> DEFINE T == {x \in S : x <= e}
<1>1. T \in SUBSET S /\ \A t \in T : t < d
    OBVIOUS
<1>2. Cardinality(T) = Rank(e, S)
    BY DEF Rank
<1> HIDE DEF T
<1> QED BY <1>1, <1>2, RankAbove

\* Ranks are distinct, so at most k devices rank among any k places.
LEMMA RankedFew ==
    ASSUME NEW S \in SUBSET Nat, IsFiniteSet(S), NEW C \in SUBSET S, NEW lo \in Nat, NEW k \in Nat,
           \A d \in C : Rank(d, S) > lo /\ Rank(d, S) <= lo + k
    PROVE  IsFiniteSet(C) /\ Cardinality(C) \in Nat /\ Cardinality(C) <= k
<1> DEFINE T == (lo + 1)..(lo + k)
           f == [d \in C |-> Rank(d, S)]
<1>1. \A d \in S : Rank(d, S) \in Nat
  <2> TAKE d \in S
  <2>1. {} \in SUBSET S /\ \A t \in {} : t < d
    OBVIOUS
  <2> QED BY <2>1, RankAbove
<1>2. f \in [C -> T]
    BY <1>1
<1>3. ASSUME NEW d \in C, NEW e \in C, f[d] = f[e] PROVE d = e
  <2>1. d \in Nat /\ e \in Nat /\ Rank(d, S) = Rank(e, S)
    BY <1>3
  <2>2. ~(d < e) /\ ~(e < d)
    BY <1>1, <2>1, RankOrder
  <2> QED BY <2>1, <2>2
<1>4. f \in Injection(C, T)
    BY <1>2, <1>3 DEF Injection, IsInjective
<1>5. IsFiniteSet(T) /\ Cardinality(T) = k
  <2>1. lo + 1 \in Int /\ lo + k \in Int /\ (IF lo + 1 > lo + k THEN 0 ELSE lo + k - (lo + 1) + 1) = k
    OBVIOUS
  <2> QED BY <2>1, FS_Interval
<1> HIDE DEF f, T
<1>6. IsFiniteSet(C) /\ Cardinality(C) <= Cardinality(T)
    BY <1>4, <1>5, FS_Injection
<1> QED BY <1>5, <1>6, FS_CardinalityType

\* The fleet is finite, and the devices that count are the active ones.
LEMMA GroupDevices ==
    ASSUME TypeOK, NEW g \in Groups
    PROVE  /\ ConvergingGroupDevices(g) = {d \in Members[g] : life[d] = "active"}
           /\ ConvergingGroupDevices(g) \in SUBSET Nat
           /\ ConvergingGroupDevices(g) \in SUBSET Devices
           /\ IsFiniteSet(ConvergingGroupDevices(g))
           /\ ReleasedGroupDevices(g) \in SUBSET ConvergingGroupDevices(g)
<1>1. /\ Members[g] \in SUBSET Devices /\ Devices \in SUBSET Nat /\ IsFiniteSet(Devices)
      /\ life \in [Devices -> {"provisional", "active", "retired", "removed"}]
    BY FleetAssumption DEF TypeOK
<1>2. ConvergingGroupDevices(g) = {d \in Members[g] : life[d] = "active"}
    BY <1>1 DEF ConvergingGroupDevices, ActiveGroupDevices
<1>3. ConvergingGroupDevices(g) \in SUBSET Devices
    BY <1>1, <1>2
<1>4. IsFiniteSet(ConvergingGroupDevices(g))
    BY <1>1, <1>3, FS_Subset
<1>5. ReleasedGroupDevices(g) \in SUBSET ConvergingGroupDevices(g)
    BY DEF ReleasedGroupDevices
<1> QED BY <1>1, <1>2, <1>3, <1>4, <1>5

\* releaseCohort's choice, device by device.
LEMMA InCohort ==
    ASSUME NEW r, NEW d, NEW g
    PROVE  <<d, g>> \in Cohort(r) <=>
                /\ ~(r.maxDevices <= 0)
                /\ d \in Devices /\ g \in GroupsOf(r) /\ d \in ConvergingGroupDevices(g)
                /\ Rank(d, ConvergingGroupDevices(g)) > Cardinality(ReleasedGroupDevices(g))
                /\ Rank(d, ConvergingGroupDevices(g)) <=
                        NextRelease(r, Cardinality(ConvergingGroupDevices(g)),
                                    Cardinality(ReleasedGroupDevices(g)))
BY DEF Cohort

\* The groups some plan releases in cohorts.
CapGroups ==
    {g \in Groups : \E p \in Plans : \E i \in 1..Len(p) : p[i].group = g /\ p[i].maxDevices > 0}

\* A group without a cap counts as released, so only a capped one has a cohort.
LEMMA CohortIsCapped ==
    ASSUME TypeOK, NEW r, NEW d, NEW g \in Groups, <<d, g>> \in Cohort(r)
    PROVE  Capped(g) /\ g \in CapGroups /\ d \in Members[g] /\ life[d] = "active"
<1> DEFINE S == ConvergingGroupDevices(g)
<1>1. d \in S /\ Rank(d, S) > Cardinality(ReleasedGroupDevices(g))
    BY InCohort
<1>2. IsFiniteSet(S)
    BY GroupDevices
<1>3. Rank(d, S) \in Nat /\ Cardinality(S) \in Nat /\ Rank(d, S) <= Cardinality(S)
  <2> DEFINE U == {e \in S : e <= d}
  <2>1. U \in SUBSET S /\ Rank(d, S) = Cardinality(U)
    BY DEF Rank
  <2>2. IsFiniteSet(U) /\ Cardinality(U) <= Cardinality(S)
    BY <1>2, <2>1, FS_Subset
  <2> HIDE DEF U
  <2> QED BY <1>2, <2>1, <2>2, FS_CardinalityType
<1>4. ReleasedGroupDevices(g) # S
    BY <1>1, <1>3
<1>5. Capped(g)
    BY <1>4 DEF ReleasedGroupDevices
<1>6. g \in CapGroups
    BY <1>5 DEF Capped, CapGroups, TypeOK
<1> QED BY <1>1, <1>5, <1>6, GroupDevices

\* The released devices of every group are the first of its active ones.
MarkedPrefix ==
    \A g \in Groups : \A d, e \in ConvergingGroupDevices(g) :
        e < d /\ devPin[d] = g => devPin[e] = g

\* They stay so while a batch is released in tag order: what comes before a
\* device of the batch is released already or in the batch too.
BatchPrefix ==
    \A g \in Groups : \A d, e \in ConvergingGroupDevices(g) :
        e < d /\ <<d, g>> \in tick.batch => devPin[e] = g \/ <<e, g>> \in tick.batch

\* A cohort is taken from the front of what is not released yet.
LEMMA CohortPrefix ==
    ASSUME TypeOK, MarkedPrefix, NEW r \in Ring, NEW g \in Groups, NEW d, NEW e,
           d \in ConvergingGroupDevices(g), e \in ConvergingGroupDevices(g), e < d,
           <<d, g>> \in Cohort(r)
    PROVE  devPin[e] = g \/ <<e, g>> \in Cohort(r)
<1> SUFFICES ASSUME devPin[e] # g PROVE <<e, g>> \in Cohort(r)
    OBVIOUS
<1> DEFINE S == ConvergingGroupDevices(g)
           T == ReleasedGroupDevices(g)
<1>1. /\ ~(r.maxDevices <= 0) /\ g \in GroupsOf(r)
      /\ Rank(d, S) <= NextRelease(r, Cardinality(S), Cardinality(T))
    BY InCohort
<1>2. S \in SUBSET Nat /\ S \in SUBSET Devices /\ IsFiniteSet(S) /\ T \in SUBSET S
    BY GroupDevices
<1>3. \A t \in T : t \in S /\ devPin[t] = g
    BY <1>2, CohortIsCapped DEF ReleasedGroupDevices
<1>4. \A t \in T : t < e
  <2> TAKE t \in T
  <2>1. t \in S /\ devPin[t] = g /\ t \in Nat /\ e \in Nat
    BY <1>2, <1>3
  <2>2. ~(e < t)
    BY <2>1 DEF MarkedPrefix
  <2> QED BY <2>1, <2>2
<1> HIDE DEF S, T
<1>5. Rank(e, S) > Cardinality(T)
  <2>1. e \in S
    BY DEF S
  <2> QED BY <1>2, <1>4, <2>1, RankAbove
<1>6. Rank(e, S) <= NextRelease(r, Cardinality(S), Cardinality(T))
  <2>1. e \in S /\ d \in S
    BY DEF S
  <2>2. Rank(e, S) \in Nat /\ Rank(d, S) \in Nat /\ Rank(e, S) < Rank(d, S)
    BY <1>2, <2>1, RankOrder
  <2>3. NextRelease(r, Cardinality(S), Cardinality(T)) \in Int
    <3>1. Cardinality(S) \in Nat /\ Cardinality(T) \in Nat
        BY <1>2, FS_Subset, FS_CardinalityType
    <3>2. r.maxDevices \in Nat
        BY DEF Ring
    <3> QED BY <3>1, <3>2 DEF NextRelease
  <2> QED BY <1>1, <2>2, <2>3
<1> QED BY <1>1, <1>2, <1>5, <1>6, InCohort DEF S, T

\* How a step changes the release marks and the batch: it leaves them, chooses a
\* cohort on one snapshot of the document, or releases one device.
Keeps == devPin' = devPin /\ tick'.batch \in {tick.batch, {}}
Picks == /\ UNCHANGED <<plan, devPin, life>>
         /\ run.ring <= Len(run.rings) /\ tick'.batch = Cohort(CurrentRing)

LEMMA MarkShapes ==
    ASSUME TypeInv, [Next]_vars
    PROVE  /\ \A d \in Devices : life'[d] \in Unseen => life[d] \in Unseen
           /\ Keeps \/ Picks \/ ReleaseDevice
<1>t. tick \in Ticks
    BY DEF TypeInv, TypeOK
<1>0. Idle.batch = {}
    BY DEF Idle
<1>1. CASE Aside
    BY <1>0, <1>1 DEF Aside, Keeps
<1>9. CASE Advances
    BY <1>9 DEF Advances, Keeps
<1>2. CASE Rewrites \/ Starts
    BY <1>2 DEF Rewrites, Starts, Keeps
<1>3. CASE TickWiden
  <2>1. run.ring <= Len(run.rings)
    <3>1. Len(run.rings) \in Nat /\ run.ring \in Nat
        BY WaveTypes DEF TypeInv
    <3>2. ~(run.ring > Len(run.rings))
        BY <1>3, DecideOther DEF TickWiden, Deciding
    <3> QED BY <3>1, <3>2
  <2> QED BY <1>3, <2>1 DEF TickWiden, Picks, doc
<1>4. CASE PickCohort
  <2>1. run.ring <= Len(run.rings)
    BY <1>4 DEF PickCohort, TypeInv, Unlocked
  <2>2. tick'.batch = Cohort(CurrentRing)
    BY <1>4, <1>t DEF PickCohort, Ticks
  <2> QED BY <1>4, <2>1, <2>2 DEF PickCohort, Picks, doc
<1>5. CASE PinGroup \/ CohortReleased \/ MoveRef
  <2>1. tick'.batch = tick.batch
    BY <1>5, <1>t DEF PinGroup, CohortReleased, MoveRef, Ticks
  <2> QED BY <1>5, <2>1 DEF PinGroup, CohortReleased, MoveRef, Keeps, doc
<1>6. CASE TickPromote \/ PutTick \/ TickFails
  <2>1. tick'.batch = {}
    BY <1>0, <1>6 DEF TickPromote, PutTick, TickFails
  <2> QED BY <1>6, <2>1 DEF TickPromote, PutTick, TickFails, Keeps, doc
<1>7. CASE FollowHead \/ FollowHeadFails
    BY <1>7 DEF FollowHead, FollowHeadFails, Keeps, doc, memory
<1>8. CASE ReleaseDevice
    BY <1>8 DEF ReleaseDevice
<1> QED BY <1>1, <1>2, <1>3, <1>4, <1>5, <1>6, <1>7, <1>8, <1>9, StepShapes

\* ReleaseDevice, read on the marks: the first device of the batch gets its mark.
LEMMA ReleaseOne ==
    ASSUME TypeInv, ReleaseDevice
    PROVE  \E d \in Devices, g \in Groups :
            /\ <<d, g>> \in tick.batch
            /\ \A e \in Devices, h \in Groups : <<e, h>> \in tick.batch => d <= e
            /\ devPin' = [devPin EXCEPT ![d] = g]
            /\ tick'.batch = tick.batch \ {<<d, g>>}
<1>1. tick \in Ticks /\ tick.batch \in SUBSET (Devices \X Groups)
    BY DEF TypeInv, TypeOK, Ticks
<1>2. PICK p \in tick.batch :
        /\ \A q \in tick.batch : p[1] <= q[1]
        /\ devPin' = [devPin EXCEPT ![p[1]] = p[2]]
        /\ tick' = [tick EXCEPT !.batch = @ \ {p}]
    BY DEF ReleaseDevice
<1>3. p = <<p[1], p[2]>> /\ p[1] \in Devices /\ p[2] \in Groups
    BY <1>1
<1>4. tick'.batch = tick.batch \ {p}
    BY <1>1, <1>2 DEF Ticks
<1>5. ASSUME NEW e \in Devices, NEW h \in Groups, <<e, h>> \in tick.batch PROVE p[1] <= e
    BY <1>2, <1>5
<1> QED BY <1>2, <1>3, <1>4, <1>5

\* A device that has not reported has no release mark and is not about to get one: it
\* does not count when a cohort is chosen, and only such a device is enrolled again.
MarkInv ==
    /\ TypeInv
    /\ \A d \in Devices : life[d] \in Unseen =>
            devPin[d] = NoGroup /\ \A g \in Groups : <<d, g>> \notin tick.batch

LEMMA MarkInit == Init => MarkInv
BY TypeInit DEF Init, Idle, MarkInv

LEMMA MarkStep == MarkInv /\ [Next]_vars => MarkInv'
<1> SUFFICES ASSUME MarkInv, [Next]_vars,
                    NEW d \in Devices, life'[d] \in Unseen
             PROVE  devPin'[d] = NoGroup /\ \A g \in Groups : <<d, g>> \notin tick'.batch
    BY TypeStep DEF MarkInv
<1>t. TypeInv /\ TypeOK /\ devPin \in [Devices -> Groups \cup {NoGroup}]
    BY DEF MarkInv, TypeInv, TypeOK
<1>1. life[d] \in Unseen /\ (Keeps \/ Picks \/ ReleaseDevice)
    BY MarkShapes DEF MarkInv
<1>2. devPin[d] = NoGroup /\ \A g \in Groups : <<d, g>> \notin tick.batch
    BY <1>1 DEF MarkInv
<1>3. CASE Keeps
    BY <1>2, <1>3 DEF Keeps
<1>4. CASE Picks
  <2>1. \A g \in Groups : <<d, g>> \notin Cohort(CurrentRing)
    BY <1>1, <1>t, CohortIsCapped DEF Unseen
  <2> QED BY <1>2, <1>4, <2>1 DEF Picks
<1>5. CASE ReleaseDevice
    BY <1>2, <1>5, <1>t, ReleaseOne
<1> QED BY <1>1, <1>3, <1>4, <1>5

\* No device is a member of two groups that are released in cohorts: a device
\* holds one release mark, so a second cohort would take the mark of the first.
DisjointCaps == \A g, h \in CapGroups : g # h => Members[g] \cap Members[h] = {}

\* A device that starts to count in a group has just enrolled, and its tag comes
\* after those of the devices that count there already.
JoinsLast ==
    \A g \in Groups : \A d \in Members[g] : life'[d] = "active" /\ life[d] # "active" =>
        life[d] = "provisional" /\ \A e \in ConvergingGroupDevices(g) : e < d

\* A mark, given or about to be given, is for a capped group of the device.
MarkedMembers ==
    \A d \in Devices, g \in Groups : devPin[d] = g \/ <<d, g>> \in tick.batch =>
        g \in CapGroups /\ d \in Members[g]

PrefixInv == MarkInv /\ MarkedMembers /\ MarkedPrefix /\ BatchPrefix

\* Nothing is released when the service starts.
LEMMA PrefixInit == Init => PrefixInv
<1> SUFFICES ASSUME Init PROVE MarkedMembers /\ MarkedPrefix /\ BatchPrefix
    BY MarkInit DEF PrefixInv
<1>1. TypeOK /\ tick.batch = {} /\ \A d \in Devices : devPin[d] = NoGroup
    BY TypeInit DEF Init, Idle, TypeInv
<1>2. \A g \in Groups : ConvergingGroupDevices(g) \in SUBSET Devices
    BY <1>1, GroupDevices
<1>3. \A d \in Devices, g \in Groups : devPin[d] # g /\ <<d, g>> \notin tick.batch
    BY <1>1, ScopeAssumption
<1>4. MarkedMembers
    BY <1>3 DEF MarkedMembers
<1>5. MarkedPrefix
    BY <1>2, <1>3 DEF MarkedPrefix
<1>6. BatchPrefix
    BY <1>1 DEF BatchPrefix
<1> QED BY <1>4, <1>5, <1>6

\* A step that leaves the marks and the batch keeps the order: who leaves a group
\* takes nothing away, and who joins one comes last and unmarked.
LEMMA PrefixKeeps ==
    ASSUME PrefixInv, TypeInv', Keeps, JoinsLast \/ life' = life
    PROVE  MarkedMembers' /\ MarkedPrefix' /\ BatchPrefix'
<1>t. TypeOK /\ TypeOK'
    BY DEF PrefixInv, MarkInv, TypeInv
<1>k. devPin' = devPin /\ (tick'.batch = tick.batch \/ tick'.batch = {})
    BY DEF Keeps
<1>1. MarkedMembers'
    BY <1>k DEF PrefixInv, MarkedMembers
<1>2. ASSUME NEW g \in Groups, NEW d \in ConvergingGroupDevices(g)',
             NEW e \in ConvergingGroupDevices(g)', e < d,
             devPin[d] = g \/ <<d, g>> \in tick.batch
      PROVE  d \in ConvergingGroupDevices(g) /\ e \in ConvergingGroupDevices(g)
  <2>1. /\ d \in Members[g] /\ e \in Members[g] /\ life'[d] = "active" /\ life'[e] = "active"
        /\ d \in Devices /\ d \in Nat /\ e \in Nat
    <3>1. ConvergingGroupDevices(g)' = {x \in Members[g] : life'[x] = "active"}
      <4>1. life' \in [Devices -> {"provisional", "active", "retired", "removed"}]
        BY <1>t DEF TypeOK
      <4> QED BY <4>1, FleetAssumption DEF ConvergingGroupDevices, ActiveGroupDevices
    <3>2. Members[g] \in SUBSET Devices /\ Devices \in SUBSET Nat
        BY FleetAssumption
    <3> QED BY <1>2, <3>1, <3>2
  <2>2. life[d] # "provisional"
    BY <1>2, <2>1, ScopeAssumption DEF PrefixInv, MarkInv, Unseen
  <2>3. life[d] = "active"
    BY <2>1, <2>2 DEF JoinsLast
  <2>4. d \in ConvergingGroupDevices(g)
    BY <1>t, <2>1, <2>3, GroupDevices
  <2>5. life[e] = "active"
    BY <1>2, <2>1, <2>4 DEF JoinsLast
  <2> QED BY <1>t, <2>1, <2>4, <2>5, GroupDevices
<1>3. MarkedPrefix'
    BY <1>2, <1>k DEF PrefixInv, MarkedPrefix
<1>4. BatchPrefix'
    BY <1>2, <1>k DEF PrefixInv, BatchPrefix
<1> QED BY <1>1, <1>3, <1>4

\* A cohort is chosen from the front of its groups.
LEMMA PrefixPicks ==
    ASSUME PrefixInv, TypeInv', Picks
    PROVE  MarkedMembers' /\ MarkedPrefix' /\ BatchPrefix'
<1>t. TypeOK /\ CurrentRing \in Ring
    BY CurrentRingType DEF PrefixInv, MarkInv, TypeInv, Picks
<1>k. devPin' = devPin /\ life' = life /\ tick'.batch = Cohort(CurrentRing)
    BY DEF Picks
<1>c. \A g : ConvergingGroupDevices(g)' = ConvergingGroupDevices(g)
    BY <1>k DEF ConvergingGroupDevices, ActiveGroupDevices
<1>1. \A d \in Devices, g \in Groups : <<d, g>> \in Cohort(CurrentRing) =>
            g \in CapGroups /\ d \in Members[g]
    BY <1>t, CohortIsCapped
<1>2. MarkedMembers'
    BY <1>1, <1>k DEF PrefixInv, MarkedMembers
<1>3. MarkedPrefix'
    BY <1>c, <1>k DEF PrefixInv, MarkedPrefix
<1>4. \A g \in Groups : \A d, e \in ConvergingGroupDevices(g) :
            e < d /\ <<d, g>> \in Cohort(CurrentRing) =>
                devPin[e] = g \/ <<e, g>> \in Cohort(CurrentRing)
    BY <1>t, CohortPrefix DEF PrefixInv
<1>5. BatchPrefix'
    BY <1>4, <1>c, <1>k DEF BatchPrefix
<1> QED BY <1>2, <1>3, <1>5

\* The first device of the batch is released: everything before it has been.
LEMMA PrefixRelease ==
    ASSUME PrefixInv, TypeInv', ReleaseDevice, DisjointCaps
    PROVE  MarkedMembers' /\ MarkedPrefix' /\ BatchPrefix'
<1>t. TypeInv /\ TypeOK /\ devPin \in [Devices -> Groups \cup {NoGroup}]
    BY DEF PrefixInv, MarkInv, TypeInv, TypeOK
<1>0. PICK x \in Devices, h \in Groups :
            /\ <<x, h>> \in tick.batch
            /\ \A e \in Devices, g \in Groups : <<e, g>> \in tick.batch => x <= e
            /\ devPin' = [devPin EXCEPT ![x] = h]
            /\ tick'.batch = tick.batch \ {<<x, h>>}
    BY <1>t, ReleaseOne
<1>c. \A g : ConvergingGroupDevices(g)' = ConvergingGroupDevices(g)
    BY DEF ReleaseDevice, ConvergingGroupDevices, ActiveGroupDevices
<1>d. \A g \in Groups : ConvergingGroupDevices(g) \subseteq Devices
                     /\ ConvergingGroupDevices(g) \subseteq Nat
    BY <1>t, GroupDevices
<1>1. devPin[x] \in {NoGroup, h}
    BY <1>0, <1>t DEF PrefixInv, MarkedMembers, DisjointCaps
<1>2. /\ devPin'[x] = h /\ \A d \in Devices : d # x => devPin'[d] = devPin[d]
      /\ \A d \in Devices, g \in Groups : devPin[d] = g => devPin'[d] = g
  <2>1. devPin'[x] = h /\ \A d \in Devices : d # x => devPin'[d] = devPin[d]
    BY <1>0, <1>t
  <2> QED BY <1>1, <2>1, ScopeAssumption
<1>3. MarkedMembers'
    BY <1>0, <1>2 DEF PrefixInv, MarkedMembers
<1>4. ASSUME NEW g \in Groups, NEW d \in ConvergingGroupDevices(g),
             NEW e \in ConvergingGroupDevices(g), e < d, devPin'[d] = g
      PROVE  devPin'[e] = g
  <2>1. CASE devPin[d] = g
    BY <1>2, <1>4, <1>d, <2>1 DEF PrefixInv, MarkedPrefix
  <2>2. CASE devPin[d] # g
    <3>1. d = x /\ g = h
        BY <1>2, <1>4, <1>d, <2>2
    <3>2. <<e, g>> \notin tick.batch
      <4>1. e \in Devices /\ e \in Nat /\ d \in Nat
        BY <1>d
      <4> QED BY <1>0, <1>4, <3>1, <4>1
    <3>3. devPin[e] = g
        BY <1>0, <1>4, <3>1, <3>2 DEF PrefixInv, BatchPrefix
    <3> QED BY <1>2, <1>d, <3>3
  <2> QED BY <2>1, <2>2
<1>5. MarkedPrefix'
    BY <1>4, <1>c DEF MarkedPrefix
<1>6. ASSUME NEW g \in Groups, NEW d \in ConvergingGroupDevices(g),
             NEW e \in ConvergingGroupDevices(g), e < d, <<d, g>> \in tick'.batch
      PROVE  devPin'[e] = g \/ <<e, g>> \in tick'.batch
  <2>1. devPin[e] = g \/ <<e, g>> \in tick.batch
    BY <1>0, <1>6 DEF PrefixInv, BatchPrefix
  <2>2. CASE devPin[e] = g
    BY <1>2, <1>d, <2>2
  <2>3. CASE <<e, g>> \in tick.batch
    BY <1>0, <1>2, <2>3
  <2> QED BY <2>1, <2>2, <2>3
<1>7. BatchPrefix'
    BY <1>6, <1>c DEF BatchPrefix
<1> QED BY <1>3, <1>5, <1>7

\* In-order cohorts: with faults, retries, restarts, plan edits and several runs,
\* releaseCohort always releases a group from the front, provided no device belongs
\* to two capped groups and newcomers enrol with the next tag (run late_device shows
\* what one with a smaller tag does).
THEOREM ReleasedAlwaysPrefix ==
    DisjointCaps => (Spec /\ [][JoinsLast]_vars => []ReleasedIsPrefix)
<1> SUFFICES ASSUME DisjointCaps PROVE Spec /\ [][JoinsLast]_vars => []ReleasedIsPrefix
    OBVIOUS
<1>1. PrefixInv /\ [Next]_vars /\ [JoinsLast]_vars => PrefixInv'
  <2> SUFFICES ASSUME PrefixInv, [Next]_vars, [JoinsLast]_vars PROVE PrefixInv'
    OBVIOUS
  <2>1. TypeInv /\ MarkInv' /\ TypeInv'
    BY MarkStep DEF PrefixInv, MarkInv
  <2>2. JoinsLast \/ life' = life
    BY DEF vars, doc
  <2>3. Keeps \/ Picks \/ ReleaseDevice
    BY <2>1, MarkShapes
  <2>4. MarkedMembers' /\ MarkedPrefix' /\ BatchPrefix'
    BY <2>1, <2>2, <2>3, PrefixKeeps, PrefixPicks, PrefixRelease
  <2> QED BY <2>1, <2>4 DEF PrefixInv
<1>2. PrefixInv => ReleasedIsPrefix
    BY DEF PrefixInv, MarkedPrefix, ReleasedIsPrefix, ReleasedGroupDevices
<1> QED BY PrefixInit, <1>1, <1>2, PTL DEF Spec

(***************************************************************************)
(* Part 6: a cohort is no larger than the cap.                             *)
(***************************************************************************)
\* NextRelease: releaseCohort adds at most maxDevices devices of a group.
LEMMA CohortIsSmall ==
    ASSUME TypeOK, NEW r \in Ring, NEW g \in Groups, NEW C \in SUBSET Devices,
           \A d \in C : <<d, g>> \in Cohort(r)
    PROVE  IsFiniteSet(C) /\ Cardinality(C) \in Nat /\ Cardinality(C) <= r.maxDevices
<1> DEFINE S == ConvergingGroupDevices(g)
           lo == Cardinality(ReleasedGroupDevices(g))
<1>1. S \in SUBSET Nat /\ IsFiniteSet(S) /\ ReleasedGroupDevices(g) \in SUBSET S
    BY GroupDevices
<1>2. lo \in Nat /\ Cardinality(S) \in Nat /\ r.maxDevices \in Nat
  <2>1. IsFiniteSet(ReleasedGroupDevices(g))
    BY <1>1, FS_Subset
  <2>2. lo \in Nat /\ Cardinality(S) \in Nat
    BY <1>1, <2>1, FS_CardinalityType
  <2> QED BY <2>2 DEF Ring
<1>3. \A d \in C : /\ ~(r.maxDevices <= 0) /\ d \in S /\ Rank(d, S) > lo
                   /\ Rank(d, S) <= NextRelease(r, Cardinality(S), lo)
    BY InCohort
<1>4. \A d \in S : Rank(d, S) \in Nat
  <2> TAKE d \in S
  <2>1. {} \in SUBSET S /\ \A t \in {} : t < d
    OBVIOUS
  <2> QED BY <1>1, <2>1, RankAbove
<1> HIDE DEF S, lo
<1>5. C \in SUBSET S /\ \A d \in C : Rank(d, S) > lo /\ Rank(d, S) <= lo + r.maxDevices
  <2>1. ~(r.maxDevices <= 0) => NextRelease(r, Cardinality(S), lo) \in Nat
                                /\ NextRelease(r, Cardinality(S), lo) <= lo + r.maxDevices
    BY <1>2 DEF NextRelease
  <2> QED BY <1>2, <1>3, <1>4, <2>1
<1> QED BY <1>1, <1>2, <1>5, RankedFew

\* Fewer devices count no more.
LEMMA FewerDevices ==
    ASSUME NEW A \in SUBSET Devices, NEW B \in SUBSET A
    PROVE  /\ IsFiniteSet(A) /\ IsFiniteSet(B)
           /\ Cardinality(A) \in Nat /\ Cardinality(B) \in Nat /\ Cardinality(B) <= Cardinality(A)
<1>1. IsFiniteSet(A)
    BY FleetAssumption, FS_Subset
<1>2. IsFiniteSet(B) /\ Cardinality(B) <= Cardinality(A)
    BY <1>1, FS_Subset
<1> QED BY <1>1, <1>2, FS_CardinalityType

\* PutTick: what the store write at the end of a tick changes in the record.
LEMMA PutRecord ==
    ASSUME TypeInv, PutTick
    PROVE  /\ run'.rings = run.rings /\ run'.ring = run.ring /\ run'.target = run.target
           /\ run'.status = run.status
           /\ run'.promotedAt = IF tick.kind = "promote"
                                THEN [run.promotedAt EXCEPT ![run.ring] = tick.at]
                                ELSE run.promotedAt
<1>1. run \in Runs /\ tick.at \in Times /\ Never \in Times
    BY DEF TypeInv, TypeOK, Ticks, Times
<1>2. "promote" \in ActionKinds /\ "widen-cohort" \in ActionKinds
    BY DEF ActionKinds
<1>3. CASE tick.kind = "promote"
  <2> DEFINE s == [run EXCEPT !.promotedAt[run.ring] = tick.at]
  <2>1. /\ s \in Runs /\ s.rings = run.rings /\ s.ring = run.ring /\ s.target = run.target
        /\ s.promotedAt = [run.promotedAt EXCEPT ![run.ring] = tick.at] /\ s.status = run.status
    BY <1>1, PromotedUpdate
  <2>2. run' = Note(s, "promote")
    BY <1>3 DEF PutTick
  <2> HIDE DEF s
  <2> QED BY <1>2, <1>3, <2>1, <2>2, NoteType
<1>4. CASE tick.kind # "promote"
  <2> DEFINE s == [run EXCEPT !.convergedAt[run.ring] = Never]
  <2>1. /\ s \in Runs /\ s.rings = run.rings /\ s.ring = run.ring /\ s.target = run.target
        /\ s.promotedAt = run.promotedAt /\ s.status = run.status
    BY <1>1, ConvergedUpdate
  <2>2. run' = Note(s, "widen-cohort")
    BY <1>4 DEF PutTick
  <2> HIDE DEF s
  <2> QED BY <1>2, <1>4, <2>1, <2>2, NoteType
<1> QED BY <1>3, <1>4

\* StartWith: a capped wave of a new run is the plan's wave at the same place, but
\* for its soak; the wave a scope adds has no cap.
LEMMA CappedWaveOfPlan ==
    ASSUME TypeOK, NEW scope, NEW rings \in {ScopedRings(scope), Expedite(ScopedRings(scope))},
           NEW i \in 1..Len(rings), rings[i].maxDevices > 0
    PROVE  /\ i \in 1..Len(plan) /\ plan[i] \in Ring
           /\ rings[i].group = plan[i].group /\ rings[i].groups = plan[i].groups
           /\ rings[i].maxDevices = plan[i].maxDevices
<1> DEFINE s == ScopedRings(scope)
<1>1. plan \in Seq(Ring) /\ Len(plan) \in Nat \ {0}
    BY PlanAssumption DEF TypeOK
<1>2. /\ Len(s) \in Nat
      /\ \A k \in 1..Len(s) : s[k] = ScopedWave(scope) \/ (k \in 1..Len(plan) /\ s[k] = plan[k])
    BY <1>1 DEF ScopedRings
<1>3. ScopedWave(scope).maxDevices = 0
    BY DEF ScopedWave
<1>4. \A k \in 1..Len(plan) : plan[k] \in Ring
    BY <1>1
<1>5. CASE rings = s
    BY <1>2, <1>3, <1>4, <1>5
<1>6. CASE rings = Expedite(s)
  <2> HIDE DEF s
  <2>1. Len(rings) = Len(s) /\ i \in 1..Len(s)
    BY <1>2, <1>6 DEF Expedite
  <2>2. rings[i] = s[i] \/ rings[i] = [s[i] EXCEPT !.soak = expeditedSoak]
    BY <1>6, <2>1 DEF Expedite
  <2>3. s[i] # ScopedWave(scope)
    BY <2>2 DEF ScopedWave
  <2>4. i \in 1..Len(plan) /\ s[i] = plan[i] /\ plan[i] \in Ring
    BY <1>2, <1>4, <2>1, <2>3
  <2>5. LET u == [s[i] EXCEPT !.soak = expeditedSoak] IN
        u.group = s[i].group /\ u.groups = s[i].groups /\ u.maxDevices = s[i].maxDevices
    BY <2>4 DEF Ring
  <2> QED BY <2>2, <2>4, <2>5
<1> QED BY <1>5, <1>6

\* What the cap needs besides the code: no write fails in the middle of a tick, the
\* plan is not edited under a run, no released device comes back after it left the
\* fleet, and a run finds no release marks of an earlier one.
Undisturbed ==
    /\ ~Unlocked => faults' = faults
    /\ InFlight => plan' = plan
    /\ \A d \in Devices : devPin[d] # NoGroup /\ life[d] # "active" => life'[d] # "active"
    /\ starts' # starts => \A d \in Devices : devPin[d] = NoGroup

\* A wave whose group is released in cohorts.
HasCap(i) == run.rings[i].maxDevices > 0 /\ run.rings[i].groups = <<>>

\* The document agrees that the capped waves are capped, and they share no group.
CapWaves ==
    \A i \in 1..Len(run.rings) :
        /\ HasCap(i) => run.rings[i].group \in Groups /\ Capped(run.rings[i].group)
        /\ \A j \in 1..Len(run.rings) :
            i # j /\ run.rings[i].maxDevices > 0 /\ run.rings[j].maxDevices > 0 =>
                GroupsOf(run.rings[i]) \cap GroupsOf(run.rings[j]) = {}

\* No device of a capped wave is released before its promotion chooses a cohort.
CapAhead ==
    \A i \in 1..Len(run.rings) :
        /\ HasCap(i)
        /\ \/ i > run.ring
           \/ i = run.ring /\ run.promotedAt[i] = Never /\ tick.pc \in {"idle", "pin"}
        => \A d \in Devices : devPin[d] # run.rings[i].group

\* Devices of g that are released or in the batch, and not proven yet.
Exposed(g) == {d \in Devices : d \in ReleasedGroupDevices(g) \/ <<d, g>> \in tick.batch} \ proven

\* The cap holds for the cohort being released too.
CapCount ==
    run.ring \in 1..Len(run.rings) /\ HasCap(run.ring) =>
        Cardinality(Exposed(CurrentRing.group)) <= CurrentRing.maxDevices

\* A tick widens a promoted wave and promotes one that is not; its batch is of the
\* current wave.
CapTick ==
    /\ ~Unlocked /\ tick.kind # "promote" => run.promotedAt[run.ring] # Never
    /\ tick.pc = "pin" => run.promotedAt[run.ring] = Never
    /\ \A d \in Devices, g \in Groups : <<d, g>> \in tick.batch =>
        tick.pc = "release" /\ g \in GroupsOf(CurrentRing) /\ CurrentRing.maxDevices > 0

CapInv == TypeInv /\ CapTick /\ (InFlight => CapWaves /\ CapAhead /\ CapCount)

\* A capped wave is its one group.
LEMMA CappedWaveGroup ==
    ASSUME NEW r, r.groups = <<>>, r.group \in Groups
    PROVE  GroupsOf(r) = {r.group}
<1>1. GroupList(r) = <<r.group>>
    BY ScopeAssumption DEF GroupList
<1> QED BY <1>1 DEF GroupsOf

\* Where the batch only shrinks and the marks stay, nobody new is exposed.
LEMMA ExposedShrinks ==
    ASSUME TypeOK, TypeOK', NEW g \in Groups, Capped(g), plan' = plan, devPin' = devPin,
           proven' = proven,
           \A d \in Devices : devPin[d] # NoGroup /\ life[d] # "active" => life'[d] # "active",
           \A d \in Devices : <<d, g>> \in tick'.batch => <<d, g>> \in tick.batch
    PROVE  Exposed(g)' \in SUBSET Exposed(g)
<1>1. life' \in [Devices -> {"provisional", "active", "retired", "removed"}]
    BY DEF TypeOK
<1>2. ConvergingGroupDevices(g)' = {d \in Members[g] : life'[d] = "active"}
    BY <1>1, FleetAssumption DEF ConvergingGroupDevices, ActiveGroupDevices
<1>3. ConvergingGroupDevices(g) = {d \in Members[g] : life[d] = "active"}
    BY GroupDevices
<1>4. Capped(g)'
    BY DEF Capped
<1>5. ASSUME NEW d \in Devices, d \in ReleasedGroupDevices(g)' PROVE d \in ReleasedGroupDevices(g)
  <2>1. d \in Members[g] /\ life'[d] = "active" /\ devPin[d] = g
    BY <1>2, <1>4, <1>5 DEF ReleasedGroupDevices
  <2>2. life[d] = "active"
    BY <2>1, ScopeAssumption
  <2> QED BY <1>3, <2>1, <2>2 DEF ReleasedGroupDevices
<1> QED BY <1>5 DEF Exposed

\* The current wave of the next state, under a name of its own.
LEMMA CountNext ==
    ASSUME NEW g, CurrentRing'.group = g, CurrentRing'.maxDevices \in Nat,
           NEW A \in SUBSET Devices, Exposed(g)' \in SUBSET A,
           Cardinality(A) <= CurrentRing'.maxDevices
    PROVE  CapCount'
<1>1. Cardinality(A) \in Nat /\ Cardinality(Exposed(g)') \in Nat
      /\ Cardinality(Exposed(g)') <= Cardinality(A)
  <2>1. \A B \in SUBSET A : Cardinality(A) \in Nat /\ Cardinality(B) \in Nat
                           /\ Cardinality(B) <= Cardinality(A)
    BY FewerDevices
  <2> QED BY <2>1
<1>2. Cardinality(Exposed(g)') <= CurrentRing'.maxDevices
    BY <1>1
<1>3. Cardinality(Exposed(CurrentRing.group))' = Cardinality(Exposed(g)')
    BY DEF Exposed, ReleasedGroupDevices, Capped, ConvergingGroupDevices, ActiveGroupDevices
<1> QED BY <1>2, <1>3 DEF CapCount

\* Steps that keep the record and the marks.
LEMMA CapFrame ==
    ASSUME CapInv, TypeInv', CapTick', run' = run, devPin' = devPin, proven' = proven,
           InFlight => plan' = plan,
           \A d \in Devices : devPin[d] # NoGroup /\ life[d] # "active" => life'[d] # "active",
           \A d \in Devices, g \in Groups : <<d, g>> \in tick'.batch => <<d, g>> \in tick.batch,
           tick'.pc \in {"idle", "pin"} => tick.pc \in {"idle", "pin"}
    PROVE  CapInv'
<1> SUFFICES ASSUME InFlight PROVE CapWaves' /\ CapAhead' /\ CapCount'
    BY DEF CapInv, InFlight
<1>t. TypeOK /\ TypeOK' /\ plan' = plan
    BY DEF CapInv, TypeInv
<1>1. CapWaves'
    BY <1>t DEF CapInv, CapWaves, HasCap, Capped
<1>2. CapAhead'
    BY DEF CapInv, CapAhead, HasCap
<1>3. CapCount'
  <2> SUFFICES ASSUME run.ring \in 1..Len(run.rings), HasCap(run.ring) PROVE CapCount'
    BY DEF CapCount, HasCap
  <2>1. CurrentRing.group \in Groups /\ Capped(CurrentRing.group)
    BY DEF CapInv, CapWaves, CurrentRing
  <2>2. PICK g \in Groups : g = CurrentRing.group
    BY <2>1
  <2>3. CurrentRing' = CurrentRing /\ Capped(g)
    BY <2>1, <2>2 DEF CurrentRing
  <2>4. Exposed(g)' \in SUBSET Exposed(g)
    BY <1>t, <2>3, ExposedShrinks
  <2>5. Cardinality(Exposed(g)) <= CurrentRing.maxDevices /\ CurrentRing.maxDevices \in Nat
    BY <1>t, <2>2, CurrentRingType DEF CapInv, CapCount, Ring
  <2>6. Exposed(g) \in SUBSET Devices
    BY DEF Exposed
  <2> QED BY <2>2, <2>3, <2>4, <2>5, <2>6, CountNext
<1> QED BY <1>1, <1>2, <1>3

\* People, devices and the clock; a crash between ticks.
LEMMA CapAside ==
    ASSUME CapInv, TypeInv', Aside, Undisturbed
    PROVE  CapInv'
<1>t. TypeOK /\ faults \in Nat
    BY DEF CapInv, TypeInv, TypeOK
<1>1. \/ tick' = tick
      \/ Unlocked /\ Unlocked' /\ tick'.batch = {}
    BY <1>t DEF Aside, Undisturbed, Idle
<1>2. CapTick'
    BY <1>1 DEF Aside, CapInv, CapTick, CurrentRing, Unlocked
<1>3. /\ \A d \in Devices, g \in Groups : <<d, g>> \in tick'.batch => <<d, g>> \in tick.batch
      /\ tick'.pc \in {"idle", "pin"} => tick.pc \in {"idle", "pin"}
    BY <1>1 DEF Unlocked
<1>4. run' = run /\ devPin' = devPin /\ proven' = proven
    BY DEF Aside
<1> QED BY <1>2, <1>3, <1>4, CapFrame DEF Undisturbed

\* Controls and ticks that rewrite the record: a wave that is entered is untouched.
LEMMA CapRewrites ==
    ASSUME CapInv, TypeInv', Rewrites
    PROVE  CapInv'
<1>t. TypeOK /\ TypeOK' /\ run.ring \in Nat /\ Unlocked /\ Unlocked'
    BY WaveTypes DEF CapInv, TypeInv, Rewrites, Unlocked
<1>r. /\ tick' = tick /\ plan' = plan /\ devPin' = devPin /\ life' = life /\ proven' = proven
      /\ run'.rings = run.rings /\ run'.promotedAt = run.promotedAt
      /\ run'.ring \in {run.ring, run.ring + 1}
    BY DEF Rewrites
<1>1. \A d \in Devices, g \in Groups : <<d, g>> \notin tick.batch
    BY <1>t DEF CapInv, CapTick, Unlocked
<1>2. CapTick'
    BY <1>1, <1>r, <1>t DEF CapTick, Unlocked
<1> SUFFICES ASSUME InFlight, InFlight' PROVE CapWaves' /\ CapAhead' /\ CapCount'
    BY <1>2 DEF CapInv, Rewrites
<1>3. CapWaves'
  <2>1. CapWaves
    BY DEF CapInv
  <2>2. \A h : Capped(h)' <=> Capped(h)
    BY <1>r DEF Capped
  <2> QED BY <1>r, <2>1, <2>2 DEF CapWaves, HasCap
<1>4. CapAhead'
    BY <1>r, <1>t DEF CapInv, CapAhead, HasCap, Unlocked
<1>5. CapCount'
  <2> SUFFICES ASSUME run'.ring \in 1..Len(run.rings), HasCap(run'.ring) PROVE CapCount'
    BY <1>r DEF CapCount, HasCap
  <2>1. CurrentRing' = run.rings[run'.ring]
    BY <1>r DEF CurrentRing
  <2>2. PICK g \in Groups : g = run.rings[run'.ring].group /\ Capped(g)
    BY DEF CapInv, CapWaves
  <2>3. run.rings[run'.ring].maxDevices \in Nat
    <3>1. run.rings \in Seq(Ring)
        BY <1>t DEF TypeOK, Runs
    <3>2. run.rings[run'.ring] \in Ring
        BY <3>1
    <3> QED BY <3>2 DEF Ring
  <2>4. Exposed(g)' = Exposed(g) /\ Exposed(g) \in SUBSET Devices
    BY <1>r DEF Exposed, ReleasedGroupDevices, Capped, ConvergingGroupDevices, ActiveGroupDevices
  <2>5. CASE run'.ring = run.ring
    <3>1. Cardinality(Exposed(g)) <= run.rings[run'.ring].maxDevices
        BY <2>2, <2>5 DEF CapInv, CapCount, CurrentRing
    <3> QED BY <2>1, <2>2, <2>3, <2>4, <3>1, CountNext
  <2>6. CASE run'.ring = run.ring + 1
    <3>1. \A d \in Devices : devPin[d] # g
        BY <1>t, <2>2, <2>6 DEF CapInv, CapAhead
    <3>2. Exposed(g) = {}
        BY <1>1, <2>2, <3>1 DEF Exposed, ReleasedGroupDevices
    <3>3. Cardinality({}) <= run.rings[run'.ring].maxDevices
        BY <2>3, FS_EmptySet
    <3>4. {} \in SUBSET Devices /\ Exposed(g)' \in SUBSET {}
        BY <2>4, <3>2
    <3> QED BY <2>1, <2>2, <2>3, <3>3, <3>4, CountNext
  <2> QED BY <1>r, <2>5, <2>6
<1> QED BY <1>3, <1>4, <1>5

\* A new run: its capped waves are the plan's, and no device is marked.
LEMMA CapStarts ==
    ASSUME CapInv, TypeInv', Starts, Undisturbed
    PROVE  CapInv'
<1>t. TypeOK /\ TypeOK' /\ plan \in Plans /\ starts \in Nat /\ run'.rings \in Seq(Ring)
    BY DEF CapInv, TypeInv, TypeOK, Runs
<1>r. /\ Unlocked /\ Unlocked' /\ tick' = tick /\ plan' = plan /\ devPin' = devPin
      /\ life' = life /\ run'.ring = 1
    BY DEF Starts, Unlocked
<1>m. \A d \in Devices : devPin[d] = NoGroup
    BY <1>t DEF Starts, Undisturbed
<1>1. \A d \in Devices, g \in Groups : <<d, g>> \notin tick.batch
    BY <1>r DEF CapInv, CapTick, Unlocked
<1>2. CapTick'
    BY <1>1, <1>r DEF CapTick, Unlocked
<1>3. PICK scope : run'.rings \in {ScopedRings(scope), Expedite(ScopedRings(scope))}
    BY DEF Starts
<1>4. ASSUME NEW i \in 1..Len(run'.rings), run'.rings[i].maxDevices > 0
      PROVE  /\ i \in 1..Len(plan) /\ plan[i] \in Ring
             /\ run'.rings[i].group = plan[i].group /\ run'.rings[i].groups = plan[i].groups
             /\ run'.rings[i].maxDevices = plan[i].maxDevices
             /\ GroupsOf(run'.rings[i]) = GroupsOf(plan[i])
  <2>1. /\ i \in 1..Len(plan) /\ plan[i] \in Ring
        /\ run'.rings[i].group = plan[i].group /\ run'.rings[i].groups = plan[i].groups
        /\ run'.rings[i].maxDevices = plan[i].maxDevices
    BY <1>3, <1>4, <1>t, CappedWaveOfPlan
  <2> QED BY <2>1 DEF GroupsOf, GroupList
<1>5. ASSUME NEW i \in 1..Len(run'.rings), HasCap(i)'
      PROVE  run'.rings[i].group \in Groups /\ Capped(run.rings[i].group)'
  <2>1. run'.rings[i].maxDevices > 0 /\ run'.rings[i].groups = <<>>
    BY <1>5 DEF HasCap
  <2>2. /\ i \in 1..Len(plan) /\ plan[i] \in Ring /\ plan[i].groups = <<>> /\ plan[i].maxDevices > 0
        /\ run'.rings[i].group = plan[i].group
    BY <1>4, <2>1
  <2>3. GroupsOf(plan[i]) # {}
    BY <1>t, <2>2, WaveAssumption
  <2>4. plan[i].group # NoGroup
    BY <2>2, <2>3 DEF GroupsOf, GroupList
  <2>5. plan[i].group \in Groups
    BY <2>2, <2>4 DEF Ring
  <2> QED BY <1>r, <2>2, <2>5 DEF Capped
<1>6. CapWaves'
  <2>1. ASSUME NEW i \in 1..Len(run'.rings), NEW j \in 1..Len(run'.rings), i # j,
               run'.rings[i].maxDevices > 0, run'.rings[j].maxDevices > 0
        PROVE  GroupsOf(run'.rings[i]) \cap GroupsOf(run'.rings[j]) = {}
    BY <1>4, <1>t, <2>1, WaveAssumption
  <2> QED BY <1>5, <2>1 DEF CapWaves
<1>7. CapAhead'
  <2>1. \A i \in 1..Len(run'.rings) : HasCap(i)' => run'.rings[i].group \in Groups
    BY <1>5
  <2> QED BY <1>m, <1>r, <2>1, ScopeAssumption DEF CapAhead
<1>8. CapCount'
  <2> SUFFICES ASSUME 1 \in 1..Len(run'.rings), HasCap(1)' PROVE CapCount'
    BY <1>r DEF CapCount, HasCap
  <2>1. CurrentRing' = run'.rings[1]
    BY <1>r DEF CurrentRing
  <2>2. run'.rings[1].group \in Groups /\ Capped(run.rings[1].group)'
    BY <1>5
  <2>3. PICK g \in Groups : g = run'.rings[1].group /\ Capped(g)'
    BY <2>2 DEF Capped
  <2>4. run'.rings[1].maxDevices \in Nat
    <3>1. run'.rings[1] \in Ring
        BY <1>t
    <3> QED BY <3>1 DEF Ring
  <2>5. Exposed(g)' \in SUBSET {} /\ {} \in SUBSET Devices
    BY <1>1, <1>m, <1>r, <2>3, ScopeAssumption DEF Exposed, ReleasedGroupDevices
  <2>6. Cardinality({}) <= run'.rings[1].maxDevices
    BY <2>4, FS_EmptySet
  <2> QED BY <2>1, <2>3, <2>4, <2>5, <2>6, CountNext
<1> QED BY <1>2, <1>6, <1>7, <1>8 DEF CapInv

\* A cohort is chosen: with the devices of the wave that are not proven yet it is no
\* larger than the cap, because they are none (a promotion) or all proven (a widening).
LEMMA CapPicks ==
    ASSUME CapInv, TypeInv', Picks, CapTick', run' = run,
           tick'.pc = "release", InFlight,
           proven \subseteq proven',
           HasCap(run.ring) => \/ ReleasedGroupDevices(CurrentRing.group) \subseteq proven'
                               \/ ReleasedGroupDevices(CurrentRing.group) = {}
    PROVE  CapInv'
<1>t. TypeOK /\ run.ring <= Len(run.rings) /\ run.ring \in Nat \ {0} /\ Len(run.rings) \in Nat
    BY WaveTypes DEF CapInv, TypeInv, Picks
<1>c. CurrentRing \in Ring /\ CurrentRing' = CurrentRing /\ CurrentRing.maxDevices \in Nat
    BY <1>t, CurrentRingType DEF CurrentRing, Ring
<1>k. plan' = plan /\ devPin' = devPin /\ life' = life /\ tick'.batch = Cohort(CurrentRing)
    BY DEF Picks
<1>1. CapWaves'
    BY <1>k DEF CapInv, CapWaves, HasCap, Capped
<1>2. CapAhead'
    BY <1>k DEF CapInv, CapAhead, HasCap
<1>3. CapCount'
  <2> SUFFICES ASSUME HasCap(run.ring) PROVE CapCount'
    BY DEF CapCount, HasCap
  <2>1. PICK g \in Groups : g = CurrentRing.group /\ Capped(g)
    BY <1>t DEF CapInv, CapWaves, CurrentRing
  <2>2. ReleasedGroupDevices(g) \subseteq proven' \/ ReleasedGroupDevices(g) = {}
    BY <2>1
  <2> DEFINE C == {d \in Devices : <<d, g>> \in Cohort(CurrentRing)}
  <2>3. C \in SUBSET Devices /\ Cardinality(C) <= CurrentRing.maxDevices
    BY <1>c, <1>t, CohortIsSmall
  <2>4. ReleasedGroupDevices(g)' = ReleasedGroupDevices(g)
    BY <1>k DEF ReleasedGroupDevices, Capped, ConvergingGroupDevices, ActiveGroupDevices
  <2>5. Exposed(g)' \in SUBSET C
    BY <1>k, <2>1, <2>2, <2>4 DEF Exposed
  <2> HIDE DEF C
  <2> QED BY <1>c, <2>1, <2>3, <2>5, CountNext
<1> QED BY <1>1, <1>2, <1>3 DEF CapInv

\* Releasing a device of the batch exposes nobody who was not in the batch, and no
\* device of another capped wave.
LEMMA CapRelease ==
    ASSUME CapInv, TypeInv', ReleaseDevice
    PROVE  CapInv'
<1>t. /\ TypeInv /\ TypeOK /\ tick.pc = "release" /\ InFlight /\ tick \in Ticks
      /\ run.ring <= Len(run.rings) /\ devPin \in [Devices -> Groups \cup {NoGroup}]
    BY DEF CapInv, TypeInv, TypeOK, ReleaseDevice, Unlocked, InFlight
<1>n. run.ring \in 1..Len(run.rings) /\ run.ring \in Nat
    BY <1>t, WaveTypes
<1>k. /\ run' = run /\ plan' = plan /\ life' = life /\ proven' = proven
      /\ tick'.pc = tick.pc /\ tick'.kind = tick.kind /\ CurrentRing' = CurrentRing
    BY <1>t DEF ReleaseDevice, history, Ticks, CurrentRing
<1>0. PICK x \in Devices, h \in Groups :
            /\ <<x, h>> \in tick.batch
            /\ devPin' = [devPin EXCEPT ![x] = h]
            /\ tick'.batch = tick.batch \ {<<x, h>>}
    BY <1>t, ReleaseOne
<1>1. devPin'[x] = h /\ \A d \in Devices : d # x => devPin'[d] = devPin[d]
    BY <1>0, <1>t
<1>2. h \in GroupsOf(CurrentRing) /\ CurrentRing.maxDevices > 0
    BY <1>0 DEF CapInv, CapTick
<1>3. CapTick'
    BY <1>0, <1>k DEF CapInv, CapTick, Unlocked
<1>w. CapWaves /\ CapAhead /\ CapCount
    BY <1>t DEF CapInv
<1>4. CapWaves'
  <2>1. \A g : Capped(g)' <=> Capped(g)
    BY <1>k DEF Capped
  <2> QED BY <1>k, <1>w, <2>1 DEF CapWaves, HasCap
<1>5. CapAhead'
  <2> SUFFICES ASSUME NEW i \in 1..Len(run.rings), HasCap(i), i > run.ring, NEW d \in Devices
               PROVE  devPin'[d] # run.rings[i].group
    BY <1>k, <1>t DEF CapAhead, HasCap
  <2>1. devPin[d] # run.rings[i].group
    BY <1>w DEF CapAhead
  <2>2. GroupsOf(run.rings[i]) = {run.rings[i].group}
    BY <1>w, CappedWaveGroup DEF CapWaves, HasCap
  <2>3. i # run.ring
    BY <1>n
  <2>4. GroupsOf(run.rings[i]) \cap GroupsOf(CurrentRing) = {}
    BY <1>2, <1>n, <1>w, <2>3 DEF CapWaves, HasCap, CurrentRing
  <2>5. h # run.rings[i].group
    BY <1>2, <2>2, <2>4
  <2> QED BY <1>1, <2>1, <2>5
<1>6. CapCount'
  <2> SUFFICES ASSUME HasCap(run.ring) PROVE CapCount'
    BY <1>k DEF CapCount, HasCap
  <2>1. PICK g \in Groups : g = CurrentRing.group /\ Capped(g)
    BY <1>n, <1>w DEF CapWaves, CurrentRing
  <2>2. h = g
    BY <1>2, <2>1, CappedWaveGroup DEF HasCap, CurrentRing
  <2>3. \A d \in Devices : d \in ReleasedGroupDevices(g)' => d = x \/ d \in ReleasedGroupDevices(g)
    BY <1>1, <1>k, <2>1 DEF ReleasedGroupDevices, Capped, ConvergingGroupDevices,
                             ActiveGroupDevices
  <2>4. Exposed(g)' \in SUBSET Exposed(g) /\ Exposed(g) \in SUBSET Devices
    BY <1>0, <1>k, <2>2, <2>3 DEF Exposed
  <2>5. Cardinality(Exposed(g)) <= CurrentRing.maxDevices /\ CurrentRing.maxDevices \in Nat
    BY <1>n, <1>t, <1>w, <2>1, CurrentRingType DEF CapCount, Ring
  <2> QED BY <1>k, <2>1, <2>4, <2>5, CountNext
<1> QED BY <1>3, <1>4, <1>5, <1>6 DEF CapInv

\* The store write that ends a tick leaves a promoted wave.
LEMMA CapPut ==
    ASSUME CapInv, TypeInv', PutTick
    PROVE  CapInv'
<1>t. /\ TypeInv /\ TypeOK /\ ~Unlocked /\ InFlight /\ tick \in Ticks
      /\ run.ring <= Len(run.rings)
    BY DEF CapInv, TypeInv, TypeOK, PutTick, Unlocked, InFlight
<1>n. /\ run.ring \in RingIds /\ run.promotedAt \in [RingIds -> Times] /\ tick.at # Never
      /\ run.ring \in Nat /\ run.ring \in 1..Len(run.rings)
  <2>1. tick.at \in Nat
    BY <1>t DEF Ticks
  <2> QED BY <1>t, <2>1, WaveTypes DEF Never
<1>k. /\ plan' = plan /\ devPin' = devPin /\ life' = life /\ proven' = proven
      /\ tick'.pc = "idle" /\ tick'.batch = {}
    BY DEF PutTick, doc, history, Idle
<1>r. /\ run'.rings = run.rings /\ run'.ring = run.ring
      /\ run'.promotedAt[run.ring] # Never
  <2>1. tick.kind # "promote" => run.promotedAt[run.ring] # Never
    BY <1>t DEF CapInv, CapTick
  <2> QED BY <1>n, <1>t, <2>1, PutRecord
<1>1. CapTick'
    BY <1>k DEF CapTick, Unlocked
<1>w. CapWaves /\ CapAhead /\ CapCount
    BY <1>t DEF CapInv
<1>2. CapWaves'
  <2>1. \A g : Capped(g)' <=> Capped(g)
    BY <1>k DEF Capped
  <2> QED BY <1>r, <1>w, <2>1 DEF CapWaves, HasCap
<1>3. CapAhead'
    BY <1>k, <1>n, <1>r, <1>w DEF CapAhead, HasCap
<1>4. CapCount'
  <2> SUFFICES ASSUME HasCap(run.ring) PROVE CapCount'
    BY <1>r DEF CapCount, HasCap
  <2>1. PICK g \in Groups : g = CurrentRing.group /\ Capped(g)
    BY <1>n, <1>w DEF CapWaves, CurrentRing
  <2>2. CurrentRing' = CurrentRing
    BY <1>r DEF CurrentRing
  <2>3. ReleasedGroupDevices(g)' = ReleasedGroupDevices(g)
    BY <1>k DEF ReleasedGroupDevices, Capped, ConvergingGroupDevices, ActiveGroupDevices
  <2>4. Exposed(g)' \in SUBSET Exposed(g) /\ Exposed(g) \in SUBSET Devices
    BY <1>k, <2>3 DEF Exposed
  <2>5. Cardinality(Exposed(g)) <= CurrentRing.maxDevices /\ CurrentRing.maxDevices \in Nat
    BY <1>n, <1>t, <1>w, <2>1, CurrentRingType DEF CapCount, Ring
  <2> QED BY <2>1, <2>2, <2>4, <2>5, CountNext
<1> QED BY <1>1, <1>2, <1>3, <1>4 DEF CapInv

\* Every undisturbed step keeps the cap.
LEMMA CapStep == CapInv /\ [Next]_vars /\ [Undisturbed]_vars => CapInv'
<1> SUFFICES ASSUME CapInv, [Next]_vars, [Undisturbed]_vars PROVE CapInv'
    OBVIOUS
<1>t. TypeInv /\ TypeInv' /\ tick \in Ticks /\ faults \in Nat
    BY TypeStep DEF CapInv, TypeInv, TypeOK
<1>u. CASE UNCHANGED vars
  <2>1. run' = run /\ tick' = tick /\ plan' = plan /\ devPin' = devPin /\ life' = life
        /\ proven' = proven
    BY <1>u DEF vars, doc, memory, history
  <2>2. CapTick'
    BY <2>1 DEF CapInv, CapTick, Unlocked, CurrentRing
  <2> QED BY <1>t, <2>1, <2>2, CapFrame
<1> SUFFICES ASSUME Undisturbed PROVE CapInv'
    BY <1>u
\* A cohort belongs to the wave it is chosen for, and that wave has a cap.
<1>w. ASSUME TypeOK, run.ring <= Len(run.rings), run' = run, tick'.batch = Cohort(CurrentRing)
      PROVE  \A d \in Devices, g \in Groups : <<d, g>> \in tick'.batch =>
                g \in GroupsOf(CurrentRing)' /\ CurrentRing'.maxDevices > 0
  <2>1. CurrentRing.maxDevices \in Nat /\ CurrentRing' = CurrentRing
    BY <1>w, CurrentRingType DEF Ring, CurrentRing
  <2> QED BY <1>w, <2>1, InCohort DEF GroupsOf
<1>1. CASE Aside
    BY <1>1, <1>t, CapAside
<1>2. CASE Rewrites
    BY <1>2, <1>t, CapRewrites
<1>3. CASE Starts
    BY <1>3, <1>t, CapStarts
<1>4. CASE TickPromote
  <2>1. /\ run' = run /\ plan' = plan /\ devPin' = devPin /\ life' = life /\ proven' = proven
        /\ tick'.pc = "pin" /\ tick'.batch = {} /\ tick'.kind = "promote" /\ tick.pc = "idle"
    BY <1>4 DEF TickPromote, Deciding, Unlocked, doc, history
  <2>2. run.promotedAt[run.ring] = Never
    BY <1>4, DecidePromote DEF TickPromote, Deciding
  <2>3. CapTick'
    BY <2>1, <2>2 DEF CapTick
  <2> QED BY <1>t, <2>1, <2>3, CapFrame
<1>5. CASE PinGroup \/ CohortReleased \/ MoveRef
  <2>1. /\ run' = run /\ plan' = plan /\ devPin' = devPin /\ life' = life /\ proven' = proven
        /\ tick.pc # "idle"
    BY <1>5 DEF PinGroup, CohortReleased, MoveRef, doc, history
  <2>2. /\ tick'.kind = tick.kind /\ tick'.batch = tick.batch
        /\ \/ tick'.pc = tick.pc
           \/ tick'.pc \in {"move", "put"} /\ tick.batch = {}
    BY <1>5, <1>t DEF PinGroup, CohortReleased, MoveRef, Ticks
  <2>3. CapTick'
    BY <2>1, <2>2 DEF CapInv, CapTick, Unlocked, CurrentRing
  <2> QED BY <1>t, <2>1, <2>2, <2>3, CapFrame
<1>6. CASE PickCohort
  <2>1. /\ run' = run /\ proven' = proven /\ Picks /\ tick'.pc = "release" /\ tick.pc = "pin"
        /\ tick'.kind = tick.kind
    <3>1. run.ring <= Len(run.rings)
        BY <1>6, <1>t DEF PickCohort, TypeInv, Unlocked
    <3> QED BY <1>6, <1>t, <3>1 DEF PickCohort, Picks, doc, history, Ticks
  <2>2. InFlight /\ run.ring <= Len(run.rings) /\ TypeOK
    BY <1>t, <2>1 DEF TypeInv, Unlocked, InFlight, Picks
  <2>3. run.promotedAt[run.ring] = Never /\ tick.kind = "promote"
    BY <2>1 DEF CapInv, CapTick, Unlocked
  <2>4. CapTick'
    BY <1>w, <2>1, <2>2, <2>3 DEF CapTick, Picks
  <2>5. HasCap(run.ring) => ReleasedGroupDevices(CurrentRing.group) = {}
    <3> SUFFICES ASSUME HasCap(run.ring) PROVE ReleasedGroupDevices(CurrentRing.group) = {}
        OBVIOUS
    <3>1. run.ring \in 1..Len(run.rings)
        BY <2>2, WaveTypes
    <3>2. CurrentRing.group \in Groups /\ Capped(CurrentRing.group)
        BY <2>2, <3>1 DEF CapInv, CapWaves, CurrentRing
    <3>3. \A d \in Devices : devPin[d] # CurrentRing.group
        BY <2>1, <2>2, <2>3, <3>1 DEF CapInv, CapAhead, CurrentRing
    <3>4. ConvergingGroupDevices(CurrentRing.group) \in SUBSET Devices
        BY <2>2, <3>2, GroupDevices
    <3> QED BY <3>2, <3>3, <3>4 DEF ReleasedGroupDevices
  <2> QED BY <1>t, <2>1, <2>2, <2>4, <2>5, CapPicks
<1>7. CASE TickWiden
  <2>1. /\ run' = run /\ tick'.pc = "release" /\ tick'.kind = "widen-cohort"
        /\ tick'.batch = Cohort(CurrentRing)
        /\ proven' = proven \cup UNION {ReleasedGroupDevices(g) : g \in GroupsOf(CurrentRing)}
        /\ UNCHANGED <<plan, devPin, life>> /\ run.status = "active"
    BY <1>7 DEF TickWiden, Deciding, doc
  <2>2. run.ring <= Len(run.rings) /\ InFlight /\ TypeOK
    <3>1. TypeOK /\ Len(run.rings) \in Nat /\ run.ring \in Nat
        BY <1>t, WaveTypes DEF TypeInv
    <3>2. ~(run.ring > Len(run.rings))
        BY <1>7, DecideOther DEF TickWiden, Deciding
    <3> QED BY <2>1, <3>1, <3>2 DEF InFlight
  <2>3. run.promotedAt[run.ring] # Never
    BY <1>7 DEF TickWiden, Deciding, Decide
  <2>4. CapTick'
    BY <1>w, <2>1, <2>2, <2>3 DEF CapTick
  <2>5. HasCap(run.ring) => ReleasedGroupDevices(CurrentRing.group) \subseteq proven'
    <3> SUFFICES ASSUME HasCap(run.ring)
                 PROVE  ReleasedGroupDevices(CurrentRing.group) \subseteq proven'
        OBVIOUS
    <3>1. run.ring \in 1..Len(run.rings)
        BY <2>2, WaveTypes
    <3>2. CurrentRing.group \in Groups
        BY <2>2, <3>1 DEF CapInv, CapWaves, CurrentRing
    <3>3. CurrentRing.group \in GroupsOf(CurrentRing)
        BY <3>2, CappedWaveGroup DEF HasCap, CurrentRing
    <3> QED BY <2>1, <3>3
  <2>6. Picks /\ proven \subseteq proven'
    BY <2>1, <2>2 DEF Picks
  <2> QED BY <1>t, <2>1, <2>2, <2>4, <2>5, <2>6, CapPicks
<1>8. CASE ReleaseDevice
    BY <1>8, <1>t, CapRelease
<1>9. CASE PutTick
    BY <1>9, <1>t, CapPut
<1>10. ~TickFails
    BY <1>t DEF TickFails, Fault, Undisturbed
<1>11. CASE FollowHead \/ FollowHeadFails \/ Advances
  <2>1. run' = run /\ tick' = tick /\ plan' = plan /\ devPin' = devPin /\ life' = life
        /\ proven' = proven
    BY <1>11 DEF FollowHead, FollowHeadFails, Advances, doc, memory
  <2>2. CapTick'
    BY <2>1 DEF CapInv, CapTick, Unlocked, CurrentRing
  <2> QED BY <1>t, <2>1, <2>2, CapFrame
<1> QED BY <1>t, <1>1, <1>2, <1>3, <1>4, <1>5, <1>6, <1>7, <1>8, <1>9, <1>10, <1>11, StepShapes

\* The canary cap: in a run that nothing disturbs, a count-capped wave never exposes
\* more than maxDevices devices beyond those an earlier cohort has proven, whatever
\* the devices report and whoever leaves or joins the fleet meanwhile.  Each
\* condition is needed: the marks of an earlier run break it (run cap_second_run), and
\* so do those of a promotion that failed and is retried.
THEOREM CohortAlwaysCapped == Spec /\ [][Undisturbed]_vars => []CohortCap
<1>1. Init => CapInv
  <2> SUFFICES ASSUME Init PROVE CapInv
    OBVIOUS
  <2>1. tick.pc = "idle" /\ tick.batch = {}
    BY DEF Init, Idle
  <2>2. run.status = "none"
    <3>1. NewState(RingIds, NoRev, <<>>, "none") \in Runs
        BY DEF NewState, Runs, Times, Never, NoRev
    <3> QED BY <3>1, StatusUpdate DEF Init, NoRun
  <2> QED BY <2>1, <2>2, TypeInit DEF CapInv, CapTick, Unlocked, InFlight
<1>2. CapInv => CohortCap
  <2> SUFFICES ASSUME CapInv, InFlight, Promoted(run.ring), HasCap(run.ring)
               PROVE  Cardinality(ReleasedGroupDevices(CurrentRing.group) \ proven)
                        <= CurrentRing.maxDevices
    BY DEF CohortCap, HasCap, CurrentRing
  <2>1. TypeOK /\ run.ring <= Len(run.rings) /\ run.ring \in 1..Len(run.rings)
    BY WaveTypes DEF CapInv, TypeInv, Promoted
  <2>2. PICK g \in Groups : g = CurrentRing.group
    BY <2>1 DEF CapInv, CapWaves, CurrentRing
  <2>3. ReleasedGroupDevices(g) \ proven \in SUBSET Exposed(g) /\ Exposed(g) \in SUBSET Devices
    BY <2>1, GroupDevices DEF Exposed
  <2>4. Cardinality(Exposed(g)) <= CurrentRing.maxDevices /\ CurrentRing.maxDevices \in Nat
    BY <2>1, <2>2, CurrentRingType DEF CapInv, CapCount, Ring
  <2>5. /\ Cardinality(Exposed(g)) \in Nat /\ Cardinality(ReleasedGroupDevices(g) \ proven) \in Nat
        /\ Cardinality(ReleasedGroupDevices(g) \ proven) <= Cardinality(Exposed(g))
    BY <2>3, FewerDevices
  <2> QED BY <2>2, <2>4, <2>5
<1> QED BY <1>1, <1>2, CapStep, PTL DEF Spec

(***************************************************************************)
(* Part 7: an automatic run carries work.                                  *)
(***************************************************************************)
\* People have committed above the run's target.
WorkAbove == \E r \in 1..head : r > run.target /\ log[r] # Machine

WavePinned(i) == \A g \in GroupsOf(run.rings[i]) : groupPin[g] = run.target

\* As long as nobody has committed above the target, the plan is still the run's and
\* every wave it has promoted is pinned to the target; what a promotion under way has
\* not pinned yet is on its list.
RunIsPlan ==
    /\ run.rings = plan
    /\ \A i \in 1..Len(run.rings) : run.promotedAt[i] # Never => WavePinned(i)
    /\ tick.pc = "pin" =>
        \A g \in GroupsOf(CurrentRing) : InSeq(g, tick.todo) \/ groupPin[g] = run.target
    /\ ~Unlocked /\ tick.pc # "pin" /\ tick.kind = "promote" => WavePinned(run.ring)

\* A run that auto-flow has decided on and not started yet finds the record as the
\* check left it, and work above its target.
AutoPending ==
    auto # NoRev =>
        /\ run.status \in {"none", "completed", "cancelled"}
        /\ auto <= head
        /\ run.status = "completed" => \E r \in (run.target + 1)..auto : log[r] # Machine

WorkInv ==
    /\ WavesInv
    /\ delivery = {} /\ run.target <= head
    /\ run.status # "none" => WorkAbove \/ RunIsPlan
    /\ run.status = "completed" => \A i \in 1..Len(run.rings) : run.promotedAt[i] # Never
    /\ AutoPending

\* main only grows, so work above the target stays, and a commit by a person is work.
LEMMA WorkStays ==
    ASSUME TypeOK, LogGrows, run'.target = run.target, run.target <= head
    PROVE  /\ run'.target <= head'
           /\ WorkAbove => WorkAbove'
           /\ log' = Append(log, "edit") => WorkAbove'
           /\ \A r \in 1..head : r \in 1..head' /\ log'[r] = log[r]
           /\ head <= head' /\ head \in Nat /\ head' \in Nat /\ run.target \in Nat
<1>1. log \in Seq({"edit", "risky", Machine}) /\ head \in Nat /\ run.target \in Nat
  <2>1. log \in Seq({"edit", "risky", Machine}) /\ run \in Runs
    BY DEF TypeOK
  <2>2. run.target \in Nat
    BY <2>1 DEF Runs
  <2> QED BY <2>1, <2>2 DEF head
<1>2. /\ head' \in Nat /\ head <= head' /\ \A r \in 1..head : r \in 1..head' /\ log'[r] = log[r]
      /\ log' = Append(log, "edit") => head' = head + 1 /\ log'[head + 1] = "edit"
    BY <1>1 DEF LogGrows, head
<1>3. run'.target <= head'
    BY <1>1, <1>2
<1>4. WorkAbove => WorkAbove'
    BY <1>1, <1>2 DEF WorkAbove
<1>5. ASSUME log' = Append(log, "edit") PROVE WorkAbove'
  <2>1. head' = head + 1 /\ log'[head + 1] # Machine
    BY <1>2, <1>5 DEF Machine
  <2>2. head + 1 \in 1..head' /\ head + 1 > run'.target
    BY <1>1, <2>1
  <2> QED BY <2>1, <2>2 DEF WorkAbove
<1> QED BY <1>1, <1>2, <1>3, <1>4, <1>5

\* AutoWanted: a completed run that nobody has committed above has pinned every
\* group of the plan to its target, so the baseline is the target and nothing above
\* it starts another run.
LEMMA WantedIsWork ==
    ASSUME WorkInv, AutoWanted, run.status = "completed"
    PROVE  WorkAbove
<1> SUFFICES ASSUME RunIsPlan PROVE WorkAbove
    BY DEF WorkInv
<1>1. \A p \in Places : groupPin[GroupAt(p)] = run.target
  <2> SUFFICES ASSUME NEW i \in 1..Len(plan), NEW j \in 1..Len(GroupList(plan[i]))
               PROVE  groupPin[GroupAt(<<i, j>>)] = run.target
    BY DEF Places
  <2>1. run.rings = plan /\ WavePinned(i)
    BY DEF WorkInv, RunIsPlan
  <2>2. GroupAt(<<i, j>>) \in GroupsOf(run.rings[i])
    BY <2>1 DEF GroupAt, GroupsOf
  <2> QED BY <2>1, <2>2 DEF WavePinned
<1>2. PICK b \in promotedBaseline : NonMachineCommitsSince(b) # {}
    BY DEF AutoWanted
<1>3. b = run.target
    BY <1>1, <1>2 DEF promotedBaseline, PinnedPlaces
<1> QED BY <1>2, <1>3 DEF NonMachineCommitsSince, WorkAbove

\* Decide: a run is done when its last wave has been promoted, and so every wave.
LEMMA DoneMeansPromoted ==
    ASSUME WavesInv, Deciding("done")
    PROVE  \A i \in 1..Len(run.rings) : run.promotedAt[i] # Never
<1>t. TypeOK /\ run.ring \in Nat /\ Len(run.rings) \in Nat /\ Len(run.rings) <= MaxRings
    BY WaveTypes DEF WavesInv, TypeInv
<1>1. \/ run.ring > Len(run.rings)
      \/ run.ring = Len(run.rings) /\ run.promotedAt[run.ring] # Never
    BY DEF Deciding, Decide
<1>2. \A i \in 1..Len(run.rings) : i \in RingIds
    BY <1>t, SoakAssumption DEF RingIds
<1>3. \A i \in 1..Len(run.rings) : i < run.ring \/ (i = run.ring /\ run.promotedAt[run.ring] # Never)
    BY <1>1, <1>t
<1> QED BY <1>2, <1>3 DEF WavesInv, WaveInv

\* A run that is over stays as it is until the next one starts.
LEMMA OverStays ==
    ASSUME TypeInv, [Next]_vars, starts' = starts, ~InFlight
    PROVE  run' = run
<1>1. Unlocked /\ run.status # "active"
    BY DEF TypeInv, InFlight
<1>2. ~(TickPromote \/ TickWiden \/ Rewrites \/ Starts)
    BY <1>1 DEF TickPromote, TickWiden, Deciding, Rewrites, Starts, TypeInv, TypeOK
<1>3. ~(PinGroup \/ PickCohort \/ ReleaseDevice \/ CohortReleased \/ MoveRef \/ PutTick \/ TickFails)
    BY <1>1 DEF PinGroup, PickCohort, ReleaseDevice, CohortReleased, MoveRef, PutTick, TickFails,
                Unlocked
<1> QED BY <1>2, <1>3, StepShapes DEF Aside, Advances, FollowHead, FollowHeadFails

\* The plan, the pins and the tick stay, and so does what is said about them.
LEMMA PlanFrame ==
    ASSUME RunIsPlan, run'.rings = run.rings, run'.target = run.target,
           run'.promotedAt = run.promotedAt, UNCHANGED <<plan, groupPin>>,
           (tick' = tick /\ run'.ring = run.ring) \/ Unlocked'
    PROVE  RunIsPlan'
<1>1. \A i \in 1..Len(run.rings) : WavePinned(i) => WavePinned(i)'
    BY DEF WavePinned
<1>2. CASE Unlocked'
    BY <1>1, <1>2 DEF RunIsPlan, Unlocked
<1>3. CASE tick' = tick /\ run'.ring = run.ring
    BY <1>1, <1>3 DEF RunIsPlan, Unlocked, CurrentRing, WavePinned
<1> QED BY <1>2, <1>3

\* Pinning a group of the wave to the target takes it off the list.
LEMMA PlanPin ==
    ASSUME TypeInv, RunIsPlan, PinGroup
    PROVE  RunIsPlan'
<1>t. /\ tick \in Ticks /\ tick.todo \in Seq(Groups) /\ groupPin \in [Groups -> Nat]
      /\ tick.todo # <<>> /\ Head(tick.todo) \in Groups
  <2>1. tick \in Ticks /\ groupPin \in [Groups -> Nat] /\ tick.todo # <<>>
    BY DEF TypeInv, TypeOK, PinGroup
  <2>2. tick.todo \in Seq(Groups)
    BY <2>1 DEF Ticks
  <2> QED BY <2>1, <2>2
<1>k. /\ run' = run /\ plan' = plan /\ tick.pc = "pin"
      /\ groupPin' = [groupPin EXCEPT ![Head(tick.todo)] = run.target]
    BY DEF PinGroup
<1>1. tick'.pc = "pin" /\ tick'.todo = Tail(tick.todo)
    BY <1>k, <1>t DEF PinGroup, Ticks
<1>2. \A g : groupPin[g] = run.target /\ g \in Groups => groupPin'[g] = run.target
    BY <1>k, <1>t
<1>3. groupPin'[Head(tick.todo)] = run.target
    BY <1>k, <1>t
<1>4. \A i \in 1..Len(run.rings) : GroupsOf(run.rings[i]) \subseteq Groups
  <2>1. run.rings \in Seq(Ring)
    BY DEF TypeInv, TypeOK, Runs
  <2>2. \A i \in 1..Len(run.rings) : run.rings[i] \in Ring
    BY <2>1
  <2> QED BY <2>2, GroupListType
<1>5. \A i \in 1..Len(run.rings) : WavePinned(i) => WavePinned(i)'
    BY <1>2, <1>4, <1>k DEF WavePinned
<1>6. \A g \in GroupsOf(CurrentRing) : g \in Groups
  <2>1. TypeOK /\ run.ring <= Len(run.rings)
    BY <1>k DEF TypeInv, Unlocked
  <2> QED BY <2>1, CurrentRingType
<1>7. \A g \in GroupsOf(CurrentRing) : InSeq(g, Tail(tick.todo)) \/ groupPin'[g] = run.target
    BY <1>2, <1>3, <1>6, <1>k, <1>t, InTail DEF RunIsPlan
<1> QED BY <1>1, <1>5, <1>7, <1>k DEF RunIsPlan, CurrentRing

\* Recording a promotion: its wave has been pinned.
LEMMA PlanPut ==
    ASSUME TypeInv, RunIsPlan, PutTick
    PROVE  RunIsPlan'
<1>t. TypeInv /\ TypeOK /\ tick \in Ticks /\ ~Unlocked /\ tick.pc # "pin"
    BY DEF TypeInv, TypeOK, PutTick, Unlocked
<1>k. /\ plan' = plan /\ groupPin' = groupPin /\ Unlocked'
      /\ run'.rings = run.rings /\ run'.target = run.target
    BY <1>t, PutRecord DEF PutTick, doc, Unlocked, Idle
<1>1. \A i \in 1..Len(run.rings) : WavePinned(i) => WavePinned(i)'
    BY <1>k DEF WavePinned
<1>2. ASSUME NEW i \in 1..Len(run.rings), run'.promotedAt[i] # Never
      PROVE  WavePinned(i)
  <2>1. run.promotedAt \in [RingIds -> Times] /\ i \in RingIds
    <3>1. Len(run.rings) \in Nat /\ Len(run.rings) <= MaxRings
        BY <1>t, WaveTypes
    <3>2. i \in RingIds
        BY <3>1, SoakAssumption DEF RingIds
    <3> QED BY <1>t, <3>2, WaveTypes
  <2>2. CASE tick.kind = "promote" /\ i = run.ring
    BY <1>t, <2>2 DEF RunIsPlan
  <2>3. CASE ~(tick.kind = "promote" /\ i = run.ring)
    <3>1. run'.promotedAt[i] = run.promotedAt[i]
        BY <1>t, <2>1, <2>3, PutRecord
    <3> QED BY <1>2, <3>1 DEF RunIsPlan
  <2> QED BY <2>2, <2>3
<1> QED BY <1>1, <1>2, <1>k DEF RunIsPlan, Unlocked

\* The steps of the service, of people and of devices keep the run on its plan, as
\* long as nobody commits above the target.
LEMMA PlanStep ==
    ASSUME TypeInv, [Next]_vars, starts' = starts, run.target <= head, LogGrows,
           RunIsPlan, ~WorkAbove'
    PROVE  RunIsPlan'
<1>t. TypeOK /\ tick \in Ticks
    BY DEF TypeInv, TypeOK
<1>0. run'.target = run.target
    BY TargetKept
<1>e. log' # Append(log, "edit")
    BY <1>0, <1>t, WorkStays
<1>1. CASE Aside
    BY <1>1, <1>e, PlanFrame DEF Aside
<1>2. CASE Rewrites
    BY <1>2, PlanFrame DEF Rewrites, Unlocked
<1>3. ~Starts
    BY <1>t DEF Starts, TypeOK
<1>4. CASE TickPromote \/ TickWiden
  <2>1. /\ run' = run /\ plan' = plan /\ groupPin' = groupPin
        /\ \/ tick'.pc = "pin" /\ tick'.todo = GroupList(CurrentRing)
           \/ tick'.pc = "release" /\ tick'.kind = "widen-cohort"
    BY <1>4 DEF TickPromote, TickWiden, doc
  <2>2. \A i \in 1..Len(run.rings) : WavePinned(i) => WavePinned(i)'
    BY <2>1 DEF WavePinned
  <2> QED BY <2>1, <2>2, InGroupList DEF RunIsPlan, CurrentRing
<1>5. CASE PinGroup
    BY <1>5, PlanPin
<1>6. CASE PickCohort
  <2>1. /\ run' = run /\ plan' = plan /\ groupPin' = groupPin
        /\ tick.pc = "pin" /\ tick.todo = <<>>
    BY <1>6 DEF PickCohort, doc
  <2>2. tick'.pc = "release"
    BY <1>6, <1>t DEF PickCohort, Ticks
  <2>3. \A i : WavePinned(i)' <=> WavePinned(i)
    BY <2>1 DEF WavePinned
  <2>4. WavePinned(run.ring)
    BY <2>1 DEF RunIsPlan, WavePinned, InSeq, CurrentRing
  <2>5. WavePinned(run.ring)'
    BY <2>1, <2>4 DEF WavePinned
  <2> QED BY <2>1, <2>2, <2>3, <2>5 DEF RunIsPlan
<1>7. CASE ReleaseDevice \/ CohortReleased \/ MoveRef
  <2>1. run' = run /\ plan' = plan /\ groupPin' = groupPin /\ tick.pc \in {"release", "move"}
    BY <1>7 DEF ReleaseDevice, CohortReleased, MoveRef, doc
  <2>2. tick'.pc \in {"release", "move", "put"} /\ tick'.kind = tick.kind
    BY <1>7, <1>t DEF ReleaseDevice, CohortReleased, MoveRef, Ticks
  <2>3. \A i : WavePinned(i)' <=> WavePinned(i)
    BY <2>1 DEF WavePinned
  <2>4. tick.kind = "promote" => WavePinned(run.ring)
    BY <2>1 DEF RunIsPlan, Unlocked
  <2>5. tick.kind = "promote" => WavePinned(run.ring)'
    BY <2>1, <2>4 DEF WavePinned
  <2> QED BY <2>1, <2>2, <2>3, <2>5 DEF RunIsPlan
<1>8. CASE PutTick
    BY <1>8, PlanPut
<1>9. CASE TickFails
    BY <1>9, PlanFrame DEF TickFails, Unlocked, Idle, doc
<1>10. CASE FollowHead \/ FollowHeadFails \/ Advances
    BY <1>10, PlanFrame DEF FollowHead, FollowHeadFails, Advances, doc, memory
<1> QED BY <1>1, <1>2, <1>3, <1>4, <1>5, <1>6, <1>7, <1>8, <1>9, <1>10, StepShapes

\* A run becomes completed in one way, and only its own tick changes a run in flight.
LEMMA StatusStep ==
    ASSUME TypeInv, [Next]_vars, starts' = starts
    PROVE  /\ run'.status = "none" \/ run.status # "none"
           /\ run'.status = "completed" =>
                \/ run' = run
                \/ run'.rings = run.rings /\ run'.promotedAt = run.promotedAt /\ Deciding("done")
<1>1. CASE ~InFlight
    BY <1>1, OverStays
<1>2. CASE InFlight
  <2>1. run.status # "none" /\ run.status # "completed"
    BY <1>2 DEF InFlight
  <2>2. CASE Rewrites
    BY <2>1, <2>2 DEF Rewrites
  <2>3. ~Starts
    BY DEF Starts, TypeInv, TypeOK
  <2>4. CASE PutTick
    BY <2>1, <2>4, PutRecord
  <2>5. CASE Aside \/ Advances \/ TickPromote \/ TickWiden \/ PinGroup \/ PickCohort \/ ReleaseDevice
             \/ CohortReleased \/ MoveRef \/ TickFails \/ FollowHead \/ FollowHeadFails
    BY <2>1, <2>5 DEF Aside, Advances, TickPromote, TickWiden, PinGroup, PickCohort, ReleaseDevice,
                      CohortReleased, MoveRef, TickFails, FollowHead, FollowHeadFails
  <2> QED BY <2>2, <2>3, <2>4, <2>5, StepShapes
<1> QED BY <1>1, <1>2

LEMMA WorkStep ==
    ASSUME WorkInv, [Next]_vars, Origins = {"autoflow"}
    PROVE  WorkInv'
<1>t. /\ WavesInv /\ WavesInv' /\ TypeInv /\ TypeOK /\ auto \in Nat /\ run.target \in Nat
      /\ head \in Nat
  <2>1. WavesInv /\ WavesInv' /\ TypeInv /\ TypeOK /\ run \in Runs /\ auto \in Nat
        /\ log \in Seq({"edit", "risky", Machine})
    BY WavesStep DEF WorkInv, WavesInv, TypeInv, TypeOK
  <2>2. run.target \in Nat
    BY <2>1 DEF Runs
  <2> QED BY <2>1, <2>2 DEF head
<1>i. /\ delivery = {} /\ run.target <= head
      /\ run.status # "none" => WorkAbove \/ RunIsPlan
      /\ run.status = "completed" => \A i \in 1..Len(run.rings) : run.promotedAt[i] # Never
      /\ AutoPending
    BY DEF WorkInv
<1>1. CASE AutoCheck
  <2>1. /\ auto' = head /\ AutoWanted
        /\ log' = log /\ plan' = plan /\ groupPin' = groupPin
        /\ run' = run /\ tick' = tick /\ delivery' = delivery
    BY <1>1 DEF AutoCheck, doc
  <2>2. run.status \in {"none", "completed", "cancelled"}
    BY <2>1 DEF AutoWanted
  <2>3. AutoPending'
    <3>1. run.status = "completed" => WorkAbove
        BY <2>1, WantedIsWork
    <3>2. WorkAbove => \E r \in (run.target + 1)..head : log[r] # Machine
        BY <1>t DEF WorkAbove
    <3>3. auto' <= head'
        BY <1>t, <2>1 DEF head
    <3> QED BY <2>1, <2>2, <3>1, <3>2, <3>3 DEF AutoPending
  <2>4. WorkAbove => WorkAbove'
    BY <2>1 DEF WorkAbove, head
  <2>5. RunIsPlan => RunIsPlan'
    BY <2>1, PlanFrame
  <2> QED BY <1>i, <1>t, <2>1, <2>3, <2>4, <2>5 DEF WorkInv, head
<1>2. CASE AutoStart
  <2>1. /\ auto # NoRev /\ auto' = NoRev /\ delivery' = delivery /\ Unlocked /\ tick' = tick
        /\ log' = log /\ plan' = plan /\ groupPin' = groupPin
        /\ run'.rings = plan /\ run'.target = auto /\ run'.status = "active"
        /\ \A i \in RingIds : run'.promotedAt[i] = Never
    BY <1>2 DEF AutoStart, StartWith, NewState, ScopedRings, doc
  <2>2. auto <= head
    BY <1>i, <2>1 DEF AutoPending
  <2>3. run'.target <= head'
    BY <2>1, <2>2 DEF head
  <2>4. \A i \in 1..Len(run'.rings) : i \in RingIds
    BY <1>t, <2>1, PlanAssumption, SoakAssumption DEF TypeOK, RingIds
  <2>5. RunIsPlan'
    BY <2>1, <2>4 DEF RunIsPlan, Unlocked
  <2>6. AutoPending'
    BY <2>1 DEF AutoPending
  <2> QED BY <1>i, <1>t, <2>1, <2>3, <2>5, <2>6 DEF WorkInv
<1>3. CASE Harmlessly
  <2>1. LogGrows /\ starts' = starts /\ auto' \in {auto, NoRev} /\ delivery' = {}
    BY <1>3 DEF Harmlessly
  <2>2. run'.target = run.target
    BY <1>t, <2>1, TargetKept
  <2>3. /\ run'.target <= head'
        /\ WorkAbove => WorkAbove'
        /\ \A r \in 1..head : log'[r] = log[r]
        /\ head <= head' /\ head' \in Nat
    BY <1>i, <1>t, <2>1, <2>2, WorkStays
  <2>4. run'.status # "none" => WorkAbove' \/ RunIsPlan'
    BY <1>i, <1>t, <2>1, <2>3, PlanStep, StatusStep
  <2>5. run'.status = "completed" => \A i \in 1..Len(run'.rings) : run'.promotedAt[i] # Never
    BY <1>i, <1>t, <2>1, StatusStep, DoneMeansPromoted
  <2>6. AutoPending'
    <3> SUFFICES ASSUME auto' # NoRev PROVE AutoPending'
        BY DEF AutoPending
    <3>1. auto' = auto /\ auto # NoRev
        BY <2>1
    <3>2. run.status \in {"none", "completed", "cancelled"} /\ auto <= head
        BY <1>i, <3>1 DEF AutoPending
    <3>3. run' = run
        BY <1>t, <2>1, <3>2, OverStays DEF InFlight
    <3>4. auto' <= head'
        BY <1>t, <2>3, <3>1, <3>2
    <3>5. ASSUME run.status = "completed"
          PROVE  \E r \in (run'.target + 1)..auto' : log'[r] # Machine
      <4>1. PICK r \in (run.target + 1)..auto : log[r] # Machine
        BY <1>i, <3>1, <3>5 DEF AutoPending
      <4>2. r \in 1..head
        BY <1>t, <3>2, <4>1
      <4>3. log'[r] # Machine
        BY <2>3, <4>1, <4>2
      <4> QED BY <3>1, <3>3, <4>1, <4>3
    <3> QED BY <3>1, <3>2, <3>3, <3>4, <3>5 DEF AutoPending
  <2> QED BY <1>t, <2>1, <2>3, <2>4, <2>5, <2>6 DEF WorkInv
<1> QED BY <1>1, <1>2, <1>3, <1>i, <1>t, RiskShapes

\* Damping: left to itself, auto-flow follows a completed run with another one only
\* when a person has committed above the completed target; the pins, releases and
\* enrolments its own run commits never start the next, however ticks fail and
\* whatever is unpinned or re-planned meanwhile.
THEOREM AutoAlwaysCarriesWork ==
    Origins = {"autoflow"} => (Spec => AutoRunsCarryWork)
<1> SUFFICES ASSUME Origins = {"autoflow"} PROVE Spec => AutoRunsCarryWork
    OBVIOUS
<1>1. Init => WorkInv
  <2> SUFFICES ASSUME Init PROVE WorkInv
    OBVIOUS
  <2>1. delivery = {} /\ auto = NoRev /\ run.target = NoRev /\ log = InitLog
    BY DEF Init, NoRun, NewState
  <2>2. run.target <= head
    BY <2>1, FleetAssumption DEF NoRev, head
  <2>3. run.status = "none"
    <3>1. NewState(RingIds, NoRev, <<>>, "none") \in Runs
        BY DEF NewState, Runs, Times, Never, NoRev
    <3> QED BY <3>1, StatusUpdate DEF Init, NoRun
  <2> QED BY <2>1, <2>2, <2>3, WavesInit DEF WorkInv, AutoPending
<1>2. ASSUME WorkInv, [Next]_vars, starts' = starts + 1, run.status = "completed"
      PROVE  \E r \in (run.target + 1)..run'.target : log[r] # Machine
  <2>1. TypeInv /\ delivery = {} /\ starts \in Nat /\ AutoPending
    BY <1>2 DEF WorkInv, WavesInv, TypeInv, TypeOK
  <2>2. ~Harmlessly /\ ~AutoCheck
    BY <1>2, <2>1 DEF Harmlessly, AutoCheck, bounds
  <2>3. AutoStart
    BY <1>2, <2>1, <2>2, RiskShapes
  <2>4. auto # NoRev /\ run'.target = auto
    BY <2>3 DEF AutoStart, StartWith, NewState
  <2> QED BY <1>2, <2>1, <2>4 DEF AutoPending
<1>3. WorkInv /\ [Next]_vars =>
        [starts' = starts + 1 /\ run'.origin = "autoflow" /\ run.status = "completed" =>
            \E r \in (run.target + 1)..run'.target : log[r] # Machine]_vars
    BY <1>2
<1>4. WorkInv /\ [Next]_vars => WorkInv'
    BY WorkStep
<1> QED BY <1>1, <1>3, <1>4, PTL DEF Spec, AutoRunsCarryWork
=============================================================================
