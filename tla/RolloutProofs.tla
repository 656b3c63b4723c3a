--------------------------- MODULE RolloutProofs ---------------------------
(***************************************************************************)
(* Proofs about the rollout service, for every fleet, plan, bound and      *)
(* fault budget.                                                           *)
(*                                                                         *)
(* Part 1: the record, the branches and the tick keep their types.  The    *)
(* strengthening is that a tick under way belongs to an active run that    *)
(* still has a wave: the service mutex is what makes it so.                *)
(*                                                                         *)
(* Part 2: the order of the waves.  A wave's successor is promoted only    *)
(* after its soak and its sign-off.  The gates are checked when the run    *)
(* ADVANCES, many steps, ticks, failures and restarts before the next wave *)
(* is PROMOTED, so the invariant carries what was true at the advance      *)
(* forward to the store write that records the promotion.                  *)
(***************************************************************************)
EXTENDS Rollout, TLAPS

\* Types, and: while the mutex is held by a tick (Tick, rollout.go), the run
\* is active and has a current wave.
TypeInv ==
    /\ TypeOK
    /\ ~Unlocked => run.status = "active" /\ run.ring <= Len(run.rings)

\* GroupList: the groups of a wave exist.
LEMMA GroupListType ==
    ASSUME NEW r \in Ring
    PROVE  GroupList(r) \in Seq(Groups) /\ GroupsOf(r) \subseteq Groups
BY DEF GroupList, GroupsOf, Ring

\* The wave a run stands on is a well-formed wave of existing groups.
LEMMA CurrentRingType ==
    ASSUME TypeOK, run.ring <= Len(run.rings)
    PROVE  /\ CurrentRing \in Ring
           /\ GroupList(CurrentRing) \in Seq(Groups)
           /\ GroupsOf(CurrentRing) \subseteq Groups
<1>1. run.rings \in Seq(Ring) /\ run.ring \in Nat \ {0}
    BY DEF TypeOK, Runs
<1>2. CurrentRing \in Ring
    BY <1>1 DEF CurrentRing
<1> QED BY <1>2, GroupListType

\* StartWith's waves, scoped or not, expedited or not, are well formed and fit
\* the record.
LEMMA RunRingsType ==
    ASSUME TypeOK, NEW scope \in Seq(Groups)
    PROVE  /\ ScopedRings(scope) \in Seq(Ring)
           /\ Len(ScopedRings(scope)) \in 1..MaxRings
           /\ Expedite(ScopedRings(scope)) \in Seq(Ring)
           /\ Len(Expedite(ScopedRings(scope))) \in 1..MaxRings
<1>1. plan \in Seq(Ring) /\ Len(plan) \in 1..MaxRings
    BY PlanAssumption DEF TypeOK
<1>2. plan[1] \in Ring /\ ScopedWave(scope) \in Ring
  <2>1. plan[1] \in Ring
    BY <1>1, SoakAssumption
  <2>2. ScopedWave(scope) \in Ring
    BY SoakAssumption DEF ScopedWave, Ring
  <2> QED BY <2>1, <2>2
<1>3. ScopedRings(scope) \in Seq(Ring) /\ Len(ScopedRings(scope)) \in 1..MaxRings
    BY <1>1, <1>2, SoakAssumption DEF ScopedRings
<1>4. ASSUME NEW s \in Seq(Ring), Len(s) \in 1..MaxRings
      PROVE  Expedite(s) \in Seq(Ring) /\ Len(Expedite(s)) = Len(s)
  <2>1. ASSUME NEW r \in Ring PROVE [r EXCEPT !.soak = expeditedSoak] \in Ring
    BY SoakAssumption DEF Ring
  <2>2. \A i \in 1..Len(s) : s[i] \in Ring
    BY <1>4
  <2>3. \A i \in 1..Len(s) : [s[i] EXCEPT !.soak = expeditedSoak] \in Ring
    BY <2>1, <2>2
  <2> QED BY <1>4, <2>2, <2>3 DEF Expedite
<1> QED BY <1>3, <1>4

\* NewState: a fresh run is a well-formed record.
LEMMA NewStateType ==
    ASSUME NEW target \in Nat, NEW rings \in Seq(Ring), Len(rings) \in 1..MaxRings,
           NEW origin \in {"operator", "delivery", "autoflow"}
    PROVE  NewState(RingIds, target, rings, origin) \in Runs
BY DEF NewState, Runs, Times, Never

\* Decide: a wave is left only when it was promoted and either has no devices or
\* has converged, soaked and, if it is a manual gate, been signed off.
LEMMA DecideAdvance ==
    ASSUME NEW rings, NEW s, NEW rs, NEW t, Decide(rings, s, rs, t) = "advance"
    PROVE  /\ s.promotedAt[s.ring] # Never
           /\ ~(s.ring > Len(rings))
           /\ \/ rs.total = 0
              \/ /\ s.convergedAt[s.ring] # Never
                 /\ Soaked(rings[s.ring], s, t)
                 /\ ~NeedsApproval(rings[s.ring], s)
BY DEF Decide

\* Decide: every decision but done is about a wave the run still has.
LEMMA DecideOther ==
    ASSUME NEW rings, NEW s, NEW rs, NEW t,
           Decide(rings, s, rs, t) \in {"promote", "wait", "widen-cohort", "halt", "await-approval"}
    PROVE  ~(s.ring > Len(rings))
BY DEF Decide

\* Decide: only a wave that is not promoted yet is promoted.
LEMMA DecidePromote ==
    ASSUME NEW rings, NEW s, NEW rs, NEW t, Decide(rings, s, rs, t) = "promote"
    PROVE  s.promotedAt[s.ring] = Never
BY DEF Decide

\* Decide: only a promoted wave is waited for.
LEMMA DecideWait ==
    ASSUME NEW rings, NEW s, NEW rs, NEW t, Decide(rings, s, rs, t) = "wait"
    PROVE  s.promotedAt[s.ring] # Never
BY DEF Decide

\* Note changes what the run is waiting for and nothing else.
LEMMA NoteType ==
    ASSUME NEW s \in Runs, NEW kind \in ActionKinds
    PROVE  /\ Note(s, kind) \in Runs
           /\ Note(s, kind).rings = s.rings
           /\ Note(s, kind).ring = s.ring
           /\ Note(s, kind).status = s.status
           /\ Note(s, kind).promotedAt = s.promotedAt
           /\ Note(s, kind).convergedAt = s.convergedAt
           /\ Note(s, kind).approved = s.approved
           /\ Note(s, kind).target = s.target
BY DEF Note, Runs, ActionKinds

\* A change of status leaves waves and times alone.
LEMMA StatusUpdate ==
    ASSUME NEW s \in Runs,
           NEW x \in {"none", "active", "paused", "halted", "completed", "cancelled"}
    PROVE  LET u == [s EXCEPT !.status = x] IN
           /\ u \in Runs
           /\ u.rings = s.rings /\ u.ring = s.ring /\ u.approved = s.approved
           /\ u.promotedAt = s.promotedAt /\ u.convergedAt = s.convergedAt
           /\ u.target = s.target /\ u.status = x
BY DEF Runs

\* Moving to another wave leaves the times and sign-offs alone.
LEMMA RingUpdate ==
    ASSUME NEW s \in Runs, NEW n \in Nat \ {0}
    PROVE  LET u == [s EXCEPT !.ring = n] IN
           /\ u \in Runs
           /\ u.rings = s.rings /\ u.ring = n /\ u.approved = s.approved
           /\ u.promotedAt = s.promotedAt /\ u.convergedAt = s.convergedAt
           /\ u.target = s.target /\ u.status = s.status
BY DEF Runs

\* Approve adds the current wave to the sign-offs and nothing else.
LEMMA ApproveUpdate ==
    ASSUME NEW s \in Runs
    PROVE  /\ Approve(s) \in Runs
           /\ Approve(s).rings = s.rings /\ Approve(s).ring = s.ring
           /\ Approve(s).approved = s.approved \cup {s.ring}
           /\ Approve(s).promotedAt = s.promotedAt /\ Approve(s).convergedAt = s.convergedAt
           /\ Approve(s).target = s.target /\ Approve(s).status = s.status
BY DEF Runs, Approve

\* Recording a promotion changes the current wave's promotion time only.
LEMMA PromotedUpdate ==
    ASSUME NEW s \in Runs, NEW t \in Times
    PROVE  LET u == [s EXCEPT !.promotedAt[s.ring] = t] IN
           /\ u \in Runs
           /\ u.rings = s.rings /\ u.ring = s.ring /\ u.approved = s.approved
           /\ u.promotedAt = [s.promotedAt EXCEPT ![s.ring] = t]
           /\ u.convergedAt = s.convergedAt
           /\ u.target = s.target /\ u.status = s.status
BY DEF Runs

\* Recording or deleting a convergence changes the current wave's time only.
LEMMA ConvergedUpdate ==
    ASSUME NEW s \in Runs, NEW t \in Times
    PROVE  LET u == [s EXCEPT !.convergedAt[s.ring] = t] IN
           /\ u \in Runs
           /\ u.rings = s.rings /\ u.ring = s.ring /\ u.approved = s.approved
           /\ u.promotedAt = s.promotedAt
           /\ u.convergedAt = [s.convergedAt EXCEPT ![s.ring] = t]
           /\ u.target = s.target /\ u.status = s.status
BY DEF Runs

\* The service starts well typed.
LEMMA TypeInit == Init => TypeInv
<1> SUFFICES ASSUME Init PROVE TypeInv
    OBVIOUS
<1>1. NoRun \in Runs /\ NoRun.rings = <<>> /\ NoRun.ring = 1
  <2>1. NewState(RingIds, NoRev, <<>>, "none") \in Runs
    BY DEF NewState, Runs, Times, Never, NoRev
  <2>3. /\ NewState(RingIds, NoRev, <<>>, "none").rings = <<>>
        /\ NewState(RingIds, NoRev, <<>>, "none").ring = 1
    BY DEF NewState
  <2> QED BY <2>1, <2>3, StatusUpdate DEF NoRun
<1>2. Idle \in Ticks /\ Idle.pc = "idle"
    BY DEF Idle, Ticks
<1>3. InitLog \in Seq({"edit", "risky", Machine})
  <2>1. InitLog \in Seq({"edit", "risky"})
    BY FleetAssumption
  <2> QED BY <2>1
<1>5. NoEnrol \in Enrols /\ NoEnrol.pc = "none"
    BY DEF NoEnrol, Enrols, NoRev
<1>4. TypeOK
    BY <1>1, <1>2, <1>3, <1>5, SoakAssumption DEF Init, TypeOK, NoRev
<1> QED BY <1>2, <1>4 DEF Init, TypeInv, Unlocked

\* StartWith keeps the types.
LEMMA StartType ==
    ASSUME TypeInv, NEW target \in Nat, NEW scope \in Seq(Groups), NEW expedited \in BOOLEAN,
           NEW origin \in {"operator", "delivery", "autoflow"},
           StartWith(target, scope, expedited, origin),
           delivery' \in SUBSET (Scopes \X Nat), auto' \in Nat
    PROVE  TypeInv'
<1> DEFINE rings == IF expedited THEN Expedite(ScopedRings(scope)) ELSE ScopedRings(scope)
<1>1. rings \in Seq(Ring) /\ Len(rings) \in 1..MaxRings
    BY RunRingsType DEF TypeInv
<1>2. run' = NewState(RingIds, target, rings, origin)
    BY DEF StartWith
<1> HIDE DEF rings
<1>3. run' \in Runs /\ Len(run'.rings) <= MaxRings /\ run'.ring <= Len(run'.rings) + 1
  <2>1. run' \in Runs
    BY <1>1, <1>2, NewStateType
  <2>2. run'.rings = rings /\ run'.ring = 1
    BY <1>2 DEF NewState
  <2> QED BY <1>1, <2>1, <2>2, SoakAssumption
<1>4. TypeOK'
    BY <1>3 DEF TypeInv, TypeOK, StartWith, doc, refs
<1> QED BY <1>4 DEF TypeInv, StartWith, Unlocked

\* The operator's controls keep the types.
LEMMA ControlType ==
    ASSUME TypeInv, NEW from, NEW s \in Runs, s.rings = run.rings, s.ring = run.ring,
           Control(from, s)
    PROVE  TypeInv'
BY DEF TypeInv, TypeOK, Control, Unlocked, doc, refs, memory, history, bounds

\* A tick that stores the record keeps the types.
LEMMA StoreType ==
    ASSUME TypeInv, NEW s \in Runs, NEW kind \in ActionKinds,
           s.rings = run.rings, s.ring <= Len(run.rings) + 1,
           Unlocked, Store(s, kind), proven' \in SUBSET Devices, emptied' \in SUBSET Nat
    PROVE  TypeInv'
<1>1. run' \in Runs /\ run'.rings = run.rings /\ run'.ring = s.ring
    BY NoteType DEF Store
<1> QED BY <1>1 DEF TypeInv, TypeOK, Store, Unlocked, doc, refs, memory, bounds

\* Every step of the service, the fleet and its people keeps the types.
LEMMA TypeStep == TypeInv /\ [Next]_vars => TypeInv'
<1> SUFFICES ASSUME TypeInv, [Next]_vars PROVE TypeInv'
    OBVIOUS
<1>t. TypeOK
    BY DEF TypeInv
<1>r. run \in Runs /\ Len(run.rings) \in Nat /\ run.ring \in Nat
  <2>1. run \in Runs
    BY <1>t DEF TypeOK
  <2>2. run.rings \in Seq(Ring) /\ run.ring \in Nat \ {0}
    BY <2>1 DEF Runs
  <2> QED BY <2>1, <2>2
<1>h. head \in Nat
    BY <1>t DEF TypeOK, head
<1>1. ASSUME NEW target \in Targets \cap 1..head, NEW scope \in Scopes, NEW expedited \in BOOLEAN,
             Start(target, scope, expedited)
      PROVE  TypeInv'
  <2>1. delivery' = delivery /\ auto' = auto /\ StartWith(target, scope, expedited, "operator")
    BY <1>1 DEF Start
  <2>2. delivery' \in SUBSET (Scopes \X Nat) /\ auto' \in Nat
    BY <1>t, <2>1 DEF TypeOK
  <2>3. target \in Nat /\ scope \in Seq(Groups)
    BY <1>h, ScopeAssumption
  <2> QED BY <2>1, <2>2, <2>3, StartType, Zenon
<1>2. ASSUME NEW kind \in CommitKinds, NEW scope \in Scopes, Merge(kind, scope)
      PROVE  TypeInv'
  <2>1. log' \in Seq({"edit", "risky", Machine})
    BY <1>2, <1>t, FleetAssumption DEF Merge, TypeOK
  <2>2. delivery' \in SUBSET (Scopes \X Nat)
    BY <1>2, <1>h DEF Merge
  <2> QED BY <1>2, <2>1, <2>2
      DEF TypeInv, TypeOK, Merge, Unlocked, refs, history
<1>3. ASSUME NEW d \in delivery, Deliver(d)
      PROVE  TypeInv'
  <2>1. d[1] \in Scopes /\ d[2] \in Nat
    BY <1>t DEF TypeOK
  <2>2. delivery' \in SUBSET (Scopes \X Nat) /\ auto' \in Nat
    BY <1>3, <1>t DEF Deliver, TypeOK
  <2>3. PICK target \in d[2]..head : StartWith(target, d[1], FALSE, "delivery")
    BY <1>3 DEF Deliver
  <2>4. target \in Nat /\ d[1] \in Seq(Groups)
    BY <1>h, <2>1, ScopeAssumption
  <2> QED BY <2>2, <2>3, <2>4, StartType, Zenon
<1>4. ASSUME NEW d \in delivery, DeliverRefused(d)
      PROVE  TypeInv'
    BY <1>4 DEF TypeInv, TypeOK, DeliverRefused, Unlocked, doc, refs, history, bounds
<1>5. CASE AutoCheck
    BY <1>5, <1>h DEF TypeInv, TypeOK, AutoCheck, Unlocked, doc, refs, history, bounds
<1>6. CASE AutoHold
  <2>1. riskHoldNotified' \in Nat
    BY <1>6, <1>h, <1>t DEF AutoHold, RiskySince, NonMachineCommitsSince, TypeOK
  <2> QED BY <1>6, <2>1 DEF TypeInv, TypeOK, AutoHold, Unlocked, doc, refs, history, bounds
<1>7. CASE AutoStart
  <2>1. StartWith(auto, <<>>, FALSE, "autoflow") /\ auto' = NoRev /\ delivery' = delivery
    BY <1>7 DEF AutoStart
  <2>2. delivery' \in SUBSET (Scopes \X Nat) /\ auto' \in Nat /\ auto \in Nat
    BY <1>t, <2>1 DEF TypeOK, NoRev
  <2>3. <<>> \in Seq(Groups)
    OBVIOUS
  <2> QED BY <2>1, <2>2, <2>3, StartType, Zenon
<1>8. CASE AutoRefused
    BY <1>8 DEF TypeInv, TypeOK, AutoRefused, Unlocked, NoRev, doc, refs, history, bounds
<1>9. CASE Operate
  <2>1. CASE Cancel
    <3> DEFINE s == [run EXCEPT !.status = "cancelled"]
    <3>1. s \in Runs /\ s.rings = run.rings /\ s.ring = run.ring
        BY <1>r, StatusUpdate
    <3>2. "done" \in ActionKinds
        BY DEF ActionKinds
    <3> HIDE DEF s
    <3>3. Note(s, "done") \in Runs /\ Note(s, "done").rings = run.rings
          /\ Note(s, "done").ring = run.ring
        BY <3>1, <3>2, NoteType
    <3>4. Control({"active", "paused", "halted"}, Note(s, "done"))
        BY <2>1 DEF Cancel, s
    <3> QED BY <3>3, <3>4, ControlType
  <2>2. CASE ApproveWave
    <3>1. Approve(run) \in Runs /\ Approve(run).rings = run.rings
          /\ Approve(run).ring = run.ring
        BY <1>r, ApproveUpdate
    <3> QED BY <2>2, <3>1, ControlType DEF ApproveWave
  <2>3. CASE Pause
    <3> DEFINE s == [run EXCEPT !.status = "paused"]
    <3>1. s \in Runs /\ s.rings = run.rings /\ s.ring = run.ring
        BY <1>r, StatusUpdate
    <3>2. Control({"active"}, s)
        BY <2>3 DEF Pause
    <3> HIDE DEF s
    <3> QED BY <3>1, <3>2, ControlType
  <2>4. CASE Resume
    <3> DEFINE s == [run EXCEPT !.status = "active"]
    <3>1. s \in Runs /\ s.rings = run.rings /\ s.ring = run.ring
        BY <1>r, StatusUpdate
    <3>2. Control({"paused"}, s)
        BY <2>4 DEF Resume
    <3> HIDE DEF s
    <3> QED BY <3>1, <3>2, ControlType
  <2> QED BY <1>9, <2>1, <2>2, <2>3, <2>4 DEF Operate
<1>10. CASE TickWait
  <2> DEFINE s == IF Converged(CurrentRing, CurrentStatus) /\ run.convergedAt[run.ring] = Never
                  THEN [run EXCEPT !.convergedAt[run.ring] = now] ELSE run
  <2>1. now \in Times
    BY <1>t DEF TypeOK, Times
  <2>2. s \in Runs /\ s.rings = run.rings /\ s.ring = run.ring
    BY <1>r, <2>1, ConvergedUpdate
  <2>3. Unlocked /\ Store(s, "wait") /\ proven' = proven /\ emptied' = emptied
    BY <1>10 DEF TickWait, Deciding
  <2>4. "wait" \in ActionKinds
    BY DEF ActionKinds
  <2>5. run.ring <= Len(run.rings) + 1 /\ proven' \in SUBSET Devices /\ emptied' \in SUBSET Nat
    BY <1>t, <2>3 DEF TypeOK
  <2> HIDE DEF s
  <2> QED BY <2>2, <2>3, <2>4, <2>5, StoreType
<1>11. CASE TickAwaitApproval
  <2>1. Unlocked /\ Store(run, "await-approval") /\ proven' = proven /\ emptied' = emptied
    BY <1>11 DEF TickAwaitApproval, Deciding
  <2>2. "await-approval" \in ActionKinds
    BY DEF ActionKinds
  <2>3. run.ring <= Len(run.rings) + 1 /\ proven' \in SUBSET Devices /\ emptied' \in SUBSET Nat
    BY <1>t, <2>1 DEF TypeOK
  <2> QED BY <1>r, <2>1, <2>2, <2>3, StoreType
<1>12. CASE TickAdvance
  <2> DEFINE s == [run EXCEPT !.ring = @ + 1]
  <2>1. Unlocked /\ Store(s, "advance") /\ proven' = proven
        /\ emptied' \in {emptied, emptied \cup {run.ring}}
    BY <1>12 DEF TickAdvance, Deciding
  <2>2. s \in Runs /\ s.rings = run.rings /\ s.ring = run.ring + 1
    <3>1. run.ring + 1 \in Nat \ {0}
        BY <1>r
    <3> QED BY <1>r, <3>1, RingUpdate
  <2>3. run.ring <= Len(run.rings)
    BY <1>12, <1>r, DecideAdvance DEF TickAdvance, Deciding
  <2>4. "advance" \in ActionKinds
    BY DEF ActionKinds
  <2>5. s.ring <= Len(run.rings) + 1 /\ proven' \in SUBSET Devices /\ emptied' \in SUBSET Nat
    BY <1>t, <1>r, <2>1, <2>2, <2>3 DEF TypeOK
  <2> HIDE DEF s
  <2> QED BY <2>1, <2>2, <2>4, <2>5, StoreType
<1>13. CASE TickHalt
  <2> DEFINE s == [run EXCEPT !.status = "halted"]
  <2>1. Unlocked /\ Store(s, "halt") /\ proven' = proven /\ emptied' = emptied
    BY <1>13 DEF TickHalt, Deciding
  <2>2. s \in Runs /\ s.rings = run.rings /\ s.ring = run.ring
    BY <1>r, StatusUpdate
  <2>3. "halt" \in ActionKinds
    BY DEF ActionKinds
  <2>4. run.ring <= Len(run.rings) + 1 /\ proven' \in SUBSET Devices /\ emptied' \in SUBSET Nat
    BY <1>t, <2>1 DEF TypeOK
  <2> HIDE DEF s
  <2> QED BY <2>1, <2>2, <2>3, <2>4, StoreType
<1>14. CASE TickDone
  <2> DEFINE s == [run EXCEPT !.status = "completed"]
  <2>1. Unlocked /\ Store(s, "done") /\ proven' = proven /\ emptied' = emptied
    BY <1>14 DEF TickDone, Deciding
  <2>2. s \in Runs /\ s.rings = run.rings /\ s.ring = run.ring
    BY <1>r, StatusUpdate
  <2>3. "done" \in ActionKinds
    BY DEF ActionKinds
  <2>4. run.ring <= Len(run.rings) + 1 /\ proven' \in SUBSET Devices /\ emptied' \in SUBSET Nat
    BY <1>t, <2>1 DEF TypeOK
  <2> HIDE DEF s
  <2> QED BY <2>1, <2>2, <2>3, <2>4, StoreType
<1>15. CASE TickBuildFailed
  <2> DEFINE s == [run EXCEPT !.status = "halted"]
  <2>1. s \in Runs /\ s.rings = run.rings /\ s.ring = run.ring
    BY <1>r, StatusUpdate
  <2>2. run' = s /\ Unlocked
    BY <1>15 DEF TickBuildFailed, Deciding
  <2> HIDE DEF s
  <2> QED BY <1>15, <2>1, <2>2
      DEF TypeInv, TypeOK, TickBuildFailed, Unlocked, doc, refs, memory, history, bounds
<1>16. CASE TickPromote
  <2>1. run.status = "active" /\ run.ring <= Len(run.rings)
    BY <1>16, <1>r, DecideOther DEF TickPromote, Deciding
  <2>2. GroupList(CurrentRing) \in Seq(Groups)
    BY <1>t, <2>1, CurrentRingType
  <2>3. tick' \in Ticks
    BY <1>16, <1>t, <2>2 DEF TickPromote, Ticks, TypeOK
  <2> QED BY <1>16, <2>1, <2>3
      DEF TypeInv, TypeOK, TickPromote, doc, refs, history, bounds
<1>17. CASE TickWiden
  <2>1. run.status = "active" /\ run.ring <= Len(run.rings)
    BY <1>17, <1>r, DecideOther DEF TickWiden, Deciding
  <2>2. GroupsOf(CurrentRing) \subseteq Groups
    BY <1>t, <2>1, CurrentRingType
  <2>3. Cohort(CurrentRing) \in SUBSET (Devices \X Groups)
    BY <2>2 DEF Cohort
  <2>4. tick' \in Ticks
    BY <1>17, <1>t, <2>3 DEF TickWiden, Ticks, TypeOK
  <2>5. proven' \in SUBSET Devices
    <3>1. \A g \in Groups : ReleasedGroupDevices(g) \subseteq Devices
        BY FleetAssumption
        DEF ReleasedGroupDevices, ConvergingGroupDevices, ActiveGroupDevices
    <3>2. proven' = proven \cup UNION {ReleasedGroupDevices(g) : g \in GroupsOf(CurrentRing)}
        BY <1>17 DEF TickWiden
    <3>3. proven \in SUBSET Devices
        BY <1>t DEF TypeOK
    <3> QED BY <2>2, <3>1, <3>2, <3>3
  <2> QED BY <1>17, <2>1, <2>4, <2>5
      DEF TypeInv, TypeOK, TickWiden, doc, refs, bounds
<1>l. ASSUME ~Unlocked
      PROVE  /\ run.status = "active" /\ run.ring <= Len(run.rings)
             /\ run.target \in Nat
    BY <1>l, <1>r DEF TypeInv, Runs
<1>18. CASE PinGroup
  <2>1. ~Unlocked /\ tick.todo \in Seq(Groups) /\ tick.todo # <<>>
    BY <1>18, <1>t DEF PinGroup, Unlocked, TypeOK, Ticks
  <2>2. Head(tick.todo) \in Groups /\ Tail(tick.todo) \in Seq(Groups)
    BY <2>1
  <2>3. tick' \in Ticks /\ tick'.pc = tick.pc
    BY <1>18, <1>t, <2>2 DEF PinGroup, TypeOK, Ticks
  <2>4. groupPin' \in [Groups -> Nat]
    BY <1>18, <1>t, <1>l, <2>1, <2>2 DEF PinGroup, TypeOK
  <2>5. log' \in Seq({"edit", "risky", Machine})
    BY <1>18, <1>t DEF PinGroup, TypeOK
  <2> QED BY <1>18, <1>l, <2>1, <2>3, <2>4, <2>5
      DEF TypeInv, TypeOK, PinGroup, refs, history, bounds
<1>19. CASE PickCohort
  <2>1. ~Unlocked
    BY <1>19 DEF PickCohort, Unlocked
  <2>2. GroupsOf(CurrentRing) \subseteq Groups
    BY <1>t, <1>l, <2>1, CurrentRingType
  <2>3. Cohort(CurrentRing) \in SUBSET (Devices \X Groups)
    BY <2>2 DEF Cohort
  <2>4. tick' \in Ticks
    BY <1>19, <1>t, <2>3 DEF PickCohort, TypeOK, Ticks
  <2> QED BY <1>19, <1>l, <2>1, <2>4
      DEF TypeInv, TypeOK, PickCohort, doc, refs, history, bounds
<1>20. CASE ReleaseDevice
  <2>1. ~Unlocked
    BY <1>20 DEF ReleaseDevice, Unlocked
  <2>2. PICK p \in tick.batch :
            /\ devPin' = [devPin EXCEPT ![p[1]] = p[2]]
            /\ log' = IF devPin[p[1]] = p[2] THEN log ELSE Append(log, Machine)
            /\ tick' = [tick EXCEPT !.batch = @ \ {p}]
    BY <1>20 DEF ReleaseDevice
  <2>3. p[1] \in Devices /\ p[2] \in Groups
    BY <1>t DEF TypeOK, Ticks
  <2>4. tick' \in Ticks
    BY <1>t, <2>2 DEF TypeOK, Ticks
  <2>5. devPin' \in [Devices -> Groups \cup {NoGroup}] /\ log' \in Seq({"edit", "risky", Machine})
    BY <1>t, <2>2, <2>3 DEF TypeOK
  <2> QED BY <1>20, <1>l, <2>1, <2>4, <2>5
      DEF TypeInv, TypeOK, ReleaseDevice, refs, history, bounds
<1>21. CASE CohortReleased
  <2>1. ~Unlocked
    BY <1>21 DEF CohortReleased, Unlocked
  <2>2. GroupList(CurrentRing) \in Seq(Groups)
    BY <1>t, <1>l, <2>1, CurrentRingType
  <2>3. tick' \in Ticks
    BY <1>21, <1>t, <2>2 DEF CohortReleased, TypeOK, Ticks
  <2> QED BY <1>21, <1>l, <2>1, <2>3
      DEF TypeInv, TypeOK, CohortReleased, doc, refs, history, bounds
<1>22. CASE MoveRef
  <2>1. ~Unlocked /\ tick.todo \in Seq(Groups) /\ tick.todo # <<>>
    BY <1>22, <1>t DEF MoveRef, Unlocked, TypeOK, Ticks
  <2>2. Tail(tick.todo) \in Seq(Groups)
    BY <2>1
  <2>3. tick' \in Ticks
    BY <1>22, <1>t, <2>2 DEF MoveRef, TypeOK, Ticks
  <2>4. localRef' \in [Groups -> Nat] /\ remoteRef' \in [Groups -> Nat]
    BY <1>22, <1>t, <1>l, <2>1 DEF MoveRef, moveRingRef, TypeOK
  <2>5. placed' \in [Groups -> Nat]
    BY <1>22, <1>t DEF MoveRef, TypeOK, NoRev
  <2> QED BY <1>22, <1>l, <2>1, <2>3, <2>4, <2>5
      DEF TypeInv, TypeOK, MoveRef, doc, bounds
<1>23. CASE PutTick
  <2>1. ~Unlocked /\ tick' = Idle
    BY <1>23 DEF PutTick, Unlocked
  <2>2. tick.at \in Times /\ Never \in Times
    BY <1>t DEF TypeOK, Ticks, Times
  <2>3. "promote" \in ActionKinds /\ "widen-cohort" \in ActionKinds
    BY DEF ActionKinds
  <2>4. run' \in Runs /\ run'.rings = run.rings /\ run'.ring = run.ring
    <3>1. CASE tick.kind = "promote"
      <4> DEFINE s == [run EXCEPT !.promotedAt[run.ring] = tick.at]
      <4>1. s \in Runs /\ s.rings = run.rings /\ s.ring = run.ring
        BY <1>r, <2>2, PromotedUpdate
      <4>2. run' = Note(s, "promote")
        BY <1>23, <3>1 DEF PutTick
      <4> HIDE DEF s
      <4> QED BY <2>3, <4>1, <4>2, NoteType
    <3>2. CASE tick.kind # "promote"
      <4> DEFINE s == [run EXCEPT !.convergedAt[run.ring] = Never]
      <4>1. s \in Runs /\ s.rings = run.rings /\ s.ring = run.ring
        BY <1>r, <2>2, ConvergedUpdate
      <4>2. run' = Note(s, "widen-cohort")
        BY <1>23, <3>2 DEF PutTick
      <4> HIDE DEF s
      <4> QED BY <2>3, <4>1, <4>2, NoteType
    <3> QED BY <3>1, <3>2
  <2>5. tick' \in Ticks /\ Unlocked'
    BY <2>1 DEF Idle, Ticks, Unlocked
  <2> QED BY <1>23, <2>4, <2>5
      DEF TypeInv, TypeOK, PutTick, doc, refs, history, bounds
<1>i. Idle \in Ticks /\ Idle.pc = "idle"
    BY DEF Idle, Ticks
<1>24. CASE TickFails
  <2>1. ~Unlocked /\ tick' = Idle
    BY <1>24 DEF TickFails
  <2>2. localRef' \in [Groups -> Nat]
    BY <1>24, <1>t, <1>l, <2>1 DEF TickFails, TypeOK
  <2> QED BY <1>24, <1>i, <2>1, <2>2
      DEF TypeInv, TypeOK, TickFails, Fault, Unlocked, doc, history
<1>e. NoEnrol \in Enrols /\ NoEnrol.pc = "none"
    BY DEF NoEnrol, Enrols, NoRev
<1>25. CASE Crash
    BY <1>25, <1>i, <1>e DEF TypeInv, TypeOK, Crash, Fault, Unlocked, NoRev, doc, refs, history
<1>f. ASSUME NEW ref \in [Groups -> Nat], NEW moved, NEW rev \in Nat
      PROVE  Following(ref, moved, rev) \in [Groups -> Nat]
    BY DEF Following
<1>n. NoRev \in Nat
    BY DEF NoRev
<1>26. CASE FollowHead
  <2>1. /\ localRef' \in [Groups -> Nat] /\ remoteRef' \in [Groups -> Nat]
        /\ placed' \in [Groups -> Nat]
    BY <1>26, <1>t, <1>f, <1>h, <1>n DEF FollowHead, TypeOK
  <2> QED BY <1>26, <2>1
      DEF TypeInv, TypeOK, FollowHead, Unlocked, doc, memory, bounds
<1>27. CASE FollowHeadFails
  <2>1. PICK p \in Unpinned :
            /\ localRef'  = Following(localRef, {q \in Unpinned : UpTo(q, p)}, head)
            /\ remoteRef' = Following(remoteRef, {q \in Unpinned : UpTo(q, p) /\ q # p}, head)
            /\ placed'    = Following(placed, {q \in Unpinned : UpTo(q, p) /\ q # p}, NoRev)
    BY <1>27 DEF FollowHeadFails
  <2>2. /\ localRef \in [Groups -> Nat] /\ remoteRef \in [Groups -> Nat]
        /\ placed \in [Groups -> Nat]
    BY <1>t DEF TypeOK
  <2>3. /\ localRef' \in [Groups -> Nat] /\ remoteRef' \in [Groups -> Nat]
        /\ placed' \in [Groups -> Nat]
    BY <2>1, <2>2, <1>f, <1>h, <1>n
  <2> QED BY <1>27, <2>3
      DEF TypeInv, TypeOK, FollowHeadFails, Fault, Unlocked, doc, memory
<1>28. ASSUME NEW p \in Plans, EditPlan(p)
       PROVE  TypeInv'
    BY <1>28 DEF TypeInv, TypeOK, EditPlan, Commit, Unlocked, refs, memory, history
<1>29. ASSUME NEW g \in Groups, Unpin(g)
       PROVE  TypeInv'
  <2>1. groupPin' \in [Groups -> Nat] /\ log' \in Seq({"edit", "risky", Machine}) /\ edits' \in Nat
    BY <1>29, <1>t DEF Unpin, Commit, TypeOK, NoRev
  <2> QED BY <1>29, <2>1 DEF TypeInv, TypeOK, Unpin, Commit, Unlocked, refs, memory, history
<1>30. ASSUME NEW d \in Devices, Retire(d)
       PROVE  TypeInv'
    BY <1>30 DEF TypeInv, TypeOK, Retire, Commit, Unlocked, refs, memory, history
<1>36. ASSUME NEW d \in Devices, Reactivate(d)
       PROVE  TypeInv'
    BY <1>36 DEF TypeInv, TypeOK, Reactivate, Commit, Unlocked, refs, memory, history
<1>31. ASSUME NEW d \in Devices, Fade(d)
       PROVE  TypeInv'
  <2>1. obs' \in [Devices -> [rev : Nat, cond : {"ok", "broken", "quiet", "absent"}]]
    BY <1>31, <1>t DEF Fade, TypeOK
  <2> QED BY <1>31, <2>1
      DEF TypeInv, TypeOK, Fade, Unlocked, doc, refs, memory, history, bounds
<1>32. ASSUME NEW d \in Devices, NEW cond \in {"ok", "broken"}, CheckIn(d, cond)
       PROVE  TypeInv'
  <2>1. Offered(d) \subseteq Nat
    <3>1. \A i \in ReleasingWaves(d) : plan[i].group \in Groups
      <4>1. plan \in Seq(Ring)
        BY <1>t, PlanAssumption DEF TypeOK
      <4>2. \A r \in Ring : r.group \in Groups \cup {NoGroup}
        BY DEF Ring
      <4> QED BY <4>1, <4>2 DEF ReleasingWaves
    <3>2. remoteRef \in [Groups -> Nat]
        BY <1>t DEF TypeOK
    <3> QED BY <1>h, <3>1, <3>2 DEF Offered
  <2>4. Adopted(d) \subseteq Nat
    BY <1>t, <2>1 DEF Adopted, TypeOK
  <2>2. obs' \in [Devices -> [rev : Nat, cond : {"ok", "broken", "quiet", "absent"}]]
    BY <1>32, <1>t, <2>4 DEF CheckIn, TypeOK
  <2>3. log' \in Seq({"edit", "risky", Machine})
        /\ life' \in [Devices -> {"provisional", "active", "retired", "removed"}]
    BY <1>32, <1>t DEF CheckIn, TypeOK
  <2> QED BY <1>32, <2>2, <2>3
      DEF TypeInv, TypeOK, CheckIn, Unlocked, refs, memory, history, bounds
<1>35. ASSUME NEW stale \in SUBSET Late, ReapAbandonedEnrolments(stale)
       PROVE  TypeInv'
  <2>1. log' \in Seq({"edit", "risky", Machine})
        /\ life' \in [Devices -> {"provisional", "active", "retired", "removed"}]
    BY <1>35, <1>t DEF ReapAbandonedEnrolments, TypeOK
  <2> QED BY <1>35, <2>1
      DEF TypeInv, TypeOK, ReapAbandonedEnrolments, Unlocked, refs, memory, history, bounds
<1>37. ASSUME NEW d \in Late, Enrol(d)
       PROVE  TypeInv'
  <2>1. d \in Devices /\ d \in Nat
    BY FleetAssumption
  <2>2. log' \in Seq({"edit", "risky", Machine})
        /\ life' \in [Devices -> {"provisional", "active", "retired", "removed"}]
    <3>1. log' = Append(log, "edit") /\ life' = [life EXCEPT ![d] = "provisional"]
      BY <1>37 DEF Enrol
    <3>2. /\ log \in Seq({"edit", "risky", Machine})
          /\ life \in [Devices -> {"provisional", "active", "retired", "removed"}]
      BY <1>t DEF TypeOK
    <3>3. log' \in Seq({"edit", "risky", Machine})
      BY <3>1, <3>2
    <3> QED BY <3>1, <3>2, <3>3
  <2>4. edits' \in Nat
    BY <1>37, <1>t DEF Enrol, TypeOK
  <2>3. enrol' \in Enrols /\ enrol'.d \in Devices /\ enrol'.rev # NoRev
    <3>1. enrol' = [pc |-> "committed", d |-> d, rev |-> head + 1, todo |-> {}]
      BY <1>37 DEF Enrol
    <3>2. head + 1 \in Nat /\ head + 1 # NoRev
      BY <1>h DEF NoRev
    <3> QED BY <2>1, <3>1, <3>2 DEF Enrols
  <2> QED BY <1>37, <2>2, <2>3, <2>4
      DEF TypeInv, TypeOK, Enrol, Unlocked, refs, history
<1>q. enrol \in Enrols /\ (enrol.pc # "none" => enrol.d \in Devices /\ enrol.rev # NoRev)
    BY <1>t DEF TypeOK
<1>38. CASE EnsureRingsContain
  <2>1. PICK rev \in enrol.rev..head :
          enrol' = [enrol EXCEPT !.pc = "rings", !.rev = rev,
                    !.todo = {g \in Groups : /\ life[enrol.d] # "removed"
                                             /\ enrol.d \in Members[g]
                                             /\ groupPin[g] \notin {NoRev, rev}}]
    BY <1>38 DEF EnsureRingsContain
  <2>2. rev \in Nat /\ rev # NoRev
    BY <1>38, <1>q, <1>h DEF Enrols, EnsureRingsContain, NoRev
  <2>3. enrol' \in Enrols /\ enrol'.d \in Devices /\ enrol'.rev # NoRev
    BY <1>38, <1>q, <2>1, <2>2 DEF EnsureRingsContain, Enrols
  <2> QED BY <1>38, <2>3
      DEF TypeInv, TypeOK, EnsureRingsContain, Unlocked, doc, refs, history, bounds
<1>39. ASSUME NEW g \in Groups, AdvanceRing(g)
       PROVE  TypeInv'
  <2>1. /\ enrol' \in Enrols /\ enrol'.d = enrol.d /\ enrol'.pc = enrol.pc
        /\ enrol'.rev = enrol.rev /\ enrol.rev \in Nat
    BY <1>39, <1>q DEF AdvanceRing, Enrols
  <2>2. /\ localRef' \in [Groups -> Nat] /\ remoteRef' \in [Groups -> Nat]
        /\ placed' \in [Groups -> Nat]
    BY <1>39, <1>t, <2>1 DEF AdvanceRing, TypeOK
  <2> QED BY <1>39, <1>q, <2>1, <2>2 DEF TypeInv, TypeOK, AdvanceRing, Unlocked, doc, bounds
<1>40. ASSUME NEW g \in Groups, AdvanceRingFails(g)
       PROVE  TypeInv'
  <2>1. enrol.rev \in Nat
    BY <1>q DEF Enrols
  <2>2. localRef' \in [Groups -> Nat]
    BY <1>40, <1>t, <2>1 DEF AdvanceRingFails, TypeOK
  <2>3. faults' \in Nat /\ enrol' = NoEnrol
    BY <1>40, <1>t DEF AdvanceRingFails, Fault, TypeOK
  <2>4. UNCHANGED <<log, plan, groupPin, devPin, life, remoteRef, obs, run, tick, delivery, auto,
                    riskHoldNotified, now, base, proven, emptied, placed, starts, edits>>
    BY <1>40 DEF AdvanceRingFails, doc, history
  <2> QED BY <1>t, <1>e, <2>2, <2>3, <2>4 DEF TypeInv, TypeOK, Unlocked
<1>41. CASE RefuseRing
    BY <1>41, <1>e DEF TypeInv, TypeOK, RefuseRing, Unlocked, doc, refs, history, bounds
<1>42. CASE DispatchImage
  <2>1. enrol.d \in Devices /\ enrol.rev \in Nat
    BY <1>42, <1>q DEF DispatchImage, Enrols
  <2>2. obs' \in [Devices -> [rev : Nat, cond : {"ok", "broken", "quiet", "absent"}]]
    BY <1>42, <1>t, <2>1 DEF DispatchImage, TypeOK
  <2> QED BY <1>42, <1>e, <2>2
      DEF TypeInv, TypeOK, DispatchImage, Unlocked, doc, refs, history, bounds
<1>33. CASE Clock
    BY <1>33 DEF TypeInv, TypeOK, Clock, Unlocked, doc, refs, memory, history, bounds
<1>34. CASE UNCHANGED vars
    BY <1>34 DEF TypeInv, TypeOK, Unlocked, vars, doc, refs, memory, history, bounds
<1> QED
    BY <1>1, <1>2, <1>3, <1>4, <1>5, <1>6, <1>7, <1>8, <1>9, <1>10, <1>11, <1>12, <1>13,
       <1>14, <1>15, <1>16, <1>17, <1>18, <1>19, <1>20, <1>21, <1>22, <1>23, <1>24, <1>25,
       <1>26, <1>27, <1>28, <1>29, <1>30, <1>31, <1>32, <1>33, <1>34, <1>35,
       <1>36, <1>37, <1>38, <1>39, <1>40, <1>41, <1>42
    DEF Next, Tick, AutoFlow, Enrolment

\* The record, the document, the branches and the tick are well typed in every
\* reachable state: a run's waves fit its record, its wave index never runs more
\* than one past them, and no tick touches a group that does not exist.
THEOREM TypeCorrect == Spec => []TypeOK
<1>1. TypeInv => TypeOK
    BY DEF TypeInv
<1> QED BY TypeInit, TypeStep, <1>1, PTL DEF Spec

(***************************************************************************)
(* The order of the waves.                                                 *)
(***************************************************************************)
\* Wave i's soak was over at time t, or the wave was left because it was empty.
Waited(i, t) == i \in emptied \/ t >= run.promotedAt[i] + run.rings[i].soak

\* Where each wave stands relative to the current one: the earlier ones are
\* promoted, soaked and signed off, the later ones untouched; a convergence is
\* never recorded before the promotion it follows.
WaveInv ==
    \A i \in RingIds :
        /\ run.promotedAt[i] <= now
        /\ i > run.ring => run.promotedAt[i] = Never
        /\ i < run.ring => /\ run.promotedAt[i] # Never
                           /\ Waited(i, now)
                           /\ run.rings[i].requireApproval => i \in run.approved \cup emptied
        /\ run.convergedAt[i] # Never =>
                run.promotedAt[i] # Never /\ run.convergedAt[i] >= run.promotedAt[i]

\* What a promotion under way knows: the time it will record is one by which
\* every earlier wave had been waited for.
TickInv ==
    ~Unlocked /\ tick.kind = "promote" =>
        /\ tick.at <= now
        /\ run.promotedAt[run.ring] = Never
        /\ \A i \in RingIds : i < run.ring => Waited(i, tick.at)

WavesInv == TypeInv /\ WaveInv /\ TickInv /\ WavesSpaced

\* No wave is promoted when the service starts.
LEMMA WavesInit == Init => WavesInv
<1> SUFFICES ASSUME Init PROVE WaveInv /\ TickInv /\ WavesSpaced
    BY TypeInit DEF WavesInv
<1>1. run.ring = 1 /\ \A i \in RingIds : run.promotedAt[i] = Never /\ run.convergedAt[i] = Never
    BY DEF Init, NoRun, NewState
<1>2. Unlocked /\ now = 0
    BY DEF Init, Idle, Unlocked
<1>3. WaveInv
    BY <1>1, <1>2, SoakAssumption DEF WaveInv, Never, RingIds
<1>4. TickInv /\ WavesSpaced
    BY <1>1, <1>2 DEF TickInv, WavesSpaced
<1> QED BY <1>3, <1>4

\* The numbers in the record that the wave order compares.
LEMMA WaveTypes ==
    ASSUME TypeOK
    PROVE  /\ now \in Nat /\ run \in Runs /\ run.ring \in Nat \ {0}
           /\ Len(run.rings) \in Nat /\ Len(run.rings) <= MaxRings
           /\ run.ring <= Len(run.rings) => run.ring \in RingIds
           /\ \A i \in RingIds : i \in Nat
           /\ run.promotedAt \in [RingIds -> Times] /\ run.convergedAt \in [RingIds -> Times]
           /\ \A i \in RingIds : run.promotedAt[i] \in Int /\ run.convergedAt[i] \in Int
           /\ \A i \in RingIds : i < run.ring \/ i <= Len(run.rings) =>
                    run.rings[i] \in Ring /\ run.rings[i].soak \in Nat
<1>1. /\ now \in Nat /\ run \in Runs /\ run.ring <= Len(run.rings) + 1
      /\ Len(run.rings) <= MaxRings
    BY DEF TypeOK
<1>2. /\ run.promotedAt \in [RingIds -> Times] /\ run.convergedAt \in [RingIds -> Times]
      /\ run.rings \in Seq(Ring) /\ run.ring \in Nat \ {0}
    BY <1>1 DEF Runs
<1>3. \A i \in RingIds : run.promotedAt[i] \in Int /\ run.convergedAt[i] \in Int
    BY <1>2 DEF Times, Never
<1>4. \A i \in RingIds : i < run.ring \/ i <= Len(run.rings) => i \in 1..Len(run.rings)
    BY <1>1, <1>2, SoakAssumption DEF RingIds
<1>5. \A i \in 1..Len(run.rings) : run.rings[i] \in Ring
    BY <1>2
<1>6. \A r \in Ring : r.soak \in Nat
    BY DEF Ring
<1>7. Len(run.rings) \in Nat /\ \A i \in RingIds : i \in Nat
    BY <1>2, SoakAssumption DEF RingIds
<1>8. run.ring <= Len(run.rings) => run.ring \in RingIds
    BY <1>1, <1>2, <1>7, SoakAssumption DEF RingIds
<1> QED BY <1>1, <1>2, <1>3, <1>4, <1>5, <1>6, <1>7, <1>8

\* Steps that leave the record alone, let the clock run or end the tick.
LEMMA WavesFrame ==
    ASSUME WavesInv, TypeInv', run' = run, emptied' = emptied,
           now' = now \/ now' = now + 1,
           tick' = tick \/ Unlocked'
    PROVE  WavesInv'
<1>1. TypeOK
    BY DEF WavesInv, TypeInv
<1>2. \A i \in RingIds : i < run.ring /\ Waited(i, now) => Waited(i, now)'
    BY <1>1, WaveTypes DEF Waited
<1>3. \A i \in RingIds : run.promotedAt[i] <= now => run'.promotedAt[i] <= now'
    BY <1>1, WaveTypes
<1>4. WaveInv'
    BY <1>2, <1>3 DEF WavesInv, WaveInv
<1>5. ~Unlocked' => ~Unlocked /\ tick' = tick
    BY DEF Unlocked
<1>6. ~Unlocked /\ tick.at <= now => tick.at <= now'
  <2>1. tick.at \in Nat
    BY <1>1 DEF TypeOK, Ticks
  <2> QED BY <1>1, <2>1, WaveTypes
<1>7. TickInv'
    BY <1>5, <1>6 DEF WavesInv, TickInv, Waited
<1>8. WavesSpaced'
    BY DEF WavesInv, WavesSpaced
<1> QED BY <1>4, <1>7, <1>8 DEF WavesInv

\* Steps under the mutex that keep the waves and the times of the record.
LEMMA WavesControl ==
    ASSUME WavesInv, TypeInv', Unlocked, Unlocked', now' = now, emptied' = emptied,
           run'.rings = run.rings, run'.ring = run.ring,
           run.approved \subseteq run'.approved,
           run'.promotedAt = run.promotedAt, run'.convergedAt = run.convergedAt
    PROVE  WavesInv'
<1>1. WaveInv'
    BY DEF WavesInv, WaveInv, Waited
<1>2. TickInv' /\ WavesSpaced'
    BY DEF WavesInv, TickInv, WavesSpaced
<1> QED BY <1>1, <1>2 DEF WavesInv

\* StartWith: a fresh run has promoted nothing.
LEMMA WavesStart ==
    ASSUME WavesInv, TypeInv', NEW target, NEW scope, NEW expedited, NEW origin,
           StartWith(target, scope, expedited, origin)
    PROVE  WavesInv'
<1>1. /\ run'.ring = 1
      /\ \A i \in RingIds : run'.promotedAt[i] = Never /\ run'.convergedAt[i] = Never
    BY DEF StartWith, NewState
<1>2. Unlocked' /\ now' = now /\ now \in Nat
    BY DEF StartWith, Unlocked, WavesInv, TypeInv, TypeOK
<1>3. WaveInv'
    BY <1>1, <1>2, SoakAssumption DEF WaveInv, Never, RingIds
<1>4. TickInv' /\ WavesSpaced'
    BY <1>1, <1>2 DEF TickInv, WavesSpaced
<1> QED BY <1>3, <1>4 DEF WavesInv

\* A tick that has locked the service and not stored anything yet.
LEMMA WavesInTick ==
    ASSUME WavesInv, TypeInv', ~Unlocked, run' = run, emptied' = emptied, now' = now,
           tick'.kind = tick.kind, tick'.at = tick.at
    PROVE  WavesInv'
<1>1. WaveInv'
    BY DEF WavesInv, WaveInv, Waited
<1>2. TickInv'
    BY DEF WavesInv, TickInv, Waited
<1>3. WavesSpaced'
    BY DEF WavesInv, WavesSpaced
<1> QED BY <1>1, <1>2, <1>3 DEF WavesInv

\* A waiting tick may start the soak clock of the promoted current wave, now.
LEMMA WavesWait ==
    ASSUME WavesInv, TypeInv', TickWait
    PROVE  WavesInv'
<1>1. TypeOK
    BY DEF WavesInv, TypeInv
<1>2. /\ Unlocked /\ Unlocked' /\ now' = now /\ emptied' = emptied
    BY DEF TickWait, Deciding, Store, memory, Unlocked
<1> DEFINE s == IF Converged(CurrentRing, CurrentStatus) /\ run.convergedAt[run.ring] = Never
                THEN [run EXCEPT !.convergedAt[run.ring] = now] ELSE run
<1>3. run' = Note(s, "wait") /\ "wait" \in ActionKinds
    BY DEF TickWait, Store, ActionKinds
<1>4. now \in Times /\ now \in Nat /\ run \in Runs
    BY <1>1 DEF TypeOK, Times
<1>5. /\ s \in Runs /\ s.rings = run.rings /\ s.ring = run.ring /\ s.approved = run.approved
      /\ s.promotedAt = run.promotedAt
      /\ s.convergedAt \in {run.convergedAt, [run.convergedAt EXCEPT ![run.ring] = now]}
    BY <1>4, ConvergedUpdate
<1> HIDE DEF s
<1>6. /\ run'.rings = run.rings /\ run'.ring = run.ring /\ run'.approved = run.approved
      /\ run'.promotedAt = run.promotedAt
      /\ run'.convergedAt \in {run.convergedAt, [run.convergedAt EXCEPT ![run.ring] = now]}
    BY <1>3, <1>5, NoteType
<1>7. run.promotedAt[run.ring] # Never
    BY DecideWait DEF TickWait, Deciding
<1>8. \A i \in RingIds : run'.convergedAt[i] = run.convergedAt[i]
                          \/ (i = run.ring /\ run'.convergedAt[i] = now)
    BY <1>1, <1>6, WaveTypes
<1>9. \A i \in RingIds : run'.convergedAt[i] # Never =>
            run'.promotedAt[i] # Never /\ run'.convergedAt[i] >= run'.promotedAt[i]
    BY <1>1, <1>6, <1>7, <1>8, WaveTypes DEF WavesInv, WaveInv
<1>10. WaveInv'
    BY <1>2, <1>6, <1>9 DEF WavesInv, WaveInv, Waited
<1>11. TickInv' /\ WavesSpaced'
    BY <1>2, <1>6 DEF WavesInv, TickInv, WavesSpaced
<1> QED BY <1>10, <1>11 DEF WavesInv

\* Advance: the soak counts from the convergence, which is not before the
\* promotion, so the soak after the promotion has passed too.
LEMMA WavesAdvance ==
    ASSUME WavesInv, TypeInv', TickAdvance
    PROVE  WavesInv'
<1>1. TypeOK
    BY DEF WavesInv, TypeInv
<1>2. /\ Unlocked /\ Unlocked' /\ now' = now /\ emptied \subseteq emptied'
    BY DEF TickAdvance, Deciding, Store, memory, Unlocked
<1> DEFINE s == [run EXCEPT !.ring = @ + 1]
<1>3. run' = Note(s, "advance") /\ "advance" \in ActionKinds
    BY DEF TickAdvance, Store, ActionKinds
<1>4. run \in Runs /\ run.ring + 1 \in Nat \ {0}
    BY <1>1, WaveTypes
<1>5. /\ s \in Runs /\ s.rings = run.rings /\ s.ring = run.ring + 1 /\ s.approved = run.approved
      /\ s.promotedAt = run.promotedAt /\ s.convergedAt = run.convergedAt
    BY <1>4, RingUpdate
<1> HIDE DEF s
<1>6. /\ run'.rings = run.rings /\ run'.ring = run.ring + 1 /\ run'.approved = run.approved
      /\ run'.promotedAt = run.promotedAt /\ run'.convergedAt = run.convergedAt
    BY <1>3, <1>5, NoteType
<1>7. /\ run.promotedAt[run.ring] # Never
      /\ run.ring <= Len(run.rings)
      /\ \/ CurrentStatus.total = 0
         \/ /\ run.convergedAt[run.ring] # Never
            /\ Soaked(CurrentRing, run, now)
            /\ ~NeedsApproval(CurrentRing, run)
  <2>1. Decide(run.rings, run, CurrentStatus, now) = "advance"
    BY DEF TickAdvance, Deciding
  <2>2. Len(run.rings) \in Nat /\ run.ring \in Nat
    BY <1>1, WaveTypes
  <2> QED BY <2>1, <2>2, DecideAdvance DEF CurrentRing
<1>8. run.ring \in RingIds
    BY <1>1, <1>7, WaveTypes
\* The wave that is left has soaked and been signed off, or was empty.
<1>9. run.ring \in emptied' \/
        /\ now >= run.promotedAt[run.ring] + run.rings[run.ring].soak
        /\ run.rings[run.ring].requireApproval => run.ring \in run.approved
  <2>1. CASE CurrentStatus.total = 0
    BY <2>1 DEF TickAdvance
  <2>2. CASE CurrentStatus.total # 0
    <3>1. run.convergedAt[run.ring] >= run.promotedAt[run.ring]
        BY <1>7, <1>8, <2>2 DEF WavesInv, WaveInv
    <3>2. now - run.convergedAt[run.ring] >= run.rings[run.ring].soak
        BY <1>7, <2>2 DEF Soaked, CurrentRing
    <3>3. /\ now \in Int /\ run.convergedAt[run.ring] \in Int /\ run.promotedAt[run.ring] \in Int
          /\ run.rings[run.ring].soak \in Int
        BY <1>1, <1>7, <1>8, WaveTypes
    <3>4. now >= run.promotedAt[run.ring] + run.rings[run.ring].soak
        BY <3>1, <3>2, <3>3
    <3>5. run.rings[run.ring].requireApproval => run.ring \in run.approved
        BY <1>7, <2>2 DEF NeedsApproval, CurrentRing
    <3> QED BY <3>4, <3>5
  <2> QED BY <2>1, <2>2
<1>10. ASSUME NEW i \in RingIds, i < run.ring + 1
       PROVE  /\ run.promotedAt[i] # Never
              /\ i \in emptied' \/ now >= run.promotedAt[i] + run.rings[i].soak
              /\ run.rings[i].requireApproval => i \in run.approved \cup emptied'
  <2>1. CASE i = run.ring
    BY <1>7, <1>9, <2>1
  <2>2. CASE i < run.ring
    BY <1>2, <2>2 DEF WavesInv, WaveInv, Waited
  <2>3. i \in Nat /\ run.ring \in Nat
    BY <1>1, WaveTypes
  <2> QED BY <1>10, <2>1, <2>2, <2>3
<1>11. WaveInv'
  <2> SUFFICES ASSUME NEW i \in RingIds
               PROVE  /\ run'.promotedAt[i] <= now'
                      /\ i > run'.ring => run'.promotedAt[i] = Never
                      /\ i < run'.ring =>
                            /\ run'.promotedAt[i] # Never
                            /\ Waited(i, now)'
                            /\ run'.rings[i].requireApproval => i \in run'.approved \cup emptied'
                      /\ run'.convergedAt[i] # Never =>
                            run'.promotedAt[i] # Never /\ run'.convergedAt[i] >= run'.promotedAt[i]
    BY DEF WaveInv
  <2>1. i > run.ring + 1 => i > run.ring
    BY <1>1, WaveTypes
  <2>2. i < run'.ring => Waited(i, now)'
    BY <1>2, <1>6, <1>10 DEF Waited
  <2> QED BY <1>2, <1>6, <1>10, <2>1, <2>2 DEF WavesInv, WaveInv
<1>12. TickInv'
    BY <1>2 DEF TickInv
<1>13. WavesSpaced'
    BY <1>2, <1>6 DEF WavesInv, WavesSpaced
<1> QED BY <1>11, <1>12, <1>13 DEF WavesInv

\* A promotion begins: everything before the current wave has been waited for.
LEMMA WavesPromote ==
    ASSUME WavesInv, TypeInv', TickPromote
    PROVE  WavesInv'
<1>1. TypeOK
    BY DEF WavesInv, TypeInv
<1>2. /\ run' = run /\ now' = now /\ emptied' = emptied /\ tick'.at = now /\ now \in Nat
    BY <1>1 DEF TickPromote, history, TypeOK
<1>3. run.promotedAt[run.ring] = Never
    BY DecidePromote DEF TickPromote, Deciding
<1>4. WaveInv'
    BY <1>2 DEF WavesInv, WaveInv, Waited
<1>5. TickInv'
    BY <1>2, <1>3 DEF WavesInv, WaveInv, TickInv, Waited
<1>6. WavesSpaced'
    BY <1>2 DEF WavesInv, WavesSpaced
<1> QED BY <1>4, <1>5, <1>6 DEF WavesInv

\* A widening tick begins: the record does not change.
LEMMA WavesWiden ==
    ASSUME WavesInv, TypeInv', TickWiden
    PROVE  WavesInv'
<1>1. run' = run /\ now' = now /\ emptied' = emptied /\ tick'.kind = "widen-cohort"
    BY DEF TickWiden
<1>2. WaveInv'
    BY <1>1 DEF WavesInv, WaveInv, Waited
<1>3. TickInv' /\ WavesSpaced'
    BY <1>1 DEF WavesInv, TickInv, WavesSpaced
<1> QED BY <1>2, <1>3 DEF WavesInv

\* The store write that ends a tick: a promotion carries the tick's time, by which
\* every earlier wave had soaked; a widening deletes the convergence.
LEMMA WavesPut ==
    ASSUME WavesInv, TypeInv', PutTick
    PROVE  WavesInv'
<1>1. TypeOK /\ ~Unlocked
    BY DEF WavesInv, TypeInv, PutTick, Unlocked
<1>2. Unlocked' /\ now' = now /\ emptied' = emptied
    BY DEF PutTick, Unlocked, Idle, history
<1>3. TickInv'
    BY <1>2 DEF TickInv
<1>4. /\ run \in Runs /\ tick.at \in Nat /\ tick.at \in Times /\ Never \in Times
      /\ run.ring <= Len(run.rings) /\ Len(run.rings) <= MaxRings
    BY <1>1 DEF WavesInv, TypeInv, TypeOK, Ticks, Times
<1>5. run.ring \in RingIds /\ run.ring \in Nat \ {0}
    BY <1>1, <1>4, WaveTypes
<1>6. "promote" \in ActionKinds /\ "widen-cohort" \in ActionKinds
    BY DEF ActionKinds
<1>7. CASE tick.kind = "promote"
  <2> DEFINE s == [run EXCEPT !.promotedAt[run.ring] = tick.at]
  <2>1. /\ s \in Runs /\ s.rings = run.rings /\ s.ring = run.ring /\ s.approved = run.approved
        /\ s.promotedAt = [run.promotedAt EXCEPT ![run.ring] = tick.at]
        /\ s.convergedAt = run.convergedAt
    BY <1>4, PromotedUpdate
  <2>2. run' = Note(s, "promote")
    BY <1>7 DEF PutTick
  <2> HIDE DEF s
  <2>3. /\ run'.rings = run.rings /\ run'.ring = run.ring /\ run'.approved = run.approved
        /\ run'.promotedAt = [run.promotedAt EXCEPT ![run.ring] = tick.at]
        /\ run'.convergedAt = run.convergedAt
    BY <1>6, <2>1, <2>2, NoteType
  <2>4. /\ tick.at <= now
        /\ run.promotedAt[run.ring] = Never
        /\ \A i \in RingIds : i < run.ring => Waited(i, tick.at)
    BY <1>1, <1>7 DEF WavesInv, TickInv
  <2>5. /\ run'.promotedAt[run.ring] = tick.at
        /\ \A i \in RingIds : i # run.ring => run'.promotedAt[i] = run.promotedAt[i]
    BY <1>1, <1>5, <2>3, WaveTypes
  <2>6. tick.at # Never /\ \A i \in RingIds : i \in Nat
    BY <1>4, SoakAssumption DEF Never, RingIds
  <2>7. WaveInv'
    <3> SUFFICES ASSUME NEW i \in RingIds
                 PROVE  /\ run'.promotedAt[i] <= now'
                        /\ i > run'.ring => run'.promotedAt[i] = Never
                        /\ i < run'.ring =>
                              /\ run'.promotedAt[i] # Never
                              /\ Waited(i, now)'
                              /\ run'.rings[i].requireApproval => i \in run'.approved \cup emptied'
                        /\ run'.convergedAt[i] # Never =>
                              run'.promotedAt[i] # Never /\ run'.convergedAt[i] >= run'.promotedAt[i]
        BY DEF WaveInv
    <3>1. CASE i = run.ring
      <4>1. run.convergedAt[i] = Never
        BY <2>4, <3>1 DEF WavesInv, WaveInv
      <4> QED BY <1>2, <1>5, <2>3, <2>4, <2>5, <3>1, <4>1
    <3>2. CASE i # run.ring
      <4>1. run'.promotedAt[i] = run.promotedAt[i]
        BY <2>5, <3>2
      <4>2. Waited(i, now) => Waited(i, now)'
        BY <1>2, <2>3, <4>1 DEF Waited
      <4> QED BY <1>2, <2>3, <4>1, <4>2 DEF WavesInv, WaveInv
    <3> QED BY <3>1, <3>2
  <2>8. WavesSpaced'
    <3> SUFFICES ASSUME NEW i \in RingIds, i + 1 \in RingIds, run'.promotedAt[i + 1] # Never
                 PROVE  /\ run'.promotedAt[i] # Never
                        /\ \/ i \in emptied'
                           \/ run'.promotedAt[i + 1] >= run'.promotedAt[i] + run'.rings[i].soak
        BY DEF WavesSpaced
    <3>1. CASE i + 1 = run.ring
      <4>1. i < run.ring /\ i # run.ring
        BY <1>5, <2>6, <3>1
      <4>2. run.promotedAt[i] # Never /\ Waited(i, tick.at)
        BY <2>4, <4>1 DEF WavesInv, WaveInv
      <4>3. run'.promotedAt[i] = run.promotedAt[i] /\ run'.promotedAt[i + 1] = tick.at
        BY <2>5, <3>1, <4>1
      <4> QED BY <1>2, <2>3, <4>2, <4>3 DEF Waited
    <3>2. CASE i + 1 # run.ring
      <4>1. run.promotedAt[i + 1] # Never
        BY <2>5, <3>2
      <4>2. i # run.ring
        <5>1. i = run.ring => i + 1 > run.ring
            BY <1>5
        <5>2. ~(i + 1 > run.ring)
            BY <4>1 DEF WavesInv, WaveInv
        <5> QED BY <5>1, <5>2
      <4> QED BY <1>2, <2>3, <2>5, <3>2, <4>1, <4>2 DEF WavesInv, WavesSpaced
    <3> QED BY <3>1, <3>2
  <2> QED BY <1>3, <2>7, <2>8 DEF WavesInv
<1>8. CASE tick.kind # "promote"
  <2> DEFINE s == [run EXCEPT !.convergedAt[run.ring] = Never]
  <2>1. /\ s \in Runs /\ s.rings = run.rings /\ s.ring = run.ring /\ s.approved = run.approved
        /\ s.promotedAt = run.promotedAt
        /\ s.convergedAt = [run.convergedAt EXCEPT ![run.ring] = Never]
    BY <1>4, ConvergedUpdate
  <2>2. run' = Note(s, "widen-cohort")
    BY <1>8 DEF PutTick
  <2> HIDE DEF s
  <2>3. /\ run'.rings = run.rings /\ run'.ring = run.ring /\ run'.approved = run.approved
        /\ run'.promotedAt = run.promotedAt
        /\ run'.convergedAt = [run.convergedAt EXCEPT ![run.ring] = Never]
    BY <1>6, <2>1, <2>2, NoteType
  <2>4. \A i \in RingIds : run'.convergedAt[i] \in {Never, run.convergedAt[i]}
    BY <1>1, <2>3, WaveTypes
  <2>5. WaveInv'
    BY <1>2, <2>3, <2>4 DEF WavesInv, WaveInv, Waited
  <2>6. WavesSpaced'
    BY <1>2, <2>3 DEF WavesInv, WavesSpaced
  <2> QED BY <1>3, <2>5, <2>6 DEF WavesInv
<1> QED BY <1>7, <1>8

\* Every step keeps the order of the waves.
LEMMA WavesStep == WavesInv /\ [Next]_vars => WavesInv'
<1> SUFFICES ASSUME WavesInv, [Next]_vars PROVE WavesInv'
    OBVIOUS
<1>y. TypeInv'
    BY TypeStep DEF WavesInv
<1>t. TypeOK /\ run \in Runs
    BY DEF WavesInv, TypeInv, TypeOK
<1>1. ASSUME NEW target \in Targets \cap 1..head, NEW scope \in Scopes, NEW expedited \in BOOLEAN,
             Start(target, scope, expedited)
      PROVE  WavesInv'
  <2>1. StartWith(target, scope, expedited, "operator")
    BY <1>1 DEF Start
  <2> QED BY <1>y, <2>1, WavesStart, Zenon
<1>2. ASSUME NEW kind \in CommitKinds, NEW scope \in Scopes, Merge(kind, scope)
      PROVE  WavesInv'
    BY <1>2, <1>y, WavesFrame DEF Merge, history
<1>3. ASSUME NEW d \in delivery, Deliver(d)
      PROVE  WavesInv'
  <2>1. PICK target \in d[2]..head : StartWith(target, d[1], FALSE, "delivery")
    BY <1>3 DEF Deliver
  <2> QED BY <1>y, <2>1, WavesStart, Zenon
<1>4. ASSUME NEW d \in delivery, DeliverRefused(d)
      PROVE  WavesInv'
    BY <1>4, <1>y, WavesFrame DEF DeliverRefused, history
<1>5. CASE AutoCheck
    BY <1>5, <1>y, WavesFrame DEF AutoCheck, history
<1>6. CASE AutoHold
    BY <1>6, <1>y, WavesFrame DEF AutoHold, history
<1>7. CASE AutoStart
  <2>1. StartWith(auto, <<>>, FALSE, "autoflow")
    BY <1>7 DEF AutoStart
  <2> QED BY <1>y, <2>1, WavesStart, Zenon
<1>8. CASE AutoRefused
    BY <1>8, <1>y, WavesFrame DEF AutoRefused, history
<1>9. ASSUME NEW from, NEW s, Control(from, s),
             s.rings = run.rings, s.ring = run.ring, run.approved \subseteq s.approved,
             s.promotedAt = run.promotedAt, s.convergedAt = run.convergedAt
      PROVE  WavesInv'
  <2>1. Unlocked /\ Unlocked' /\ now' = now /\ emptied' = emptied /\ run' = s
    BY <1>9 DEF Control, Unlocked, memory, history
  <2> QED BY <1>9, <1>y, <2>1, WavesControl
<1>10. CASE Cancel
  <2> DEFINE s == [run EXCEPT !.status = "cancelled"]
  <2>1. /\ s \in Runs /\ s.rings = run.rings /\ s.ring = run.ring /\ s.approved = run.approved
        /\ s.promotedAt = run.promotedAt /\ s.convergedAt = run.convergedAt
    BY <1>t, StatusUpdate
  <2>2. Control({"active", "paused", "halted"}, Note(s, "done")) /\ "done" \in ActionKinds
    BY <1>10 DEF Cancel, ActionKinds
  <2> HIDE DEF s
  <2>3. LET u == Note(s, "done") IN
        /\ u.rings = run.rings /\ u.ring = run.ring /\ u.approved = run.approved
        /\ u.promotedAt = run.promotedAt /\ u.convergedAt = run.convergedAt
    BY <2>1, <2>2, NoteType
  <2> QED BY <1>9, <2>2, <2>3
<1>11. CASE ApproveWave
  <2>1. LET u == Approve(run) IN
        /\ u.rings = run.rings /\ u.ring = run.ring /\ run.approved \subseteq u.approved
        /\ u.promotedAt = run.promotedAt /\ u.convergedAt = run.convergedAt
    BY <1>t, ApproveUpdate
  <2> QED BY <1>9, <1>11, <2>1 DEF ApproveWave
<1>12. CASE Pause
  <2> DEFINE s == [run EXCEPT !.status = "paused"]
  <2>1. /\ s.rings = run.rings /\ s.ring = run.ring /\ s.approved = run.approved
        /\ s.promotedAt = run.promotedAt /\ s.convergedAt = run.convergedAt
    BY <1>t, StatusUpdate
  <2>2. Control({"active"}, s)
    BY <1>12 DEF Pause
  <2> HIDE DEF s
  <2> QED BY <1>9, <2>1, <2>2
<1>32. CASE Resume
  <2> DEFINE s == [run EXCEPT !.status = "active"]
  <2>1. /\ s.rings = run.rings /\ s.ring = run.ring /\ s.approved = run.approved
        /\ s.promotedAt = run.promotedAt /\ s.convergedAt = run.convergedAt
    BY <1>t, StatusUpdate
  <2>2. Control({"paused"}, s)
    BY <1>32 DEF Resume
  <2> HIDE DEF s
  <2> QED BY <1>9, <2>1, <2>2
\* Ticks that store the record without touching waves or times.
<1>13. ASSUME NEW s \in Runs, NEW kind \in ActionKinds, Unlocked, Store(s, kind), emptied' = emptied,
              s.rings = run.rings, s.ring = run.ring, run.approved = s.approved,
              s.promotedAt = run.promotedAt, s.convergedAt = run.convergedAt
       PROVE  WavesInv'
  <2>1. Unlocked' /\ now' = now /\ run' = Note(s, kind)
    BY <1>13 DEF Store, Unlocked, memory
  <2>2. /\ run'.rings = run.rings /\ run'.ring = run.ring /\ run.approved \subseteq run'.approved
        /\ run'.promotedAt = run.promotedAt /\ run'.convergedAt = run.convergedAt
    BY <1>13, <2>1, NoteType
  <2> QED BY <1>13, <1>y, <2>1, <2>2, WavesControl
<1>14. CASE TickAwaitApproval
  <2>1. Unlocked /\ Store(run, "await-approval") /\ emptied' = emptied
        /\ "await-approval" \in ActionKinds
    BY <1>14 DEF TickAwaitApproval, Deciding, ActionKinds
  <2> QED BY <1>13, <1>t, <2>1
<1>15. CASE TickHalt
  <2> DEFINE s == [run EXCEPT !.status = "halted"]
  <2>1. /\ s \in Runs /\ s.rings = run.rings /\ s.ring = run.ring /\ s.approved = run.approved
        /\ s.promotedAt = run.promotedAt /\ s.convergedAt = run.convergedAt
    BY <1>t, StatusUpdate
  <2>2. Unlocked /\ Store(s, "halt") /\ emptied' = emptied /\ "halt" \in ActionKinds
    BY <1>15 DEF TickHalt, Deciding, ActionKinds
  <2> HIDE DEF s
  <2> QED BY <1>13, <2>1, <2>2
<1>16. CASE TickDone
  <2> DEFINE s == [run EXCEPT !.status = "completed"]
  <2>1. /\ s \in Runs /\ s.rings = run.rings /\ s.ring = run.ring /\ s.approved = run.approved
        /\ s.promotedAt = run.promotedAt /\ s.convergedAt = run.convergedAt
    BY <1>t, StatusUpdate
  <2>2. Unlocked /\ Store(s, "done") /\ emptied' = emptied /\ "done" \in ActionKinds
    BY <1>16 DEF TickDone, Deciding, ActionKinds
  <2> HIDE DEF s
  <2> QED BY <1>13, <2>1, <2>2
<1>17. CASE TickBuildFailed
  <2> DEFINE s == [run EXCEPT !.status = "halted"]
  <2>1. /\ s.rings = run.rings /\ s.ring = run.ring /\ s.approved = run.approved
        /\ s.promotedAt = run.promotedAt /\ s.convergedAt = run.convergedAt
    BY <1>t, StatusUpdate
  <2>2. Unlocked /\ Unlocked' /\ run' = s /\ now' = now /\ emptied' = emptied
    BY <1>17 DEF TickBuildFailed, Deciding, Unlocked, memory, history
  <2> HIDE DEF s
  <2> QED BY <1>y, <2>1, <2>2, WavesControl
<1>18. CASE TickWait
    BY <1>18, <1>y, WavesWait
<1>19. CASE TickAdvance
    BY <1>19, <1>y, WavesAdvance
<1>20. CASE TickPromote
    BY <1>20, <1>y, WavesPromote
<1>21. CASE TickWiden
    BY <1>21, <1>y, WavesWiden
<1>22. CASE PutTick
    BY <1>22, <1>y, WavesPut
<1>23. CASE PinGroup \/ PickCohort \/ ReleaseDevice \/ CohortReleased \/ MoveRef
  <2>1. ~Unlocked /\ run' = run /\ now' = now /\ emptied' = emptied
    BY <1>23
    DEF PinGroup, PickCohort, ReleaseDevice, CohortReleased, MoveRef, Unlocked, history
  <2>2. tick \in Ticks
    BY <1>t DEF TypeOK
  <2>3. tick'.kind = tick.kind /\ tick'.at = tick.at
    BY <1>23, <2>2 DEF PinGroup, PickCohort, ReleaseDevice, CohortReleased, MoveRef, Ticks
  <2> QED BY <1>y, <2>1, <2>3, WavesInTick
<1>24. CASE TickFails \/ Crash
  <2>1. run' = run /\ now' = now /\ emptied' = emptied /\ Unlocked'
    BY <1>24 DEF TickFails, Crash, Unlocked, Idle, history
  <2> QED BY <1>y, <2>1, WavesFrame
<1>25. CASE FollowHead \/ FollowHeadFails
  <2>1. run' = run /\ now' = now /\ emptied' = emptied /\ tick' = tick
    BY <1>25 DEF FollowHead, FollowHeadFails, memory, history
  <2> QED BY <1>y, <2>1, WavesFrame
<1>26. CASE Commit
  <2>1. run' = run /\ now' = now /\ emptied' = emptied /\ tick' = tick
    BY <1>26 DEF Commit, memory, history
  <2> QED BY <1>y, <2>1, WavesFrame
<1>27. ASSUME NEW d \in Devices, NEW cond \in {"ok", "broken"}, Fade(d) \/ CheckIn(d, cond)
       PROVE  WavesInv'
  <2>1. run' = run /\ now' = now /\ emptied' = emptied /\ tick' = tick
    BY <1>27 DEF Fade, CheckIn, memory, history
  <2> QED BY <1>y, <2>1, WavesFrame
<1>31. ASSUME NEW stale \in SUBSET Late, ReapAbandonedEnrolments(stale)
       PROVE  WavesInv'
  <2>1. run' = run /\ now' = now /\ emptied' = emptied /\ tick' = tick
    BY <1>31 DEF ReapAbandonedEnrolments, memory, history
  <2> QED BY <1>y, <2>1, WavesFrame
<1>33. CASE Enrolment
  <2>1. run' = run /\ now' = now /\ emptied' = emptied /\ tick' = tick
    BY <1>33
    DEF Enrolment, Enrol, EnsureRingsContain, AdvanceRing, AdvanceRingFails, RefuseRing,
        DispatchImage, history
  <2> QED BY <1>y, <2>1, WavesFrame
<1>28. CASE Clock
  <2>1. run' = run /\ now' = now + 1 /\ emptied' = emptied /\ tick' = tick
    BY <1>28 DEF Clock, memory, history
  <2> QED BY <1>y, <2>1, WavesFrame
<1>29. CASE UNCHANGED vars
  <2>1. run' = run /\ now' = now /\ emptied' = emptied /\ tick' = tick
    BY <1>29 DEF vars, memory, history
  <2> QED BY <1>y, <2>1, WavesFrame
<1>30. /\ \A p \in Plans : EditPlan(p) => Commit
       /\ \A g \in Groups : Unpin(g) => Commit
       /\ \A d \in Devices : Retire(d) \/ Reactivate(d) => Commit
    BY DEF EditPlan, Unpin, Retire, Reactivate
<1> QED
    BY <1>1, <1>2, <1>3, <1>4, <1>5, <1>6, <1>7, <1>8, <1>10, <1>11, <1>12,
       <1>14, <1>15, <1>16, <1>17, <1>18, <1>19, <1>20, <1>21, <1>22, <1>23, <1>24, <1>25,
       <1>26, <1>27, <1>28, <1>29, <1>30, <1>31,
       <1>32, <1>33
    DEF Next, Tick, AutoFlow, Operate

\* Tick and Decide never promote a wave before its predecessor's soak is over,
\* whatever writes, pushes and processes failed in between.
THEOREM WavesSpacedAlways == Spec => []WavesSpaced
<1>1. WavesInv => WavesSpaced
    BY DEF WavesInv
<1> QED BY WavesInit, WavesStep, <1>1, PTL DEF Spec

\* No wave after a RequireApproval wave is promoted without that wave's sign-off
\* (or without that wave having been found empty).
THEOREM ApprovalAlways == Spec => []ApprovalRespected
<1>1. WavesInv => ApprovalRespected
  <2> SUFFICES ASSUME WavesInv, NEW i \in RingIds, i + 1 \in RingIds,
                      run.promotedAt[i + 1] # Never, run.rings[i].requireApproval
               PROVE  i \in run.approved \cup emptied
    BY DEF ApprovalRespected
  <2>1. TypeOK
    BY DEF WavesInv, TypeInv
  <2>2. ~(i + 1 > run.ring)
    BY DEF WavesInv, WaveInv
  <2>3. i < run.ring
    BY <2>1, <2>2, WaveTypes
  <2> QED BY <2>3 DEF WavesInv, WaveInv
<1> QED BY WavesInit, WavesStep, <1>1, PTL DEF Spec
=============================================================================
