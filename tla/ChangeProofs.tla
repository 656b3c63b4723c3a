---------------------------- MODULE ChangeProofs ----------------------------
(***************************************************************************)
(* Proofs about the change flow and the configuration plane under it, for  *)
(* every set of items, changes, faults and retries.                        *)
(***************************************************************************)
EXTENDS ChangeFlow, TLAPS

(***************************************************************************)
(* The invariants.                                                         *)
(***************************************************************************)
\* A submit under way has a change in Building and a worktree to evaluate; the
\* merge under way has the status its step left.
JobInv ==
    /\ \A c \in Changes : job[c] # "none" => status[c] = "building" /\ tree[c] \in SUBSET Items
    /\ mu.pc = "gate" => status[mu.id] = "ready"
    /\ mu.pc = "cleanup" => status[mu.id] = "merged"

\* Whatever a push may send has passed the gate, by the time it is sent.
PushInv ==
    /\ Valid(remote)
    /\ acked \subseteq remote
    /\ tx.pc \in {"apply", "push"} => Valid(local)
    /\ tx.pc = "push" => tx.item \in local
    /\ mu.pc \in {"cleanup", "push"} => Valid(local)

FlowInv  == TypeOK /\ JobInv
PlaneInv == FlowInv /\ PushInv

(***************************************************************************)
(* Types and the status machine.                                           *)
(***************************************************************************)
\* A worktree is a set of items as soon as the change has a branch.
LEMMA WorktreeType ==
    ASSUME TypeOK, NEW c \in Changes, branch[c] # NoTree
    PROVE  Worktree(c) \in SUBSET Items /\ branch[c] \in SUBSET Items
BY DEF TypeOK, Trees, Worktree

\* Init's worktrees and branches are absent, its locks free.
LEMMA FlowInit == Init => FlowInv
BY ItemAssumption
   DEF Init, ConfigInit, FlowInv, TypeOK, ConfigTypeOK, JobInv, Free, MuFree, Trees, Statuses

\* A step of the configuration plane keeps its types and never touches the part
\* of a lock that a merge holds.
LEMMA ConfigFlow ==
    ASSUME FlowInv, ConfigNext, UNCHANGED changeVars
    PROVE  FlowInv'
<1>a. TypeOK /\ ConfigTypeOK /\ JobInv
    BY DEF FlowInv, TypeOK
<1>1. ConfigTypeOK' /\ (tx'.pc = "merge" <=> tx.pc = "merge")
  <2>1. ASSUME NEW w \in Direct \cup Structural, Apply(w)
        PROVE  ConfigTypeOK' /\ (tx'.pc = "merge" <=> tx.pc = "merge")
    BY <1>a, <2>1, ItemAssumption DEF Apply, ConfigTypeOK
  <2>2. CASE TxSync
    BY <1>a, <2>2 DEF TxSync, ConfigTypeOK
  <2>3. CASE TxApply
    BY <1>a, <2>3 DEF TxApply, ConfigTypeOK
  <2>4. CASE TxRefused
    BY <1>a, <2>4 DEF TxRefused, ConfigTypeOK, Free
  <2>5. CASE TxPush
    BY <1>a, <2>5 DEF TxPush, ConfigTypeOK, Free
  <2>6. CASE TxConflict
    <3>1. \/ tx' = [tx EXCEPT !.pc = "sync", !.tries = @ + 1]
          \/ tx' = [pc |-> "free", item |-> NoItem, tries |-> 0]
      BY <2>6 DEF TxConflict, Free
    <3>2. /\ tx' \in [pc : {"free", "sync"}, item : Items \cup {NoItem}, tries : Nat]
          /\ tx'.pc = "sync" => tx'.item = tx.item
      <4>1. tx.item \in Items \cup {NoItem} /\ tx.tries + 1 \in Nat
        BY <1>a DEF ConfigTypeOK
      <4>2. CASE tx' = [tx EXCEPT !.pc = "sync", !.tries = @ + 1]
        <5>1. tx' = [pc |-> "sync", item |-> tx.item, tries |-> tx.tries + 1]
          BY <1>a, <4>2 DEF ConfigTypeOK
        <5> QED BY <4>1, <5>1
      <4>3. CASE tx' = [pc |-> "free", item |-> NoItem, tries |-> 0]
        BY <4>3
      <4> QED BY <3>1, <4>2, <4>3
    <3>3. tx.pc = "push" /\ UNCHANGED <<remote, local, snapshot, acked, faults>>
      BY <2>6 DEF TxConflict
    <3> QED BY <1>a, <3>2, <3>3 DEF ConfigTypeOK
  <2>7. CASE TxFails
    <3>1. remote' \in {remote, local} /\ faults' \in Nat /\ tx' = Free
      BY <1>a, <2>7 DEF TxFails, Fault, ConfigTypeOK
    <3> QED BY <1>a, <2>7, <3>1 DEF TxFails, ConfigTypeOK, Free
  <2>8. CASE SyncLoop
    BY <1>a, <2>8 DEF SyncLoop, ConfigTypeOK
  <2>9. ASSUME NEW e \in External, Engineer(e)
        PROVE  ConfigTypeOK' /\ (tx'.pc = "merge" <=> tx.pc = "merge")
    BY <1>a, <2>9, ItemAssumption DEF Engineer, ConfigTypeOK
  <2> QED BY <2>1, <2>2, <2>3, <2>4, <2>5, <2>6, <2>7, <2>8, <2>9 DEF ConfigNext, Tx
<1> QED BY <1>a, <1>1 DEF FlowInv, TypeOK, JobInv, changeVars

\* What the three edits have in common: they replace the worktree and the branch
\* of a change that is not being gated.
LEMMA EditFlow ==
    ASSUME FlowInv, NEW c \in Changes, TakesEdits(c), NEW i \in Items,
           NEW t \in SUBSET Items, NEW b \in SUBSET Items,
           tree' = [tree EXCEPT ![c] = t], branch' = [branch EXCEPT ![c] = b],
           \/ status' = [status EXCEPT ![c] = Reworked(@)]
           \/ status' = status,
           \/ saved' = [saved EXCEPT ![c] = @ \cup {i}]
           \/ saved' = saved,
           faults' \in Nat,
           UNCHANGED <<remote, local, snapshot, tx, acked, job, mu, proof, landed>>
    PROVE  FlowInv'
<1>1. TypeOK /\ JobInv
    BY DEF FlowInv
<1>2. tree' \in [Changes -> Trees] /\ branch' \in [Changes -> Trees]
    BY <1>1 DEF TypeOK, Trees
<1>3. status' \in [Changes -> Statuses] /\ saved' \in [Changes -> SUBSET Items]
    BY <1>1 DEF TypeOK, Statuses, Reworked
<1>4. TypeOK'
    BY <1>1, <1>2, <1>3 DEF TypeOK, ConfigTypeOK
<1>5. status[c] \in {"draft", "failed"} /\ status'[c] \in {"draft", "failed"}
    BY <1>1 DEF TakesEdits, Reworked, TypeOK
<1>6. \A x \in Changes : x # c => status'[x] = status[x] /\ tree'[x] = tree[x]
    BY <1>1 DEF TypeOK
<1>7. JobInv'
    BY <1>1, <1>5, <1>6 DEF JobInv, TypeOK
<1> QED BY <1>4, <1>7 DEF FlowInv

\* A step of the change flow keeps the types, and a submit under way keeps its
\* Building status and its worktree.
LEMMA ChangeFlowStep ==
    ASSUME FlowInv, ChangeNext
    PROVE  FlowInv'
<1>a. TypeOK /\ ConfigTypeOK /\ JobInv
    BY DEF FlowInv, TypeOK
<1>n. NoTree \in Trees
    BY DEF Trees
<1>1. ASSUME NEW c \in Changes, Open(c)
      PROVE  FlowInv'
    BY <1>a, <1>n, <1>1 DEF FlowInv, TypeOK, ConfigTypeOK, JobInv, Open, Trees, Statuses, configVars
<1>2. ASSUME NEW c \in Changes, Abandon(c)
      PROVE  FlowInv'
    BY <1>a, <1>n, <1>2 DEF FlowInv, TypeOK, ConfigTypeOK, JobInv, Abandon, cleanup, CanTransition, Fault, Statuses
<1>3. ASSUME NEW c \in Changes, beginSubmit(c)
      PROVE  FlowInv'
    BY <1>a, <1>n, <1>3, WorktreeType DEF FlowInv, TypeOK, ConfigTypeOK, JobInv, beginSubmit, CanTransition, Trees, Statuses, configVars
<1>4. ASSUME NEW c \in Changes, GateVerdict(c)
      PROVE  FlowInv'
    BY <1>a, <1>n, <1>4 DEF FlowInv, TypeOK, ConfigTypeOK, JobInv, GateVerdict, configVars
<1>5. ASSUME NEW c \in Changes, finishSubmit(c)
      PROVE  FlowInv'
    BY <1>a, <1>n, <1>5 DEF FlowInv, TypeOK, ConfigTypeOK, JobInv, finishSubmit, CanTransition, Fault, Statuses
<1>6. ASSUME NEW c \in Changes, NEW i \in EditsOf[c], Edit(c, i)
      PROVE  FlowInv'
  <2>1. i \in Items /\ TakesEdits(c) /\ branch[c] \in SUBSET Items /\ Worktree(c) \in SUBSET Items
    BY <1>a, <1>6, WorktreeType, ChangeAssumption DEF Edit
  <2> DEFINE next == IF NoOp(c, i) THEN Worktree(c) ELSE Worktree(c) \cup {i}
             b    == IF NoOp(c, i) THEN branch[c] ELSE next
  <2>2. tree' = [tree EXCEPT ![c] = next] /\ branch' = [branch EXCEPT ![c] = b]
    BY <1>6 DEF Edit
  <2>3. next \in SUBSET Items /\ b \in SUBSET Items
    BY <2>1
  <2>4. faults' \in Nat
    BY <1>a, <1>6 DEF Edit, Fault, ConfigTypeOK
  <2> HIDE DEF next, b
  <2> QED BY <1>6, <2>1, <2>2, <2>3, <2>4, EditFlow DEF Edit
<1>7. ASSUME NEW c \in Changes, NEW i \in EditsOf[c], EditCommitFails(c, i)
      PROVE  FlowInv'
  <2>1. i \in Items /\ TakesEdits(c) /\ branch[c] \in SUBSET Items /\ Worktree(c) \in SUBSET Items
    BY <1>a, <1>7, WorktreeType, ChangeAssumption DEF EditCommitFails
  <2>2. faults' \in Nat
    BY <1>a, <1>7 DEF EditCommitFails, Fault, ConfigTypeOK
  <2>3. branch' = [branch EXCEPT ![c] = branch[c]]
    BY <1>a, <1>7 DEF EditCommitFails, TypeOK
  <2>4. Worktree(c) \cup {i} \in SUBSET Items
    BY <2>1
  <2> QED BY <1>7, <2>1, <2>2, <2>3, <2>4, EditFlow DEF EditCommitFails
<1>8. ASSUME NEW c \in Changes, NEW i \in EditsOf[c], EditFile(c, i)
      PROVE  FlowInv'
  <2>1. i \in Items /\ TakesEdits(c) /\ branch[c] \in SUBSET Items /\ Worktree(c) \in SUBSET Items
    BY <1>a, <1>8, WorktreeType, ChangeAssumption DEF EditFile
  <2>2. faults' \in Nat
    BY <1>a, <1>8 DEF EditFile, Fault, ConfigTypeOK
  <2>3. PICK base \in {branch[c], Worktree(c)} : branch' = [branch EXCEPT ![c] = base \cup {i}]
    BY <1>8 DEF EditFile
  <2>4. Worktree(c) \cup {i} \in SUBSET Items /\ base \cup {i} \in SUBSET Items
    BY <2>1
  <2> QED BY <1>8, <2>1, <2>2, <2>3, <2>4, EditFlow DEF EditFile
<1>9. ASSUME NEW c \in Changes, NEW a \in People \cup {NoSubject}, MergeNoFF(c, a)
      PROVE  FlowInv'
    BY <1>a, <1>9, WorktreeType DEF FlowInv, TypeOK, ConfigTypeOK, JobInv, MergeNoFF, MayMerge, Free
<1>10. CASE MergeRecord
    BY <1>a, <1>n, <1>10 DEF FlowInv, TypeOK, ConfigTypeOK, JobInv, MergeRecord, MuFree, Free, Fault, Statuses
<1>11. CASE MergeRollback
    BY <1>a, <1>n, <1>11 DEF FlowInv, TypeOK, ConfigTypeOK, JobInv, MergeRollback, MuFree, Free, Fault
<1>12. CASE MergeCleanup
    BY <1>a, <1>n, <1>12 DEF FlowInv, TypeOK, ConfigTypeOK, JobInv, MergeCleanup, cleanup, Free, Fault
<1>13. CASE MergePush
    BY <1>a, <1>n, <1>13 DEF FlowInv, TypeOK, ConfigTypeOK, JobInv, MergePush, MuFree
<1>14. CASE MergePushFails
    BY <1>a, <1>n, <1>14 DEF FlowInv, TypeOK, ConfigTypeOK, JobInv, MergePushFails, MuFree, Fault
<1>15. CASE Crash
    BY <1>a, <1>n, <1>15 DEF FlowInv, TypeOK, ConfigTypeOK, JobInv, Crash, Reconcile, MuFree, Free, Fault, Statuses
<1> QED BY <1>1, <1>2, <1>3, <1>4, <1>5, <1>6, <1>7, <1>8, <1>9, <1>10, <1>11, <1>12, <1>13, <1>14, <1>15 DEF ChangeNext, MergeSteps

\* Both halves of the next-state relation keep the types and the status machine.
LEMMA FlowStep == FlowInv /\ [Next]_vars => FlowInv'
<1>1. CASE UNCHANGED vars
    BY <1>1 DEF FlowInv, TypeOK, ConfigTypeOK, JobInv, vars, configVars, changeVars
<1> QED BY <1>1, ConfigFlow, ChangeFlowStep DEF Next

(***************************************************************************)
(* The configuration plane keeps its promise.                              *)
(***************************************************************************)
\* A write that applyTx accepts leaves a tree that evaluates: the gate said so,
\* or nothing the gate looks at has changed.
LEMMA AcceptedIsValid ==
    ASSUME ConfigTypeOK, Valid(local), NEW w \in Items, Accepts(w)
    PROVE  Valid(local \cup {w})
<1>1. CASE w \in local
  <2>1. local \cup {w} = local
    BY <1>1
  <2> QED BY <2>1
<1>2. CASE w \in Structural
    BY <1>2, StructuralAssumption DEF Valid
<1> QED BY <1>1, <1>2 DEF Accepts

\* The abstract step, in the words of the detailed module.
LedgerStep ==
    /\ remote' \in SUBSET Items /\ remote \subseteq remote' /\ Valid(remote')
    /\ acked \subseteq acked' /\ acked' \subseteq remote'

\* The repository the console starts from evaluates and nothing is acknowledged.
LEMMA PlaneInit == Init => PlaneInv /\ Promise!Init
<1> SUFFICES ASSUME Init PROVE PlaneInv /\ Promise!Init
    OBVIOUS
<1>1. FlowInv
    BY FlowInit
<1>2. remote = Initial /\ acked = {} /\ tx.pc = "free" /\ mu.pc = "free"
    BY DEF Init, ConfigInit, Free, MuFree
<1> QED BY <1>1, <1>2, ItemAssumption DEF PlaneInv, PushInv, Promise!Init, Promise!Valid, Valid

\* Every step of the configuration plane pushes only trees that have passed the
\* gate and acknowledges only what it pushed.
LEMMA ConfigPlaneStep ==
    ASSUME PlaneInv, ConfigNext, UNCHANGED changeVars
    PROVE  PushInv' /\ LedgerStep
<1>a. ConfigTypeOK /\ PushInv /\ mu' = mu /\ (tx.pc = "merge" <=> mu.pc \in {"gate", "cleanup"})
    BY DEF PlaneInv, FlowInv, TypeOK, changeVars
<1>1. ASSUME NEW w \in Direct \cup Structural, Apply(w)
      PROVE  PushInv' /\ LedgerStep
    BY <1>a, <1>1 DEF Apply, ConfigTypeOK, PushInv, LedgerStep
<1>2. CASE TxSync
    BY <1>a, <1>2 DEF TxSync, ConfigTypeOK, PushInv, LedgerStep
<1>3. CASE TxApply
  <2>1. Valid(local') /\ tx.item \in local'
    BY <1>a, <1>3, AcceptedIsValid DEF TxApply, ConfigTypeOK, PushInv
  <2> QED BY <1>a, <1>3, <2>1 DEF TxApply, ConfigTypeOK, PushInv, LedgerStep
<1>4. CASE TxRefused
    BY <1>a, <1>4 DEF TxRefused, Free, ConfigTypeOK, PushInv, LedgerStep
<1>5. CASE TxPush
    BY <1>a, <1>5 DEF TxPush, FastForward, Free, ConfigTypeOK, PushInv, LedgerStep
<1>6. CASE TxConflict
  <2>1. tx'.pc \in {"sync", "free"} /\ UNCHANGED <<remote, local, acked>>
    BY <1>a, <1>6 DEF TxConflict, Free, ConfigTypeOK
  <2> QED BY <1>a, <2>1 DEF ConfigTypeOK, PushInv, LedgerStep
<1>7. CASE TxFails
  <2>1. tx'.pc = "free" /\ UNCHANGED <<local, acked>>
    BY <1>7 DEF TxFails, Free
  <2>2. remote' = remote \/ (remote' = local /\ tx.pc = "push" /\ remote \subseteq local)
    BY <1>7 DEF TxFails, FastForward
  <2> QED BY <1>a, <2>1, <2>2 DEF ConfigTypeOK, PushInv, LedgerStep
<1>8. CASE SyncLoop
    BY <1>a, <1>8 DEF SyncLoop, ConfigTypeOK, PushInv, LedgerStep
<1>9. ASSUME NEW e \in External, Engineer(e)
      PROVE  PushInv' /\ LedgerStep
    BY <1>a, <1>9, ItemAssumption DEF Engineer, ConfigTypeOK, PushInv, LedgerStep
<1> QED BY <1>1, <1>2, <1>3, <1>4, <1>5, <1>6, <1>7, <1>8, <1>9 DEF ConfigNext, Tx

\* A merge reaches its push only through the gate on the merged tree; what the
\* other writer puts there in the meantime has passed the gate too.
LEMMA ChangePlaneStep ==
    ASSUME PlaneInv, ChangeNext
    PROVE  PushInv' /\ LedgerStep
<1>a. ConfigTypeOK /\ PushInv /\ (tx.pc = "merge" <=> mu.pc \in {"gate", "cleanup"})
    BY DEF PlaneInv, FlowInv, TypeOK
<1>1. ASSUME UNCHANGED <<remote, local, tx, acked, mu>>
      PROVE  PushInv' /\ LedgerStep
    BY <1>a, <1>1 DEF ConfigTypeOK, PushInv, LedgerStep
<1>2. ASSUME NEW c \in Changes, Open(c) \/ Abandon(c)
      PROVE  PushInv' /\ LedgerStep
    BY <1>1, <1>2 DEF Open, Abandon, configVars
<1>3. ASSUME NEW c \in Changes, NEW i \in EditsOf[c],
             Edit(c, i) \/ EditCommitFails(c, i) \/ EditFile(c, i)
      PROVE  PushInv' /\ LedgerStep
    BY <1>1, <1>3 DEF Edit, EditCommitFails, EditFile
<1>4. ASSUME NEW c \in Changes, beginSubmit(c) \/ GateVerdict(c) \/ finishSubmit(c)
      PROVE  PushInv' /\ LedgerStep
    BY <1>1, <1>4 DEF beginSubmit, GateVerdict, finishSubmit, configVars
<1>5. ASSUME NEW c \in Changes, NEW a \in People \cup {NoSubject}, MergeNoFF(c, a)
      PROVE  PushInv' /\ LedgerStep
    BY <1>a, <1>5 DEF MergeNoFF, Free, ConfigTypeOK, PushInv, LedgerStep
<1>6. CASE MergeRecord
    BY <1>a, <1>6 DEF MergeRecord, MergedResultPasses, MuFree, Free, ConfigTypeOK, PushInv, LedgerStep
<1>7. CASE MergeRollback
    BY <1>a, <1>7 DEF MergeRollback, MuFree, Free, ConfigTypeOK, PushInv, LedgerStep
<1>8. CASE MergeCleanup
    BY <1>a, <1>8 DEF MergeCleanup, Free, ConfigTypeOK, PushInv, LedgerStep
<1>9. CASE MergePush
    BY <1>a, <1>9 DEF MergePush, FastForward, MuFree, ConfigTypeOK, PushInv, LedgerStep
<1>10. CASE MergePushFails
  <2>1. mu'.pc = "free" /\ UNCHANGED <<local, tx, acked>>
    BY <1>10 DEF MergePushFails, MuFree
  <2>2. mu.pc = "push" /\ (remote' = remote \/ (remote' = local /\ remote \subseteq local))
    BY <1>10 DEF MergePushFails, FastForward
  <2> QED BY <1>a, <2>1, <2>2 DEF ConfigTypeOK, PushInv, LedgerStep
<1>11. CASE Crash
    BY <1>a, <1>11 DEF Crash, MuFree, Free, ConfigTypeOK, PushInv, LedgerStep
<1> QED BY <1>2, <1>3, <1>4, <1>5, <1>6, <1>7, <1>8, <1>9, <1>10, <1>11
        DEF ChangeNext, MergeSteps

\* Every step of the whole system maps to a step, or a stutter, of the promise.
LEMMA PlaneStep ==
    PlaneInv /\ [Next]_vars => PlaneInv' /\ [Promise!Publish]_<<remote, acked>>
<1> SUFFICES ASSUME PlaneInv, [Next]_vars
             PROVE  PlaneInv' /\ [Promise!Publish]_<<remote, acked>>
    OBVIOUS
<1>1. FlowInv'
    BY FlowStep DEF PlaneInv
<1>2. CASE Next
  <2>1. PushInv' /\ LedgerStep
    BY <1>2, ConfigPlaneStep, ChangePlaneStep DEF Next
  <2> QED BY <1>1, <2>1 DEF PlaneInv, LedgerStep, Promise!Publish, Promise!Valid, Valid
<1>3. CASE UNCHANGED vars
    BY <1>1, <1>3 DEF PlaneInv, PushInv, Valid, vars, configVars, changeVars
<1> QED BY <1>2, <1>3

\* Types: every reachable state of the change flow is well formed, the write
\* lock is held by exactly the merge that is in its locked part, and the gate is
\* never asked about a worktree that is gone.
THEOREM FlowTypeCorrect == Spec => []TypeOK
<1>1. Init => FlowInv
    BY FlowInit
<1>2. FlowInv /\ [Next]_vars => FlowInv'
    BY FlowStep
<1>3. FlowInv => TypeOK
    BY DEF FlowInv
<1> QED BY <1>1, <1>2, <1>3, PTL DEF Spec

\* Refinement: whatever fails, crashes or interleaves, main on the remote only
\* grows, always evaluates, and keeps every write that Apply acknowledged.
THEOREM PromiseKept == Spec => KeepsPromise
<1>1. Init => PlaneInv /\ Promise!Init
    BY PlaneInit
<1>2. PlaneInv /\ [Next]_vars => PlaneInv' /\ [Promise!Publish]_<<remote, acked>>
    BY PlaneStep
<1> QED BY <1>1, <1>2, PTL DEF Spec, KeepsPromise, Promise!Spec

(***************************************************************************)
(* What an approver merges is what the gate proved.                        *)
(***************************************************************************)
\* The invariant for one change, so that a step has to be followed only on the
\* change it is about.
Proved(c) ==
    /\ tree[c] \in {NoTree, branch[c]}
    /\ job[c] = "accepted" => proof[c] = branch[c]
    /\ status[c] = "ready" /\ branch[c] # NoTree => branch[c] = proof[c]

AllProved == \A c \in Changes : Proved(c)

\* The mark of a missing worktree is not the content of one.
LEMMA NoTreeIsNoSet == NoTree \notin SUBSET Items
BY ItemAssumption DEF NoTree

\* ensureWorktree yields exactly what is committed on the branch.
LEMMA CleanWorktree ==
    ASSUME NEW c \in Changes, Proved(c)
    PROVE  Worktree(c) = branch[c]
BY DEF Proved, Worktree

\* No step parts the worktree, the verdict and the branch of a change: edits wait
\* for the verdict, and nobody else touches a change that is Building or Ready.
LEMMA ProvedStep ==
    ASSUME "commit" \notin FaultKinds, FlowInv, AllProved, [Next]_vars, NEW x \in Changes
    PROVE  Proved(x)'
<1>a. TypeOK /\ JobInv /\ Proved(x)
    BY DEF FlowInv, AllProved
<1>j. job[x] # "none" => status[x] = "building" /\ tree[x] = branch[x]
    BY <1>a, NoTreeIsNoSet DEF JobInv, Proved
<1>u. ASSUME UNCHANGED <<tree[x], branch[x], job[x], status[x], proof[x]>>
      PROVE  Proved(x)'
    BY <1>a, <1>u DEF Proved
<1>1. ASSUME NEW c \in Changes, Open(c)
      PROVE  Proved(x)'
    BY <1>a, <1>j, <1>1 DEF TypeOK, Open, Proved, configVars
<1>2. ASSUME NEW c \in Changes, Abandon(c)
      PROVE  Proved(x)'
  <2>1. c = x => job[x] = "none"
    BY <1>j, <1>2 DEF Abandon, CanTransition
  <2>2. CASE tree' = [tree EXCEPT ![c] = NoTree] /\ branch' = [branch EXCEPT ![c] = NoTree]
    BY <1>a, <1>2, <2>1, <2>2 DEF TypeOK, Abandon, Proved
  <2>3. CASE UNCHANGED <<tree, branch>> /\ status' = [status EXCEPT ![c] = "abandoned"]
    BY <1>a, <1>2, <2>1, <2>3 DEF TypeOK, Abandon, Proved
  <2> QED BY <1>2, <2>2, <2>3 DEF Abandon, cleanup
<1>3. ASSUME NEW c \in Changes, NEW i \in EditsOf[c], Edit(c, i)
      PROVE  Proved(x)'
  <2>1. CASE c # x
    BY <1>a, <1>3, <1>u, <2>1 DEF TypeOK, Edit
  <2>2. CASE c = x
    <3>1. Worktree(x) = branch[x] /\ job[x] = "none" /\ status'[x] # "ready"
      BY <1>a, <1>j, <1>3, <2>2, CleanWorktree DEF TypeOK, Edit, TakesEdits, Reworked
    <3>2. tree'[x] = branch'[x]
      BY <1>a, <1>3, <2>2, <3>1 DEF TypeOK, Edit
    <3> QED BY <1>3, <3>1, <3>2 DEF Edit, Proved
  <2> QED BY <2>1, <2>2
<1>4. ASSUME NEW c \in Changes, NEW i \in EditsOf[c], EditCommitFails(c, i)
      PROVE  Proved(x)'
    BY <1>4 DEF EditCommitFails, Fault
<1>5. ASSUME NEW c \in Changes, NEW i \in EditsOf[c], EditFile(c, i)
      PROVE  Proved(x)'
  <2>1. CASE c # x
    BY <1>a, <1>5, <1>u, <2>1 DEF TypeOK, EditFile
  <2>2. CASE c = x
    <3>1. Worktree(x) = branch[x] /\ job[x] = "none" /\ status'[x] # "ready"
      BY <1>a, <1>j, <1>5, <2>2, CleanWorktree DEF TypeOK, EditFile, TakesEdits, Reworked
    <3>2. tree'[x] = branch'[x]
      BY <1>a, <1>5, <2>2, <3>1 DEF TypeOK, EditFile
    <3> QED BY <1>5, <3>1, <3>2 DEF EditFile, Proved
  <2> QED BY <2>1, <2>2
<1>6. ASSUME NEW c \in Changes, beginSubmit(c)
      PROVE  Proved(x)'
  <2>1. CASE c # x
    BY <1>a, <1>6, <1>u, <2>1 DEF TypeOK, beginSubmit
  <2>2. CASE c = x
    <3>1. Worktree(x) = branch[x]
      BY <1>a, CleanWorktree
    <3> QED BY <1>a, <1>6, <2>2, <3>1 DEF TypeOK, beginSubmit, Proved
  <2> QED BY <2>1, <2>2
<1>7. ASSUME NEW c \in Changes, GateVerdict(c)
      PROVE  Proved(x)'
    BY <1>a, <1>j, <1>7 DEF TypeOK, GateVerdict, Proved
<1>8. ASSUME NEW c \in Changes, finishSubmit(c)
      PROVE  Proved(x)'
  <2>1. CASE c # x
    BY <1>a, <1>8, <1>u, <2>1 DEF TypeOK, finishSubmit
  <2>2. CASE c = x
    <3>1. UNCHANGED <<tree, branch, proof>> /\ job'[x] = "none" /\ status[x] = "building"
      BY <1>a, <1>j, <1>8, <2>2 DEF TypeOK, finishSubmit
    <3>2. status'[x] = "ready" => job[x] = "accepted"
      BY <1>a, <1>8, <2>2, <3>1 DEF TypeOK, finishSubmit
    <3> QED BY <1>a, <3>1, <3>2 DEF Proved
  <2> QED BY <2>1, <2>2
<1>9. ASSUME NEW c \in Changes, NEW a \in People \cup {NoSubject}, MergeNoFF(c, a)
      PROVE  Proved(x)'
    BY <1>9, <1>u DEF MergeNoFF
<1>10. CASE MergeRecord
    BY <1>a, <1>10 DEF TypeOK, MergeRecord, Proved
<1>11. CASE MergeRollback
    BY <1>11, <1>u DEF MergeRollback
<1>12. CASE MergeCleanup
  <2>1. mu.id \in Changes /\ status[mu.id] = "merged"
    BY <1>a, <1>12 DEF TypeOK, JobInv, MergeCleanup
  <2>2. CASE UNCHANGED <<tree, branch>>
    BY <1>12, <1>u, <2>2 DEF MergeCleanup
  <2>3. CASE /\ tree' = [tree EXCEPT ![mu.id] = NoTree]
             /\ branch' = [branch EXCEPT ![mu.id] = NoTree]
    BY <1>a, <1>j, <1>12, <2>1, <2>3 DEF TypeOK, MergeCleanup, Proved
  <2> QED BY <1>12, <2>2, <2>3 DEF MergeCleanup, cleanup
<1>13. CASE MergePush \/ MergePushFails
    BY <1>13, <1>u DEF MergePush, MergePushFails
<1>14. CASE Crash
    BY <1>a, <1>14 DEF TypeOK, Crash, Reconcile, Proved
<1>15. CASE UNCHANGED changeVars
    BY <1>15, <1>u DEF changeVars
<1> QED BY <1>1, <1>2, <1>3, <1>4, <1>5, <1>6, <1>7, <1>8, <1>9, <1>10, <1>11, <1>12,
           <1>13, <1>14, <1>15 DEF Next, ChangeNext, MergeSteps, vars

\* As long as commits in worktrees do not fail, a ready change's branch is the
\* tree that the gate accepted, although Submit drops the lock while it runs.
THEOREM ReadyAlwaysProved ==
    ASSUME "commit" \notin FaultKinds
    PROVE  Spec => []ReadyIsProved
<1>1. Init => FlowInv /\ AllProved
  <2>1. Init => AllProved
    BY DEF Init, AllProved, Proved
  <2> QED BY <2>1, FlowInit
<1>2. FlowInv /\ AllProved /\ [Next]_vars => (FlowInv /\ AllProved)'
    BY FlowStep, ProvedStep DEF AllProved
<1>3. AllProved => ReadyIsProved
    BY DEF AllProved, Proved, ReadyIsProved
<1> QED BY <1>1, <1>2, <1>3, PTL DEF Spec

(***************************************************************************)
(* With failing commits the branch may lag behind its worktree, and only   *)
(* lag behind: what is merged is still inside what the gate proved.        *)
(***************************************************************************)
\* The invariant for one change: a worktree holds at least what is committed.
Within(c) ==
    /\ tree[c] = NoTree \/ (branch[c] # NoTree /\ branch[c] \subseteq tree[c])
    /\ job[c] = "accepted" => proof[c] = tree[c]
    /\ status[c] = "ready" /\ branch[c] # NoTree => branch[c] \subseteq proof[c]

AllWithin == \A c \in Changes : Within(c)

\* What ensureWorktree yields contains what is committed on the branch.
LEMMA WorktreeWithin ==
    ASSUME NEW c \in Changes, Within(c)
    PROVE  branch[c] \subseteq Worktree(c)
BY DEF Within, Worktree

\* No step takes something out of a worktree that its branch has, and nobody
\* touches the branch of a change that is Building or Ready.
LEMMA WithinStep ==
    ASSUME FlowInv, AllWithin, [Next]_vars, NEW x \in Changes
    PROVE  Within(x)'
<1>a. TypeOK /\ JobInv /\ Within(x)
    BY DEF FlowInv, AllWithin
<1>j. job[x] # "none" => status[x] = "building" /\ tree[x] # NoTree /\ branch[x] \subseteq tree[x]
    BY <1>a, NoTreeIsNoSet DEF JobInv, Within
<1>u. ASSUME UNCHANGED <<tree[x], branch[x], job[x], status[x], proof[x]>>
      PROVE  Within(x)'
    BY <1>a, <1>u DEF Within
<1>1. ASSUME NEW c \in Changes, Open(c)
      PROVE  Within(x)'
    BY <1>a, <1>j, <1>1 DEF TypeOK, Open, Within, configVars
<1>2. ASSUME NEW c \in Changes, Abandon(c)
      PROVE  Within(x)'
  <2>1. c = x => job[x] = "none"
    BY <1>j, <1>2 DEF Abandon, CanTransition
  <2>2. CASE tree' = [tree EXCEPT ![c] = NoTree] /\ branch' = [branch EXCEPT ![c] = NoTree]
    BY <1>a, <1>2, <2>1, <2>2 DEF TypeOK, Abandon, Within
  <2>3. CASE UNCHANGED <<tree, branch>> /\ status' = [status EXCEPT ![c] = "abandoned"]
    BY <1>a, <1>2, <2>1, <2>3 DEF TypeOK, Abandon, Within
  <2> QED BY <1>2, <2>2, <2>3 DEF Abandon, cleanup
<1>3. ASSUME NEW c \in Changes, NEW i \in EditsOf[c], Edit(c, i)
      PROVE  Within(x)'
  <2>1. CASE c # x
    BY <1>a, <1>3, <1>u, <2>1 DEF TypeOK, Edit
  <2>2. CASE c = x
    <3>1. branch[x] \subseteq Worktree(x) /\ job[x] = "none" /\ status'[x] # "ready"
      BY <1>a, <1>j, <1>3, <2>2, WorktreeWithin DEF TypeOK, Edit, TakesEdits, Reworked
    <3>2. i \in Items /\ Worktree(x) \in SUBSET Items /\ branch[x] \in SUBSET Items
      BY <1>a, <1>3, <2>2, WorktreeType, ChangeAssumption DEF Edit
    <3>3. /\ tree'[x] \in SUBSET Items /\ branch'[x] \in SUBSET Items
          /\ branch'[x] \subseteq tree'[x]
      <4>1. CASE NoOp(x, i)
        BY <1>a, <1>3, <2>2, <3>1, <3>2, <4>1 DEF TypeOK, Edit
      <4>2. CASE ~NoOp(x, i)
        BY <1>a, <1>3, <2>2, <3>1, <3>2, <4>2 DEF TypeOK, Edit
      <4> QED BY <4>1, <4>2
    <3> QED BY <1>3, <3>1, <3>3, NoTreeIsNoSet DEF Edit, Within
  <2> QED BY <2>1, <2>2
<1>4. ASSUME NEW c \in Changes, NEW i \in EditsOf[c], EditCommitFails(c, i)
      PROVE  Within(x)'
  <2>1. CASE c # x
    BY <1>a, <1>4, <1>u, <2>1 DEF TypeOK, EditCommitFails
  <2>2. CASE c = x
    <3>1. /\ branch[x] \subseteq Worktree(x) /\ job[x] = "none"
          /\ status[x] # "ready" /\ branch[x] # NoTree
      BY <1>a, <1>j, <1>4, <2>2, WorktreeWithin DEF EditCommitFails, TakesEdits
    <3>2. i \in Items /\ Worktree(x) \in SUBSET Items
      BY <1>a, <1>4, <2>2, WorktreeType, ChangeAssumption DEF EditCommitFails
    <3>3. tree'[x] = Worktree(x) \cup {i} /\ UNCHANGED <<branch, job, status, proof>>
      BY <1>a, <1>4, <2>2 DEF TypeOK, EditCommitFails
    <3> QED BY <3>1, <3>2, <3>3, NoTreeIsNoSet DEF Within
  <2> QED BY <2>1, <2>2
<1>5. ASSUME NEW c \in Changes, NEW i \in EditsOf[c], EditFile(c, i)
      PROVE  Within(x)'
  <2>1. CASE c # x
    BY <1>a, <1>5, <1>u, <2>1 DEF TypeOK, EditFile
  <2>2. CASE c = x
    <3>1. branch[x] \subseteq Worktree(x) /\ job[x] = "none" /\ status'[x] # "ready"
      BY <1>a, <1>j, <1>5, <2>2, WorktreeWithin DEF TypeOK, EditFile, TakesEdits, Reworked
    <3>2. i \in Items /\ Worktree(x) \in SUBSET Items /\ branch[x] \in SUBSET Items
      BY <1>a, <1>5, <2>2, WorktreeType, ChangeAssumption DEF EditFile
    <3>3. /\ tree'[x] \in SUBSET Items /\ branch'[x] \in SUBSET Items
          /\ branch'[x] \subseteq tree'[x]
      BY <1>a, <1>5, <2>2, <3>1, <3>2 DEF TypeOK, EditFile
    <3> QED BY <1>5, <3>1, <3>3, NoTreeIsNoSet DEF EditFile, Within
  <2> QED BY <2>1, <2>2
<1>6. ASSUME NEW c \in Changes, beginSubmit(c)
      PROVE  Within(x)'
  <2>1. CASE c # x
    BY <1>a, <1>6, <1>u, <2>1 DEF TypeOK, beginSubmit
  <2>2. CASE c = x
    <3>1. branch[x] \subseteq Worktree(x)
      BY <1>a, WorktreeWithin
    <3> QED BY <1>a, <1>6, <2>2, <3>1 DEF TypeOK, beginSubmit, Within
  <2> QED BY <2>1, <2>2
<1>7. ASSUME NEW c \in Changes, GateVerdict(c)
      PROVE  Within(x)'
    BY <1>a, <1>j, <1>7 DEF TypeOK, GateVerdict, Within
<1>8. ASSUME NEW c \in Changes, finishSubmit(c)
      PROVE  Within(x)'
  <2>1. CASE c # x
    BY <1>a, <1>8, <1>u, <2>1 DEF TypeOK, finishSubmit
  <2>2. CASE c = x
    <3>1. UNCHANGED <<tree, branch, proof>> /\ job'[x] = "none" /\ status[x] = "building"
      BY <1>a, <1>j, <1>8, <2>2 DEF TypeOK, finishSubmit
    <3>2. status'[x] = "ready" => job[x] = "accepted"
      BY <1>a, <1>8, <2>2, <3>1 DEF TypeOK, finishSubmit
    <3> QED BY <1>a, <1>j, <3>1, <3>2 DEF Within
  <2> QED BY <2>1, <2>2
<1>9. ASSUME NEW c \in Changes, NEW a \in People \cup {NoSubject}, MergeNoFF(c, a)
      PROVE  Within(x)'
    BY <1>9, <1>u DEF MergeNoFF
<1>10. CASE MergeRecord
    BY <1>a, <1>10 DEF TypeOK, MergeRecord, Within
<1>11. CASE MergeRollback
    BY <1>11, <1>u DEF MergeRollback
<1>12. CASE MergeCleanup
  <2>1. mu.id \in Changes /\ status[mu.id] = "merged"
    BY <1>a, <1>12 DEF TypeOK, JobInv, MergeCleanup
  <2>2. CASE UNCHANGED <<tree, branch>>
    BY <1>12, <1>u, <2>2 DEF MergeCleanup
  <2>3. CASE /\ tree' = [tree EXCEPT ![mu.id] = NoTree]
             /\ branch' = [branch EXCEPT ![mu.id] = NoTree]
    BY <1>a, <1>j, <1>12, <2>1, <2>3 DEF TypeOK, MergeCleanup, Within
  <2> QED BY <1>12, <2>2, <2>3 DEF MergeCleanup, cleanup
<1>13. CASE MergePush \/ MergePushFails
    BY <1>13, <1>u DEF MergePush, MergePushFails
<1>14. CASE Crash
    BY <1>a, <1>14 DEF TypeOK, Crash, Reconcile, Within
<1>15. CASE UNCHANGED changeVars
    BY <1>15, <1>u DEF changeVars
<1> QED BY <1>1, <1>2, <1>3, <1>4, <1>5, <1>6, <1>7, <1>8, <1>9, <1>10, <1>11, <1>12,
           <1>13, <1>14, <1>15 DEF Next, ChangeNext, MergeSteps, vars

\* Whatever fails, nothing on the branch of a ready change is outside the tree
\* that the gate accepted.
THEOREM ReadyAlwaysWithin == Spec => []ReadyWithinProof
<1>1. Init => FlowInv /\ AllWithin
  <2>1. Init => AllWithin
    BY DEF Init, AllWithin, Within
  <2> QED BY <2>1, FlowInit
<1>2. FlowInv /\ AllWithin /\ [Next]_vars => (FlowInv /\ AllWithin)'
    BY FlowStep, WithinStep DEF AllWithin
<1>3. AllWithin => ReadyWithinProof
    BY DEF AllWithin, Within, ReadyWithinProof
<1> QED BY <1>1, <1>2, <1>3, PTL DEF Spec

(***************************************************************************)
(* A merge carries every edit that was reported as saved.                  *)
(***************************************************************************)
\* The invariant for one change: what was reported as saved is committed on the
\* branch for as long as there is one; a change without a record has no edits.
Kept(c) ==
    /\ branch[c] # NoTree => saved[c] \subseteq branch[c]
    /\ status[c] = "none" => saved[c] = {}

AllKept == \A c \in Changes : Kept(c)

\* While a merge holds both locks its branch is there and main contains it.
MergeHolds ==
    mu.pc \in {"gate", "cleanup"} => branch[mu.id] # NoTree /\ branch[mu.id] \subseteq local

SaveInv == FlowInv /\ AllProved /\ AllKept /\ MergeHolds

\* An edit is committed before it is reported, and nothing takes a commit off a
\* branch: a branch is only ever extended or removed.
LEMMA KeptStep ==
    ASSUME "commit" \notin FaultKinds, SaveInv, [Next]_vars, NEW x \in Changes
    PROVE  Kept(x)'
<1>a. TypeOK /\ Kept(x) /\ Proved(x)
    BY DEF SaveInv, FlowInv, AllKept, AllProved
<1>u. ASSUME branch'[x] \in {branch[x], NoTree}, saved'[x] = saved[x],
             status'[x] = "none" => status[x] = "none"
      PROVE  Kept(x)'
    BY <1>a, <1>u DEF Kept
<1>1. ASSUME NEW c \in Changes, Open(c)
      PROVE  Kept(x)'
  <2>1. CASE c # x
    BY <1>a, <1>1, <1>u, <2>1 DEF TypeOK, Open
  <2>2. CASE c = x
    BY <1>a, <1>1, <2>2 DEF TypeOK, Open, Kept
  <2> QED BY <2>1, <2>2
<1>2. ASSUME NEW c \in Changes, Abandon(c)
      PROVE  Kept(x)'
    BY <1>a, <1>2, <1>u DEF TypeOK, Abandon, cleanup
<1>3. ASSUME NEW c \in Changes, NEW i \in EditsOf[c], Edit(c, i)
      PROVE  Kept(x)'
  <2>1. CASE c # x
    BY <1>a, <1>3, <1>u, <2>1 DEF TypeOK, Edit
  <2>2. CASE c = x
    <3>1. Worktree(x) = branch[x] /\ branch[x] # NoTree /\ status'[x] # "none"
      BY <1>a, <1>3, <2>2, CleanWorktree DEF TypeOK, Edit, TakesEdits, Reworked
    <3>2. branch'[x] = branch[x] \cup {i}
      BY <1>a, <1>3, <2>2, <3>1 DEF TypeOK, Edit, NoOp
    <3>3. saved'[x] \subseteq saved[x] \cup {i}
      BY <1>a, <1>3, <2>2 DEF TypeOK, Edit
    <3> QED BY <1>a, <3>1, <3>2, <3>3 DEF Kept
  <2> QED BY <2>1, <2>2
<1>4. ASSUME NEW c \in Changes, NEW i \in EditsOf[c], EditCommitFails(c, i)
      PROVE  Kept(x)'
    BY <1>4 DEF EditCommitFails, Fault
<1>5. ASSUME NEW c \in Changes, NEW i \in EditsOf[c], EditFile(c, i)
      PROVE  Kept(x)'
  <2>1. CASE c # x
    BY <1>a, <1>5, <1>u, <2>1 DEF TypeOK, EditFile
  <2>2. CASE c = x
    <3>1. Worktree(x) = branch[x] /\ branch[x] # NoTree /\ status'[x] # "none"
      BY <1>a, <1>5, <2>2, CleanWorktree DEF TypeOK, EditFile, TakesEdits, Reworked
    <3>2. branch'[x] = branch[x] \cup {i}
      BY <1>a, <1>5, <2>2, <3>1 DEF TypeOK, EditFile
    <3>3. saved'[x] \subseteq saved[x] \cup {i}
      BY <1>a, <1>5, <2>2 DEF TypeOK, EditFile
    <3> QED BY <1>a, <3>1, <3>2, <3>3 DEF Kept
  <2> QED BY <2>1, <2>2
<1>6. ASSUME NEW c \in Changes, beginSubmit(c) \/ GateVerdict(c) \/ finishSubmit(c)
      PROVE  Kept(x)'
    BY <1>a, <1>6, <1>u DEF TypeOK, beginSubmit, GateVerdict, finishSubmit
<1>7. ASSUME NEW c \in Changes, NEW a \in People \cup {NoSubject}, MergeNoFF(c, a)
      PROVE  Kept(x)'
    BY <1>7, <1>u DEF MergeNoFF
<1>8. CASE MergeRecord \/ MergeRollback \/ MergePush \/ MergePushFails
    BY <1>a, <1>8, <1>u DEF TypeOK, MergeRecord, MergeRollback, MergePush, MergePushFails
<1>9. CASE MergeCleanup
    BY <1>a, <1>9, <1>u DEF TypeOK, MergeCleanup, cleanup
<1>10. CASE Crash
    BY <1>a, <1>10, <1>u DEF TypeOK, Crash, Reconcile
<1>11. CASE UNCHANGED changeVars
    BY <1>11, <1>u DEF changeVars
<1> QED BY <1>1, <1>2, <1>3, <1>4, <1>5, <1>6, <1>7, <1>8, <1>9, <1>10, <1>11
        DEF Next, ChangeNext, MergeSteps, vars

\* While the merge waits for its gate and its record nobody else moves main in
\* the clone, and nobody edits or abandons the change.
LEMMA MergeHoldsStep ==
    ASSUME SaveInv, [Next]_vars
    PROVE  MergeHolds'
<1>a. TypeOK /\ MergeHolds /\ (tx.pc = "merge" <=> mu.pc \in {"gate", "cleanup"})
    BY DEF SaveInv, FlowInv, TypeOK
<1>u. ASSUME UNCHANGED <<mu, branch>>, mu.pc \in {"gate", "cleanup"} => local' = local
      PROVE  MergeHolds'
    BY <1>a, <1>u DEF MergeHolds
<1>f. ASSUME mu'.pc \notin {"gate", "cleanup"}
      PROVE  MergeHolds'
    BY <1>f DEF MergeHolds
<1>1. ASSUME NEW c \in Changes, Open(c) \/ Abandon(c)
      PROVE  MergeHolds'
    BY <1>1, <1>f DEF Open, Abandon
<1>2. ASSUME NEW c \in Changes, NEW i \in EditsOf[c],
             Edit(c, i) \/ EditCommitFails(c, i) \/ EditFile(c, i)
      PROVE  MergeHolds'
    BY <1>2, <1>f DEF Edit, EditCommitFails, EditFile
<1>3. ASSUME NEW c \in Changes, beginSubmit(c) \/ GateVerdict(c) \/ finishSubmit(c)
      PROVE  MergeHolds'
    BY <1>3, <1>u DEF beginSubmit, GateVerdict, finishSubmit, configVars
<1>4. ASSUME NEW c \in Changes, NEW a \in People \cup {NoSubject}, MergeNoFF(c, a)
      PROVE  MergeHolds'
    BY <1>4 DEF MergeNoFF, MergeHolds
<1>5. CASE MergeRecord
    BY <1>a, <1>5 DEF TypeOK, MergeRecord, MuFree, MergeHolds
<1>6. CASE MergeRollback \/ MergePush \/ MergePushFails \/ Crash
    BY <1>6, <1>f DEF MergeRollback, MergePush, MergePushFails, Crash, MuFree
<1>7. CASE MergeCleanup
    BY <1>a, <1>7, <1>f DEF TypeOK, MergeCleanup
<1>8. CASE ConfigNext /\ UNCHANGED changeVars
  <2>1. tx.pc = "merge" => local' = local
    BY <1>8 DEF ConfigNext, Tx, Apply, TxSync, TxApply, TxRefused, TxPush, TxConflict,
                TxFails, SyncLoop, Engineer
  <2> QED BY <1>a, <1>8, <1>u, <2>1 DEF changeVars
<1>9. CASE UNCHANGED vars
    BY <1>9, <1>u DEF vars, configVars, changeVars
<1> QED BY <1>1, <1>2, <1>3, <1>4, <1>5, <1>6, <1>7, <1>8, <1>9 DEF Next, ChangeNext, MergeSteps

\* As long as commits in worktrees do not fail, a change that is recorded as
\* merged has taken every edit that was reported as saved to main in the clone,
\* whatever else failed or ran in between.  (With failing commits it is false.)
THEOREM SavedEditsAlwaysMerged ==
    ASSUME "commit" \notin FaultKinds
    PROVE  Spec => []SavedEditsMerged
<1>1. Init => SaveInv
  <2>1. Init => AllProved /\ AllKept /\ MergeHolds
    BY DEF Init, AllProved, Proved, AllKept, Kept, MergeHolds, MuFree
  <2> QED BY <2>1, FlowInit DEF SaveInv
<1>2. SaveInv /\ [Next]_vars => SaveInv'
    BY FlowStep, ProvedStep, KeptStep, MergeHoldsStep DEF SaveInv, AllProved, AllKept
<1>3. SaveInv => SavedEditsMerged
  <2>1. SUFFICES ASSUME SaveInv, mu.pc = "cleanup" PROVE saved[mu.id] \subseteq local
    BY DEF SavedEditsMerged
  <2>2. mu.id \in Changes
    BY <2>1 DEF SaveInv, FlowInv, TypeOK
  <2> QED BY <2>1, <2>2 DEF SaveInv, AllKept, Kept, MergeHolds
<1> QED BY <1>1, <1>2, <1>3, PTL DEF Spec
=============================================================================
