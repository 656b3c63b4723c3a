----------------------------- MODULE ChangeFlow -----------------------------
(***************************************************************************)
(* The change-request flow (src/internal/app/change.go) on top of the      *)
(* configuration plane it shares main, the write lock and the gate with.   *)
(*                                                                         *)
(*  - A change is a record in the store, a branch cr/<id> and a worktree   *)
(*    on that branch.  branch holds what is committed there, tree what the *)
(*    worktree's files contain; they differ after a commit that failed.    *)
(*  - mu is the service mutex.  Open, Edit and Abandon hold it for one     *)
(*    step.  Submit drops it while the gate runs.  Merge holds it to the   *)
(*    end, the write lock (tx.pc = "merge") only until the push.           *)
(*  - The store write of an operation may fail after its git work is done, *)
(*    and the process may crash between any two steps.                     *)
(***************************************************************************)
EXTENDS ConfigPlane

CONSTANTS
    Changes,        \* change ids
    EditsOf,        \* [Changes -> SUBSET Items]: what each may be edited with
    Files,          \* items staged with EditFile, without a gate of their own
    People, NoSubject,
    AuthorOf,       \* [Changes -> People \cup {NoSubject}]
    RequireFourEyes

ASSUME ChangeAssumption ==
    /\ EditsOf \in [Changes -> SUBSET Items]
    /\ NoItem \notin Changes
    /\ RequireFourEyes \in BOOLEAN

VARIABLES
    status,     \* [Changes -> status]; "none" has no record
    branch, tree,
    job,        \* [Changes -> the submit under way and its verdict]
    mu,         \* [pc, id, pre]: the merge that holds the service mutex
    \* history: the tree the gate accepted, edits reported as saved, merges
    \* reported as landed
    proof, saved, landed

changeVars == <<status, branch, tree, job, mu, proof, saved, landed>>
vars       == <<configVars, changeVars>>

NoTree == {NoItem}      \* no branch / no worktree
MuFree == [pc |-> "free", id |-> NoItem, pre |-> {}]

(***************************************************************************)
(* domain/change: the legal steps of a record.                             *)
(***************************************************************************)
CanTransition(from, to) ==
    <<from, to>> \in
        {<<"draft", "building">>, <<"draft", "abandoned">>,
         <<"building", "ready">>, <<"building", "failed">>,
         <<"failed", "draft">>, <<"failed", "building">>, <<"failed", "abandoned">>,
         <<"ready", "merged">>, <<"ready", "draft">>, <<"ready", "abandoned">>}

\* Seeded fault: a change being gated still takes edits.
TakesEditsAnyTime(c) == status[c] \in {"draft", "failed", "building"}

TakesEdits(c) == status[c] \in {"draft", "failed"}

\* A reworked failed change moves back to draft.
Reworked(st) == IF st = "failed" THEN "draft" ELSE st

\* ensureWorktree: an existing worktree, or a fresh checkout of the branch.
Worktree(c) == IF tree[c] = NoTree THEN branch[c] ELSE tree[c]

\* Best effort: a worktree and a branch that are not removed are only logged.
cleanup(c) ==
    \/ /\ branch' = [branch EXCEPT ![c] = NoTree]
       /\ tree' = [tree EXCEPT ![c] = NoTree]
       /\ UNCHANGED faults
    \/ Fault("cleanup") /\ UNCHANGED <<branch, tree>>

(***************************************************************************)
(* Open, edit, abandon.                                                    *)
(***************************************************************************)
Open(c) ==
    /\ mu.pc = "free"
    /\ status[c] = "none" /\ branch[c] = NoTree
    /\ branch' = [branch EXCEPT ![c] = local]
    /\ status' = [status EXCEPT ![c] = "draft"]
    /\ UNCHANGED <<configVars, tree, job, mu, proof, saved, landed>>

\* Seeded fault: the no-op test reads the served document.
NoOpAgainstMain(c, i) == i \in snapshot

\* applyTx: the mutation yields the document the worktree already holds.
NoOp(c, i) == i \in Worktree(c)

\* One gated edit.  Committing fleet.json takes along whatever an earlier,
\* failed commit left in it.
Edit(c, i) ==
    /\ mu.pc = "free" /\ TakesEdits(c) /\ branch[c] # NoTree
    /\ i \notin Files
    /\ LET next == IF NoOp(c, i) THEN Worktree(c) ELSE Worktree(c) \cup {i} IN
        /\ NoOp(c, i) \/ Valid(next)
        /\ tree' = [tree EXCEPT ![c] = next]
        /\ branch' = [branch EXCEPT ![c] = IF NoOp(c, i) THEN @ ELSE next]
    /\ \/ /\ status' = [status EXCEPT ![c] = Reworked(@)]
          /\ saved' = [saved EXCEPT ![c] = @ \cup {i}]
          /\ UNCHANGED faults
       \/ Fault("put") /\ UNCHANGED <<status, saved>>
    /\ UNCHANGED <<remote, local, snapshot, tx, acked, job, mu, proof, landed>>

\* The gate accepts, the commit fails: the file keeps the edit.
EditCommitFails(c, i) ==
    /\ mu.pc = "free" /\ TakesEdits(c) /\ branch[c] # NoTree
    /\ i \notin Files /\ ~NoOp(c, i) /\ Valid(Worktree(c) \cup {i})
    /\ Fault("commit")
    /\ tree' = [tree EXCEPT ![c] = Worktree(c) \cup {i}]
    /\ UNCHANGED <<remote, local, snapshot, tx, acked, status, branch, job, mu,
                   proof, saved, landed>>

\* A raw file.  The commit takes what is staged: also fleet.json, when an
\* earlier commit failed after staging it.
EditFile(c, i) ==
    /\ mu.pc = "free" /\ TakesEdits(c) /\ branch[c] # NoTree
    /\ i \in Files \ Worktree(c)
    /\ tree' = [tree EXCEPT ![c] = Worktree(c) \cup {i}]
    /\ \E base \in {branch[c], Worktree(c)} : branch' = [branch EXCEPT ![c] = base \cup {i}]
    /\ \/ /\ status' = [status EXCEPT ![c] = Reworked(@)]
          /\ saved' = [saved EXCEPT ![c] = @ \cup {i}]
          /\ UNCHANGED faults
       \/ Fault("put") /\ UNCHANGED <<status, saved>>
    /\ UNCHANGED <<remote, local, snapshot, tx, acked, job, mu, proof, landed>>

\* The branch goes first, the record second.
Abandon(c) ==
    /\ mu.pc = "free" /\ CanTransition(status[c], "abandoned")
    /\ \/ cleanup(c) /\ status' = [status EXCEPT ![c] = "abandoned"]
       \/ /\ Fault("put") /\ UNCHANGED status
          /\ branch' = [branch EXCEPT ![c] = NoTree]
          /\ tree' = [tree EXCEPT ![c] = NoTree]
    /\ UNCHANGED <<remote, local, snapshot, tx, acked, job, mu, proof, saved, landed>>

(***************************************************************************)
(* Submit: beginSubmit, the gate without the lock, finishSubmit.           *)
(***************************************************************************)
beginSubmit(c) ==
    /\ mu.pc = "free" /\ CanTransition(status[c], "building") /\ branch[c] # NoTree
    /\ tree' = [tree EXCEPT ![c] = Worktree(c)]
    /\ status' = [status EXCEPT ![c] = "building"]
    /\ job' = [job EXCEPT ![c] = "gating"]
    /\ UNCHANGED <<configVars, branch, mu, proof, saved, landed>>

\* An empty diff against main's head is refused; the gate or the build may say
\* no, or not answer, to anything.
GateVerdict(c) ==
    /\ job[c] = "gating"
    /\ \/ job' = [job EXCEPT ![c] = "rejected"] /\ UNCHANGED proof
       \/ /\ ~(branch[c] \subseteq local) /\ Valid(tree[c])
          /\ job' = [job EXCEPT ![c] = "accepted"]
          /\ proof' = [proof EXCEPT ![c] = tree[c]]
    /\ UNCHANGED <<configVars, status, branch, tree, mu, saved, landed>>

\* Seeded fault: a refused submit returns without recording its verdict.
finishSubmitOnAccept(c) ==
    /\ mu.pc = "free" /\ job[c] \in {"accepted", "rejected"}
    /\ job' = [job EXCEPT ![c] = "none"]
    /\ status' = IF job[c] = "accepted" THEN [status EXCEPT ![c] = "ready"] ELSE status
    /\ UNCHANGED <<configVars, branch, tree, mu, proof, saved, landed>>

finishSubmit(c) ==
    /\ mu.pc = "free" /\ job[c] \in {"accepted", "rejected"}
    /\ job' = [job EXCEPT ![c] = "none"]
    /\ LET to == IF job[c] = "accepted" THEN "ready" ELSE "failed" IN
        \/ /\ status' = IF CanTransition(status[c], to)
                        THEN [status EXCEPT ![c] = to] ELSE status
           /\ UNCHANGED faults
        \/ Fault("put") /\ UNCHANGED status
    /\ UNCHANGED <<remote, local, snapshot, tx, acked, branch, tree, mu, proof, saved, landed>>

(***************************************************************************)
(* Merge: under both locks up to the reload, the push under mu alone.      *)
(***************************************************************************)
MayMerge(c, a) ==
    /\ status[c] = "ready"
    /\ RequireFourEyes => AuthorOf[c] # NoSubject /\ a # NoSubject /\ AuthorOf[c] # a

\* Head, then MergeNoFF.  A conflict aborts the merge and changes nothing; a
\* branch that main already contains merges again without a commit.
MergeNoFF(c, a) ==
    /\ mu.pc = "free" /\ tx.pc = "free"
    /\ MayMerge(c, a) /\ branch[c] # NoTree
    /\ mu' = [pc |-> "gate", id |-> c, pre |-> local]
    /\ tx' = [Free EXCEPT !.pc = "merge"]
    /\ local' = local \cup branch[c]
    /\ UNCHANGED <<remote, snapshot, acked, faults, status, branch, tree, job, proof, saved, landed>>

\* Seeded fault: the branch was proved at submit, so its merge is not.
MergedResultTrusted == TRUE

MergedResultPasses == Valid(local)

\* The gate accepts the merged tree; Merged is recorded before anything else.
\* If that write fails the merge stays in the clone, not pushed, not reloaded.
MergeRecord ==
    /\ mu.pc = "gate" /\ MergedResultPasses
    /\ \/ /\ status' = [status EXCEPT ![mu.id] = "merged"]
          /\ mu' = [mu EXCEPT !.pc = "cleanup"]
          /\ UNCHANGED <<tx, faults>>
       \/ Fault("put") /\ mu' = MuFree /\ tx' = Free /\ UNCHANGED status
    /\ UNCHANGED <<remote, local, snapshot, acked, branch, tree, job, proof, saved, landed>>

\* Seeded fault: the rolled-back merge keeps the write lock.
MergeRollbackLocked ==
    /\ mu.pc = "gate"
    /\ mu' = MuFree
    /\ local' = mu.pre
    /\ UNCHANGED <<remote, snapshot, tx, acked, faults, status, branch, tree, job, proof,
                   saved, landed>>

\* The gate refuses or does not answer: back to the captured head, unless the
\* reset fails too.
MergeRollback ==
    /\ mu.pc = "gate"
    /\ mu' = MuFree /\ tx' = Free
    /\ \/ local' = mu.pre /\ UNCHANGED faults
       \/ Fault("reset") /\ UNCHANGED local
    /\ UNCHANGED <<remote, snapshot, acked, status, branch, tree, job, proof, saved, landed>>

\* cleanup, reload, and the write lock is released.
MergeCleanup ==
    /\ mu.pc = "cleanup"
    /\ cleanup(mu.id)
    /\ snapshot' = local
    /\ tx' = Free
    /\ mu' = [mu EXCEPT !.pc = "push"]
    /\ UNCHANGED <<remote, local, acked, status, job, proof, saved, landed>>

\* Push sends whatever main is by now; afterMerge runs when it reports success.
MergePush ==
    /\ mu.pc = "push" /\ FastForward
    /\ remote' = local
    /\ landed' = landed \cup {mu.id}
    /\ mu' = MuFree
    /\ UNCHANGED <<local, snapshot, tx, acked, faults, status, branch, tree, job, proof, saved>>

\* A conflict or an error: "merged locally, push failed".
MergePushFails ==
    /\ mu.pc = "push"
    /\ \/ ~FastForward /\ UNCHANGED <<remote, faults>>
       \/ Fault("push") /\ remote' \in {remote} \cup (IF FastForward THEN {local} ELSE {})
    /\ mu' = MuFree
    /\ UNCHANGED <<local, snapshot, tx, acked, status, branch, tree, job, proof, saved, landed>>

(***************************************************************************)
(* A crash and the restart after it: the snapshot is read from the clone   *)
(* as it is, then Reconcile lets git decide.                               *)
(***************************************************************************)
BranchMerged(c) == branch[c] # NoTree /\ branch[c] \subseteq local

Reconcile ==
    LET found   == {c \in Changes : status[c] = "ready" /\ BranchMerged(c)}
        settled == {c \in Changes : status[c] \in {"merged", "abandoned"}}
    IN  /\ status' = [c \in Changes |-> IF c \in found THEN "merged" ELSE status[c]]
        /\ branch' = [c \in Changes |-> IF c \in found \cup settled THEN NoTree ELSE branch[c]]
        /\ tree' = [c \in Changes |-> IF c \in found \cup settled THEN NoTree ELSE tree[c]]

Crash ==
    /\ Fault("crash")
    /\ tx' = Free /\ mu' = MuFree
    /\ job' = [c \in Changes |-> "none"]
    /\ snapshot' = local
    /\ Reconcile
    /\ UNCHANGED <<remote, local, acked, proof, saved, landed>>

(***************************************************************************)
(* The specification.                                                      *)
(***************************************************************************)
Init ==
    /\ ConfigInit
    /\ status = [c \in Changes |-> "none"]
    /\ branch = [c \in Changes |-> NoTree] /\ tree = [c \in Changes |-> NoTree]
    /\ job = [c \in Changes |-> "none"]
    /\ mu = MuFree
    /\ proof = [c \in Changes |-> {}] /\ saved = [c \in Changes |-> {}] /\ landed = {}

MergeSteps == MergeRecord \/ MergeRollback \/ MergeCleanup \/ MergePush \/ MergePushFails

ChangeNext ==
    \/ \E c \in Changes : Open(c) \/ Abandon(c)
    \/ \E c \in Changes : \E i \in EditsOf[c] : Edit(c, i) \/ EditCommitFails(c, i) \/ EditFile(c, i)
    \/ \E c \in Changes : beginSubmit(c) \/ GateVerdict(c) \/ finishSubmit(c)
    \/ \E c \in Changes, a \in People \cup {NoSubject} : MergeNoFF(c, a)
    \/ MergeSteps
    \/ Crash

Next == (ConfigNext /\ UNCHANGED changeVars) \/ ChangeNext

Spec == Init /\ [][Next]_vars

\* Every step of a transaction and of a merge is bounded by a timeout, so locks
\* are released; the gate answers or times out; a Go mutex lets a waiting
\* finishSubmit in.
Fairness ==
    /\ WF_vars(Tx /\ UNCHANGED changeVars)
    /\ WF_vars(MergeSteps)
    /\ \A c \in Changes : WF_vars(GateVerdict(c)) /\ SF_vars(finishSubmit(c))

FairSpec == Spec /\ Fairness

(***************************************************************************)
(* Properties.                                                             *)
(***************************************************************************)
Statuses == {"none", "draft", "building", "failed", "ready", "merged", "abandoned"}
Trees    == (SUBSET Items) \cup {NoTree}

\* Types, and the lock order: the write lock is held for a merge exactly while
\* one is in its locked part, and the service mutex is held for some change.
TypeOK ==
    /\ ConfigTypeOK
    /\ status \in [Changes -> Statuses]
    /\ branch \in [Changes -> Trees] /\ tree \in [Changes -> Trees]
    /\ job \in [Changes -> {"none", "gating", "accepted", "rejected"}]
    /\ mu \in [pc : {"free", "gate", "cleanup", "push"},
               id : Changes \cup {NoItem}, pre : SUBSET Items]
    /\ mu.pc # "free" => mu.id \in Changes
    /\ proof \in [Changes -> SUBSET Items] /\ saved \in [Changes -> SUBSET Items]
    /\ landed \in SUBSET Changes
    /\ tx.pc = "merge" <=> mu.pc \in {"gate", "cleanup"}

\* What an approver merges is what the gate proved: while a change is ready, its
\* branch is the tree the gate accepted, although Submit ran the gate unlocked.
ReadyIsProved ==
    \A c \in Changes : status[c] = "ready" /\ branch[c] # NoTree => branch[c] = proof[c]

\* The half of it that failed commits leave intact: nothing on the branch of a
\* ready change is outside the tree the gate accepted, although a commit takes
\* along whatever an earlier, failed one left in the worktree.
ReadyWithinProof ==
    \A c \in Changes : status[c] = "ready" /\ branch[c] # NoTree => branch[c] \subseteq proof[c]

\* A merge carries every edit the flow reported as saved: when Merged has been
\* recorded, main in the clone contains them.
SavedEditsMerged == mu.pc = "cleanup" => saved[mu.id] \subseteq local

\* A submit always ends: a change leaves Building unless something failed.
SubmitEnds ==
    \A c \in Changes : status[c] = "building" ~> (status[c] # "building" \/ faults > 0)

\* A merge that was reported as landed has landed: the edits of the change are on
\* main on the remote, where the delivery that afterMerge starts will look.
LandedIsPublished == \A c \in landed : saved[c] \subseteq remote
=============================================================================
