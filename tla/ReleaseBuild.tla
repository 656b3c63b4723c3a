---------------------------- MODULE ReleaseBuild ----------------------------
(***************************************************************************)
(* Build before promote: the rollout's RemoteBuilder                       *)
(* (src/internal/adapters/gate/remotebuild.go), the runner's poll-style    *)
(* job API (src/cmd/gate-runner/build.go) and the Publisher that realises  *)
(* and copies a release into the binary cache                              *)
(* (src/internal/adapters/nix/release.go).                                 *)
(*                                                                         *)
(* A job runs in a goroutine of its own, outlives the call that started it *)
(* and shares one slot, the clone and the directory build-<rev> with the   *)
(* others.  The job table dies with the process, the cache does not.       *)
(***************************************************************************)
EXTENDS Integers, Sequences, FiniteSets

CONSTANTS
    BuildKeys,          \* SUBSET [rev, hosts]: a revision and a host sequence
    ReleaseChunk,       \* host toplevels per nix process; 0 is one process
    MaxBuildFaults      \* bound: failed commands, lost answers, cancels, restarts

ASSUME ReleaseAssumption ==
    /\ ReleaseChunk \in Int
    /\ \A k \in BuildKeys : k.hosts \in Seq(STRING)

VARIABLES
    builds,     \* [BuildKeys -> phase]: the job table
    cancels,    \* keys whose stop switch is registered
    job,        \* [BuildKeys -> the goroutine: pc, ctx, next batch, error]
    slot,       \* who holds buildSlot
    trees,      \* revisions with a scratch worktree on disk
    cached,     \* <<rev, host>> in the binary cache
    told,       \* [BuildKeys -> what the rollout last heard]
    buildFaults

releaseVars == <<builds, cancels, job, slot, trees, cached, told, buildFaults>>

NoKey  == [rev |-> 0, hosts |-> <<>>]
NoJob  == [pc |-> "none", ctx |-> FALSE, next |-> 1, err |-> FALSE]

BuildFault == buildFaults < MaxBuildFaults /\ buildFaults' = buildFaults + 1

\* chunk, of the publisher.
Batches(hosts) ==
    IF ReleaseChunk <= 0 \/ Len(hosts) <= ReleaseChunk THEN <<hosts>>
    ELSE [i \in 1..((Len(hosts) + ReleaseChunk - 1) \div ReleaseChunk) |->
            SubSeq(hosts, (i - 1) * ReleaseChunk + 1,
                   IF i * ReleaseChunk > Len(hosts) THEN Len(hosts) ELSE i * ReleaseChunk)]

(***************************************************************************)
(* The job API.                                                            *)
(***************************************************************************)
\* Start the job, or leave it as it is; the answer is the entry.
handleBuild(k) ==
    IF builds[k] = "absent"
    THEN /\ builds' = [builds EXCEPT ![k] = "building"]
         /\ cancels' = cancels \cup {k}
         /\ job' = [job EXCEPT ![k] = [NoJob EXCEPT !.pc = "slot"]]
    ELSE UNCHANGED <<builds, cancels, job>>

\* The rollout's poll.  An answer that is lost, or that is no 200, is an error:
\* the rollout keeps what it knew and asks again, and the job runs all the same.
\* A runner that was never reached changes nothing.
EnsureBuilt(k) ==
    /\ handleBuild(k)
    /\ \/ told' = [told EXCEPT ![k] = builds'[k]] /\ UNCHANGED buildFaults
       \/ BuildFault /\ UNCHANGED told
    /\ UNCHANGED <<slot, trees, cached>>

\* Every stop switch at once; the entries stay until their goroutines notice.
handleBuildCancel ==
    /\ job' = [k \in BuildKeys |-> IF k \in cancels THEN [job[k] EXCEPT !.ctx = TRUE] ELSE job[k]]
    /\ cancels' = {}
    /\ UNCHANGED builds

\* Best-effort: the caller goes on whether or not the runner hears it.
CancelBuilds ==
    /\ cancels # {} /\ BuildFault
    /\ handleBuildCancel
    /\ UNCHANGED <<slot, trees, cached, told>>

(***************************************************************************)
(* The job.                                                                *)
(***************************************************************************)
takeSlot(k) ==
    /\ job[k].pc = "slot" /\ slot = NoKey
    /\ slot' = k
    /\ job' = [job EXCEPT ![k].pc = "fetch"]
    /\ UNCHANGED <<builds, cancels, trees, cached, told, buildFaults>>

\* A command of the job fails: on its own, or because its context has ended.
CommandFails(k) == (job[k].ctx /\ UNCHANGED buildFaults) \/ BuildFault

fetch(k) ==
    /\ job[k].pc = "fetch"
    /\ \/ /\ ~job[k].ctx
          /\ job' = [job EXCEPT ![k].pc = "checkout"]
          /\ UNCHANGED buildFaults
       \/ CommandFails(k) /\ job' = [job EXCEPT ![k].pc = "record", ![k].err = TRUE]
    /\ UNCHANGED <<builds, cancels, slot, trees, cached, told>>

\* A leftover worktree of the revision is removed, a fresh one added.
checkout(k) ==
    /\ job[k].pc = "checkout"
    /\ \/ /\ ~job[k].ctx
          /\ trees' = trees \cup {k.rev}
          /\ job' = [job EXCEPT ![k].pc = "publish"]
          /\ UNCHANGED buildFaults
       \/ /\ CommandFails(k)
          /\ trees' \in {trees, trees \ {k.rev}}
          /\ job' = [job EXCEPT ![k].pc = "record", ![k].err = TRUE]
    /\ UNCHANGED <<builds, cancels, slot, cached, told>>

\* Seeded fault: the release is published after its first batch.
LastBatchFirst(k) == TRUE

LastBatch(k) == job[k].next = Len(Batches(k.hosts))

\* Publish: realise a batch, copy it; stop at the first failure.
Publish(k) ==
    /\ job[k].pc = "publish"
    /\ \/ /\ ~job[k].ctx
          /\ LET batch == Batches(k.hosts)[job[k].next] IN
             cached' = cached \cup {<<k.rev, batch[i]>> : i \in DOMAIN batch}
          /\ job' = [job EXCEPT ![k].pc = IF LastBatch(k) THEN "cleanup" ELSE @,
                                ![k].next = @ + 1]
          /\ UNCHANGED buildFaults
       \/ /\ CommandFails(k) /\ UNCHANGED cached
          /\ job' = [job EXCEPT ![k].pc = "cleanup", ![k].err = TRUE]
    /\ UNCHANGED <<builds, cancels, slot, trees, told>>

\* The deferred removal runs under the same context: a cancelled job leaks it.
removeWorktree(k) ==
    /\ job[k].pc = "cleanup"
    /\ \/ ~job[k].ctx /\ trees' = trees \ {k.rev} /\ UNCHANGED buildFaults
       \/ CommandFails(k) /\ UNCHANGED trees
    /\ job' = [job EXCEPT ![k].pc = "record"]
    /\ UNCHANGED <<builds, cancels, slot, cached, told>>

\* Seeded fault: a cancelled job just returns.
runBuildReturns(k) ==
    /\ job[k].pc = "record"
    /\ builds' = [builds EXCEPT ![k] = IF job[k].ctx THEN @ ELSE IF job[k].err THEN "failed" ELSE "done"]
    /\ cancels' = cancels \ {k}
    /\ job' = [job EXCEPT ![k] = NoJob]
    /\ slot' = NoKey
    /\ UNCHANGED <<trees, cached, told, buildFaults>>

\* The verdict of runBuild, then the slot.  A cancelled build is no failed
\* release: its entry goes, and the next poll starts it again.
runBuild(k) ==
    /\ job[k].pc = "record"
    /\ builds' = [builds EXCEPT ![k] =
                    IF job[k].ctx THEN "absent" ELSE IF job[k].err THEN "failed" ELSE "done"]
    /\ cancels' = cancels \ {k}
    /\ job' = [job EXCEPT ![k] = NoJob]
    /\ slot' = NoKey
    /\ UNCHANGED <<trees, cached, told, buildFaults>>

\* The runner is killed and starts again.
RunnerRestart ==
    /\ BuildFault
    /\ builds' = [k \in BuildKeys |-> "absent"] /\ cancels' = {}
    /\ job' = [k \in BuildKeys |-> NoJob] /\ slot' = NoKey
    /\ UNCHANGED <<trees, cached, told>>

ReleaseInit ==
    /\ builds = [k \in BuildKeys |-> "absent"] /\ cancels = {}
    /\ job = [k \in BuildKeys |-> NoJob] /\ slot = NoKey
    /\ trees = {} /\ cached = {}
    /\ told = [k \in BuildKeys |-> "none"] /\ buildFaults = 0

JobStep(k) ==
    takeSlot(k) \/ fetch(k) \/ checkout(k) \/ Publish(k) \/ removeWorktree(k) \/ runBuild(k)

ReleaseNext ==
    \/ \E k \in BuildKeys : EnsureBuilt(k) \/ JobStep(k)
    \/ CancelBuilds \/ RunnerRestart

ReleaseSpec == ReleaseInit /\ [][ReleaseNext]_releaseVars

(***************************************************************************)
(* Properties.                                                             *)
(***************************************************************************)
\* A release reported as done is in the cache, every host of it, also after
\* cancels, failures and restarts of the runner: the wave it unlocks downloads.
DoneIsPublished ==
    \A k \in BuildKeys : told[k] = "done" =>
        \A i \in DOMAIN k.hosts : <<k.rev, k.hosts[i]>> \in cached

\* A build the rollout waits for comes to an end: an entry never stays "building"
\* without a job behind it, not even when the job was cancelled.
BuildSettles == []<>(\A k \in BuildKeys : builds[k] # "building")
=============================================================================
