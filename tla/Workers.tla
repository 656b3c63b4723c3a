------------------------------ MODULE Workers ------------------------------
(***************************************************************************)
(* The committing background workers of a console that runs as several     *)
(* replicas: leader election over a database session's advisory lock       *)
(* (src/internal/adapters/postgres/leader.go), the workers the leader runs *)
(* (src/cmd/sextant/capabilities.go) and, step by step, the one that       *)
(* stages core updates (src/internal/app/upstream.go).                     *)
(*                                                                         *)
(* The watcher is joined before the lock is given up; the rollout ticker,  *)
(* started with go, is not.  A session can die without its replica         *)
(* noticing until the next ping.                                           *)
(***************************************************************************)
EXTENDS Integers, Sequences, FiniteSets

CONSTANTS
    Replicas,
    MaxHead,        \* bound: upstream revisions
    MaxWorkFaults   \* bound: crashes, lost sessions, failed calls

ASSUME WorkersAssumption == "none" \notin Replicas

VARIABLES
    lead,       \* [Replicas -> where LeaderLoop is]
    session,    \* [Replicas -> is the connection that took the lock alive]
    advisory,   \* the replica whose session holds the lock, or NoReplica
    ticker,     \* [Replicas -> does the rollout ticker run]
    lateTicks,  \* replicas where one of an earlier leadership still does
    watch,      \* [Replicas -> the upstream watcher]
    head,       \* the upstream repository's head
    seen,       \* the last revision recorded, 0 for none
    cores,      \* [1..MaxHead -> status of the change core-<rev>]
    coreBranch, \* revisions whose change branch exists
    resubmitted,\* core updates a reviewer has submitted
    workFaults

workerVars == <<lead, session, advisory, ticker, lateTicks, watch, head, seen,
                cores, coreBranch, resubmitted, workFaults>>
leaderVars == <<lead, session, advisory, ticker, lateTicks>>
storeVars  == <<seen, cores, coreBranch, resubmitted>>

NoReplica == "none"
Idle      == [pc |-> "idle", rev |-> 0, found |-> {}]
Off       == [Idle EXCEPT !.pc = "off"]
Live      == {"draft", "failed", "ready"}

WorkFault == workFaults < MaxWorkFaults /\ workFaults' = workFaults + 1

\* The leader-scoped context, handed to the workers, has ended.
Ended(r) == lead[r] # "lead"

(***************************************************************************)
(* LeaderLoop.                                                             *)
(***************************************************************************)
\* leadOnce takes a connection and waits for the lock; the one who gets it
\* starts the workers.
Elected(r) ==
    /\ lead[r] = "elect" /\ advisory = NoReplica
    /\ advisory' = r
    /\ session' = [session EXCEPT ![r] = TRUE]
    /\ lead' = [lead EXCEPT ![r] = "lead"]
    /\ ticker' = [ticker EXCEPT ![r] = TRUE]
    /\ lateTicks' = IF ticker[r] THEN lateTicks \cup {r} ELSE lateTicks
    /\ watch' = [watch EXCEPT ![r] = Idle]
    /\ UNCHANGED <<head, storeVars, workFaults>>

\* The database ends the session: the lock is free at once, the replica learns
\* of it at its next ping.
SessionLost(r) ==
    /\ session[r] /\ lead[r] \in {"lead", "join"} /\ WorkFault
    /\ session' = [session EXCEPT ![r] = FALSE]
    /\ advisory' = IF advisory = r THEN NoReplica ELSE advisory
    /\ UNCHANGED <<lead, ticker, lateTicks, watch, head, storeVars>>

\* A failed ping cancels the workers.
StandDown(r) ==
    /\ lead[r] = "lead" /\ ~session[r]
    /\ lead' = [lead EXCEPT ![r] = "join"]
    /\ UNCHANGED <<session, advisory, ticker, lateTicks, watch, head, storeVars, workFaults>>

\* SIGTERM ends the context of the process, and with it every election.
Shutdown(r) ==
    /\ lead[r] \in {"lead", "elect"} /\ WorkFault
    /\ lead' = [lead EXCEPT ![r] = IF @ = "lead" THEN "join" ELSE "stopped"]
    /\ UNCHANGED <<session, advisory, ticker, lateTicks, watch, head, storeVars>>

\* Seeded fault: leadOnce cancels the workers and does not wait for them.
JoinedNever(r) == TRUE

\* <-done: run has returned, which waits for the watcher and not for the ticker.
Joined(r) == watch[r].pc = "off"

\* The deferred cleanup: unlock; when that fails, close the session.  Either way
\* the lock is free.  Only a live process elects again.
Resign(r) ==
    /\ lead[r] = "join" /\ Joined(r)
    /\ advisory' = IF advisory = r THEN NoReplica ELSE advisory
    /\ session' = [session EXCEPT ![r] = FALSE]
    /\ lead' = [lead EXCEPT ![r] = IF session[r] THEN "stopped" ELSE "elect"]
    /\ UNCHANGED <<ticker, lateTicks, watch, head, storeVars, workFaults>>

\* The process dies; the server ends its session.
WorkerCrash(r) ==
    /\ lead[r] # "stopped" /\ WorkFault
    /\ lead' = [lead EXCEPT ![r] = "stopped"]
    /\ session' = [session EXCEPT ![r] = FALSE]
    /\ advisory' = IF advisory = r THEN NoReplica ELSE advisory
    /\ ticker' = [ticker EXCEPT ![r] = FALSE]
    /\ lateTicks' = lateTicks \ {r}
    /\ watch' = [watch EXCEPT ![r] = Off]
    /\ UNCHANGED <<head, storeVars>>

\* A stopped replica is started again.
Start(r) ==
    /\ lead[r] = "stopped" /\ watch[r].pc = "off"
    /\ lead' = [lead EXCEPT ![r] = "elect"]
    /\ ticker' = [ticker EXCEPT ![r] = FALSE] /\ lateTicks' = lateTicks \ {r}
    /\ UNCHANGED <<session, advisory, watch, head, storeVars, workFaults>>

\* RolloutService.Run notices the end of its context only between two ticks.  What
\* a tick does is the module Rollout.
TickerReturns(r) ==
    /\ \/ ticker[r] /\ Ended(r) /\ ticker' = [ticker EXCEPT ![r] = FALSE] /\ UNCHANGED lateTicks
       \/ r \in lateTicks /\ lateTicks' = lateTicks \ {r} /\ UNCHANGED ticker
    /\ UNCHANGED <<lead, session, advisory, watch, head, storeVars, workFaults>>

(***************************************************************************)
(* UpstreamService.CheckOnce.                                              *)
(***************************************************************************)
Goto(r, pc) == watch' = [watch EXCEPT ![r].pc = pc]

\* A call of the watcher fails: on its own, or because its context has ended.
CallFails(r) == (Ended(r) /\ UNCHANGED workFaults) \/ WorkFault

UpstreamMoves ==
    /\ head < MaxHead /\ head' = head + 1
    /\ UNCHANGED <<leaderVars, watch, storeVars, workFaults>>

WatchReturns(r) ==
    /\ watch[r].pc = "idle" /\ Ended(r)
    /\ watch' = [watch EXCEPT ![r] = Off]
    /\ UNCHANGED <<leaderVars, head, storeVars, workFaults>>

\* Read the upstream head and the last revision seen; the first one ever is the
\* baseline and stages nothing.
CheckOnce(r) ==
    /\ watch[r].pc = "idle"
    /\ seen # head
    /\ \/ /\ ~Ended(r) /\ seen = 0
          /\ seen' = head /\ UNCHANGED <<watch, workFaults>>
       \/ /\ ~Ended(r) /\ seen # 0
          /\ watch' = [watch EXCEPT ![r] = [pc |-> "list", rev |-> head, found |-> {}]]
          /\ UNCHANGED <<seen, workFaults>>
       \/ CallFails(r) /\ UNCHANGED <<watch, seen>>
    /\ UNCHANGED <<leaderVars, head, cores, coreBranch, resubmitted>>

\* supersede: what is live now ...
Supersede(r) ==
    /\ watch[r].pc = "list"
    /\ \/ /\ ~Ended(r) /\ UNCHANGED workFaults
          /\ watch' = [watch EXCEPT ![r].pc = "abandon",
                ![r].found = {v \in 1..MaxHead : v # watch[r].rev /\ cores[v] \in Live}]
       \/ CallFails(r) /\ Goto(r, "open")
    /\ UNCHANGED <<leaderVars, head, storeVars>>

\* ... is abandoned one by one, if its status at that moment still allows it.
Abandon(r) ==
    /\ watch[r].pc = "abandon"
    /\ \/ watch[r].found = {} /\ Goto(r, "open") /\ UNCHANGED <<cores, coreBranch, workFaults>>
       \/ \E v \in watch[r].found :
            /\ watch' = [watch EXCEPT ![r].found = @ \ {v}]
            /\ \/ /\ ~Ended(r) /\ cores[v] \in Live
                  /\ cores' = [cores EXCEPT ![v] = "abandoned"]
                  /\ coreBranch' = coreBranch \ {v}
                  /\ UNCHANGED workFaults
               \/ cores[v] \notin Live /\ UNCHANGED <<cores, coreBranch, workFaults>>
               \/ CallFails(r) /\ UNCHANGED <<cores, coreBranch>>
    /\ UNCHANGED <<leaderVars, head, seen, resubmitted>>

\* Open: the branch first ...
OpenBranch(r) ==
    /\ watch[r].pc = "open"
    /\ LET v == watch[r].rev IN
       \/ /\ ~Ended(r) /\ cores[v] = "none" /\ v \notin coreBranch
          /\ coreBranch' = coreBranch \cup {v} /\ Goto(r, "record") /\ UNCHANGED workFaults
       \/ /\ cores[v] # "none" \/ v \in coreBranch
          /\ Goto(r, "put") /\ UNCHANGED <<coreBranch, workFaults>>
       \/ CallFails(r) /\ Goto(r, "put") /\ UNCHANGED coreBranch
    /\ UNCHANGED <<leaderVars, head, seen, cores, resubmitted>>

\* ... then the record; without one the branch is rolled back.
OpenRecord(r) ==
    /\ watch[r].pc = "record"
    /\ LET v == watch[r].rev IN
       \/ /\ ~Ended(r) /\ cores' = [cores EXCEPT ![v] = "draft"]
          /\ Goto(r, "deliver") /\ UNCHANGED <<coreBranch, workFaults>>
       \/ /\ CallFails(r)
          /\ coreBranch' \in {coreBranch, coreBranch \ {v}}
          /\ Goto(r, "put") /\ UNCHANGED cores
    /\ UNCHANGED <<leaderVars, head, seen, resubmitted>>

\* deliver: have the runner compute the lock, commit it on the branch, submit.
\* Whatever fails leaves the change as it is, for a human.
Deliver(r) ==
    /\ watch[r].pc = "deliver"
    /\ LET v == watch[r].rev IN
       \/ /\ ~Ended(r) /\ cores[v] = "draft"
          /\ cores' = [cores EXCEPT ![v] = "building"]
          /\ Goto(r, "proving") /\ UNCHANGED workFaults
       \/ cores[v] # "draft" /\ Goto(r, "put") /\ UNCHANGED <<cores, workFaults>>
       \/ CallFails(r) /\ Goto(r, "put") /\ UNCHANGED cores
    /\ UNCHANGED <<leaderVars, head, seen, coreBranch, resubmitted>>

\* finishSubmit records the verdict, also when the context has ended: the gate
\* then failed.
Delivered(r) ==
    /\ watch[r].pc = "proving"
    /\ \/ \E verdict \in IF Ended(r) THEN {"failed"} ELSE {"ready", "failed"} :
            cores' = [cores EXCEPT ![watch[r].rev] = verdict] /\ UNCHANGED workFaults
       \/ WorkFault /\ UNCHANGED cores
    /\ Goto(r, "put")
    /\ UNCHANGED <<leaderVars, head, seen, coreBranch, resubmitted>>

\* Seeded fault: a change that exists already is an error.
PutUpstreamIfOpened(r) ==
    /\ watch[r].pc = "put"
    /\ \/ ~Ended(r) /\ cores[watch[r].rev] # "none" /\ seen' = watch[r].rev /\ UNCHANGED workFaults
       \/ (cores[watch[r].rev] = "none" \/ Ended(r)) /\ UNCHANGED <<seen, workFaults>>
    /\ watch' = [watch EXCEPT ![r] = Idle]
    /\ UNCHANGED <<leaderVars, head, cores, coreBranch, resubmitted>>

\* Record the revision, opened or not: a change that could not be opened is not
\* tried again.
PutUpstream(r) ==
    /\ watch[r].pc = "put"
    /\ \/ ~Ended(r) /\ seen' = watch[r].rev /\ UNCHANGED workFaults
       \/ CallFails(r) /\ UNCHANGED seen
    /\ watch' = [watch EXCEPT ![r] = Idle]
    /\ UNCHANGED <<leaderVars, head, cores, coreBranch, resubmitted>>

\* A reviewer submits a core update again, which proves it, merges it or drops it.
Reviewed(v) ==
    /\ cores' \in {[cores EXCEPT ![v] = s] :
            s \in CASE cores[v] \in {"draft", "failed"} -> {"building", "abandoned"}
                    [] cores[v] = "building" /\ v \in resubmitted -> {"ready", "failed"}
                    [] cores[v] = "ready"  -> {"merged", "abandoned"}
                    [] OTHER -> {}}
    /\ resubmitted' = IF cores'[v] = "building" THEN resubmitted \cup {v} ELSE resubmitted
    /\ coreBranch' = IF cores'[v] \in {"merged", "abandoned"} THEN coreBranch \ {v} ELSE coreBranch
    /\ UNCHANGED <<leaderVars, watch, head, seen, workFaults>>

WorkerInit ==
    /\ lead = [r \in Replicas |-> "elect"] /\ session = [r \in Replicas |-> FALSE]
    /\ advisory = NoReplica
    /\ ticker = [r \in Replicas |-> FALSE] /\ lateTicks = {}
    /\ watch = [r \in Replicas |-> Off]
    /\ head = 1 /\ seen = 0
    /\ cores = [v \in 1..MaxHead |-> "none"] /\ coreBranch = {} /\ resubmitted = {}
    /\ workFaults = 0

LeaderStep(r) == Elected(r) \/ StandDown(r) \/ Resign(r) \/ Start(r)
WatchStep(r) ==
    \/ WatchReturns(r) \/ CheckOnce(r) \/ Supersede(r) \/ Abandon(r) \/ OpenBranch(r)
    \/ OpenRecord(r) \/ Deliver(r) \/ Delivered(r) \/ PutUpstream(r)

WorkerNext ==
    \/ \E r \in Replicas :
        \/ LeaderStep(r) \/ WatchStep(r)
        \/ SessionLost(r) \/ Shutdown(r) \/ WorkerCrash(r)
        \/ TickerReturns(r)
    \/ \E v \in 1..MaxHead : Reviewed(v)
    \/ UpstreamMoves

WorkerSpec == WorkerInit /\ [][WorkerNext]_workerVars

(***************************************************************************)
(* Properties.                                                             *)
(***************************************************************************)
\* The session is lost and the workers it covered have not been joined.
CutOff(r) == lead[r] \in {"lead", "join"} /\ ~session[r]

\* Two replicas stage core updates at the same time only from a lost session until
\* the ping that finds out has ended the workers.  Two tick rollouts at the same
\* time only then, or while one outlives its leadership: the ticker is cancelled,
\* not joined (leader.go leadOnce, capabilities.go).
WorkersExclusive ==
    \A r, s \in Replicas : r # s =>
        /\ watch[r].pc # "off" /\ watch[s].pc # "off" => CutOff(r) \/ CutOff(s)
        /\ ticker[r] /\ ticker[s] => Ended(r) \/ Ended(s) \/ CutOff(r) \/ CutOff(s)
=============================================================================
