----------------------------- MODULE GateRunner -----------------------------
(***************************************************************************)
(* The remote gate: the console's RemoteGate client                        *)
(* (src/internal/adapters/gate), the gate-runner's /validate handler       *)
(* (src/cmd/gate-runner) and the evaluation behind it                      *)
(* (src/internal/adapters/nix).                                            *)
(*                                                                         *)
(* One overlay clone and one scratch worktree serve every request: sem     *)
(* bounds who may wait, gateMu is the evaluation lock.  A request's client *)
(* may give up at any moment; its context then ends on both sides.         *)
(***************************************************************************)
EXTENDS Integers, Sequences, FiniteSets

CONSTANTS
    Requests,       \* one candidate each
    HostsOf,        \* [Requests -> Seq(host)]; <<>> asks for the whole fleet
    FleetHosts,     \* Seq(name): what nixosConfigurations holds
    HostVariants,   \* Seq(suffix)
    BrokenAt,       \* [Requests \X 1..MaxMain -> SUBSET name]: hosts that do not evaluate
    ConflictAt,     \* SUBSET (Requests \X 1..MaxMain): does not merge
    MaxConcurrent, ChunkSize, Workers,
    MaxMain,        \* bound: versions of the tracked branch
    MaxTimeouts     \* bound: evaluations cut off, git failures

VARIABLES
    main,       \* the tracked branch on its remote
    clone,      \* the branch head the runner last fetched
    scratch,    \* [base, cand]: the commit in the scratch worktree
    gate,       \* [Requests -> the request as handler and client see it]
    gateMu,     \* who holds the evaluation lock
    ev,         \* the evaluation under way: batches, workers, errors, context
    slow        \* timeouts and git failures so far

\* Lists are lists, an empty list of variants has been given its default, and no
\* request is called like the empty lock.
ASSUME GateAssumption ==
    /\ "nobody" \notin Requests
    /\ \A r \in Requests : HostsOf[r] \in Seq({HostsOf[r][i] : i \in DOMAIN HostsOf[r]})
    /\ FleetHosts \in Seq({FleetHosts[i] : i \in DOMAIN FleetHosts})
    /\ HostVariants \in Seq({HostVariants[i] : i \in DOMAIN HostVariants}) /\ HostVariants # <<>>
    /\ ChunkSize \in Int /\ Workers \in Nat

gateVars == <<main, clone, scratch, gate, gateMu, ev, slow>>

Nobody  == "nobody"
Unasked == [pc |-> "new", sent |-> 0, verdict |-> "none", reason |-> "none",
            base |-> 0, cand |-> Nobody]
NoEval  == [todo |-> <<>>, busy |-> [w \in 1..Workers |-> <<>>], errs |-> <<>>,
            failing |-> {}, cancelled |-> FALSE]

GateSlow == slow < MaxTimeouts /\ slow' = slow + 1

(***************************************************************************)
(* Which hosts, in which batches.                                          *)
(***************************************************************************)
Names(s) == {s[i] : i \in DOMAIN s}

expandVariants(hosts) ==
    LET n == Len(HostVariants) IN
    [i \in 1..(Len(hosts) * n) |->
        <<hosts[((i - 1) \div n) + 1], HostVariants[((i - 1) % n) + 1]>>]

resolveHosts(r) == IF HostsOf[r] = <<>> THEN FleetHosts ELSE expandVariants(HostsOf[r])

chunk(xs, size) ==
    IF size <= 0 \/ Len(xs) <= size THEN <<xs>>
    ELSE [i \in 1..((Len(xs) + size - 1) \div size) |->
            SubSeq(xs, (i - 1) * size + 1, IF i * size > Len(xs) THEN Len(xs) ELSE i * size)]

\* What has to evaluate before the request may be accepted.
Asked(r) == IF HostsOf[r] = <<>> THEN Names(FleetHosts)
            ELSE {<<h, v>> : h \in Names(HostsOf[r]), v \in Names(HostVariants)}

(***************************************************************************)
(* The request: client side, admission, lock.                              *)
(***************************************************************************)
Admitted == {r \in Requests : gate[r].pc \in {"admitted", "sync", "stage", "start", "eval", "unlock"}}

\* RemoteGate.validate sends the candidate; a request the handler cannot
\* authenticate or decode is answered before it costs anything.
Send(r) ==
    /\ gate[r].pc = "new"
    /\ gate' = [gate EXCEPT ![r].pc = "waiting", ![r].sent = main]
    /\ UNCHANGED <<main, clone, scratch, gateMu, ev, slow>>

\* How a status becomes what the caller acts on: 200 passes, 422 is a verdict
\* about the change, everything else refuses without one.
Answer(r, verdict, reason) ==
    [gate EXCEPT ![r].pc = "done", ![r].verdict = verdict, ![r].reason = reason]

Admit(r) ==
    /\ gate[r].pc = "waiting" /\ Cardinality(Admitted) < MaxConcurrent
    /\ gate' = [gate EXCEPT ![r].pc = "admitted"]
    /\ UNCHANGED <<main, clone, scratch, gateMu, ev, slow>>

\* Seeded fault: the lock is handed out while an evaluation holds it.
LockShared(r) ==
    /\ gate[r].pc = "admitted" /\ gateMu # r
    /\ gateMu' = r
    /\ gate' = [gate EXCEPT ![r].pc = "sync"]
    /\ UNCHANGED <<main, clone, scratch, ev, slow>>

Lock(r) ==
    /\ gate[r].pc = "admitted" /\ gateMu = Nobody
    /\ gateMu' = r
    /\ gate' = [gate EXCEPT ![r].pc = "sync"]
    /\ UNCHANGED <<main, clone, scratch, ev, slow>>

\* The client's deadline passes or it disconnects.  Fail closed: no verdict.  Only
\* the wait for admission ends with it: an admitted handler still waits for the
\* lock, and one that holds it goes on with a dead context.
ClientGone(r) ==
    /\ gate[r].pc \in {"waiting", "admitted", "sync", "stage", "start", "eval"}
    /\ gate[r].verdict = "none"
    /\ GateSlow
    /\ gate' = [gate EXCEPT ![r].pc = IF @ = "waiting" THEN "done" ELSE @,
                            ![r].verdict = "error", ![r].reason = "gone"]
    /\ ev' = IF gateMu = r THEN [ev EXCEPT !.cancelled = TRUE] ELSE ev
    /\ UNCHANGED <<main, clone, scratch, gateMu>>

\* Seeded fault: an answer without a verdict forgets the lock.
FinishKeepsLock(r, verdict, reason) ==
    /\ gate' = IF gate[r].verdict = "none" THEN Answer(r, verdict, reason)
               ELSE [gate EXCEPT ![r].pc = "done"]
    /\ gateMu' = IF verdict = "error" THEN gateMu ELSE Nobody
    /\ ev' = NoEval

\* The handler answers and gives back the lock and its admission; an answer
\* nobody waits for changes nothing.
Finish(r, verdict, reason) ==
    /\ gate' = IF gate[r].verdict = "none" THEN Answer(r, verdict, reason)
               ELSE [gate EXCEPT ![r].pc = "done"]
    /\ gateMu' = Nobody
    /\ ev' = NoEval

(***************************************************************************)
(* Under the lock: sync, stage, evaluate.                                  *)
(***************************************************************************)
sync(r) ==
    /\ gate[r].pc = "sync"
    /\ \/ /\ gate[r].verdict = "none"
          /\ clone' = main
          /\ gate' = [gate EXCEPT ![r].pc = "stage"]
          /\ UNCHANGED <<gateMu, ev, slow>>
       \/ (GateSlow \/ (gate[r].verdict # "none" /\ UNCHANGED slow))
          /\ Finish(r, "error", "sync") /\ UNCHANGED clone
    /\ UNCHANGED <<main, scratch>>

\* Check out the tracked branch, merge the candidate's ref, commit its document.
\* Whatever made git merge fail (a conflict, but also its timeout, a lock file or
\* a full disk) becomes a mergeConflict and a 422 with the same sentence; the
\* reasons "conflict" and "unmerged" tell apart here what the console is told
\* alike.  A failure before or after the merge is an error without a verdict.
stageCandidate(r) ==
    /\ gate[r].pc = "stage"
    /\ \/ /\ gate[r].verdict = "none" /\ <<r, clone>> \notin ConflictAt
          /\ scratch' = [base |-> clone, cand |-> r]
          /\ gate' = [gate EXCEPT ![r].pc = "start"]
          /\ UNCHANGED <<gateMu, ev, slow>>
       \/ /\ gate[r].verdict = "none" /\ <<r, clone>> \in ConflictAt
          /\ scratch' = [base |-> clone, cand |-> Nobody]
          /\ Finish(r, "invalid", "conflict") /\ UNCHANGED slow
       \/ /\ gate[r].verdict = "none" /\ GateSlow
          /\ scratch' = [base |-> clone, cand |-> Nobody]
          /\ Finish(r, "invalid", "unmerged")
       \/ /\ GateSlow \/ (gate[r].verdict # "none" /\ UNCHANGED slow)
          /\ scratch' \in {scratch, [base |-> clone, cand |-> Nobody]}
          /\ Finish(r, "error", "stage")
    /\ UNCHANGED <<main, clone>>

Broken == IF scratch.cand = Nobody THEN {} ELSE BrokenAt[<<scratch.cand, scratch.base>>]

\* Validate: no host at all is vacuously fine; otherwise the chunked evaluation.
Validate(r) ==
    /\ gate[r].pc = "start"
    /\ ev' = [ev EXCEPT !.todo = chunk(resolveHosts(r), ChunkSize)]
    /\ gate' = [gate EXCEPT ![r].pc = "eval", ![r].base = scratch.base, ![r].cand = scratch.cand]
    /\ UNCHANGED <<main, clone, scratch, gateMu, slow>>

\* parseJobLines: the hosts with an error line, and those without any line.
Unaccounted(want, seen) == want \ seen

\* evalWithJobs: nix-eval-jobs in place of the chunker, when there is a host.  A
\* worker killed for its memory takes the lines of its hosts with it.  When the
\* candidate's revision cannot be read (headRev) or the binary does not start,
\* there is no line at all; the handler answers 422 to that too.
evalWithJobs(r) ==
    /\ gate[r].pc = "start" /\ resolveHosts(r) # <<>>
    /\ LET want == Names(resolveHosts(r)) IN
       \E seen \in SUBSET want :
        /\ seen = want \/ slow < MaxTimeouts
        /\ slow' = IF seen = want THEN slow ELSE slow + 1
        /\ IF seen = {} \/ (seen \cap Broken) \cup Unaccounted(want, seen) # {}
           THEN Finish(r, "invalid", IF seen \cap Broken # {} THEN "broken" ELSE "timeout")
           ELSE /\ gate' = [gate EXCEPT ![r].pc = "done", ![r].base = scratch.base,
                                        ![r].cand = scratch.cand,
                                        ![r].verdict = IF @ = "none" THEN "pass" ELSE @]
                /\ gateMu' = Nobody /\ ev' = NoEval
    /\ UNCHANGED <<main, clone, scratch>>

\* evalBatches: feed a batch to an idle worker.
Feed(r, w) ==
    /\ gate[r].pc = "eval" /\ ~ev.cancelled
    /\ ev.todo # <<>> /\ ev.busy[w] = <<>> /\ w \notin ev.failing
    /\ ev' = [ev EXCEPT !.todo = Tail(@), !.busy[w] = Head(ev.todo)]
    /\ UNCHANGED <<main, clone, scratch, gate, gateMu, slow>>

\* evalNames accepts the batch.
BatchPasses(r, w) ==
    /\ gate[r].pc = "eval" /\ ev.busy[w] # <<>> /\ w \notin ev.failing
    /\ ~ev.cancelled /\ Names(ev.busy[w]) \cap Broken = {}
    /\ ev' = [ev EXCEPT !.busy[w] = <<>>]
    /\ UNCHANGED <<main, clone, scratch, gate, gateMu, slow>>

\* Why the batch of a worker fails: a host, its timeout, or the ended context.
BatchFailure(w) ==
    IF ev.cancelled THEN {"cancelled"}
    ELSE (IF Names(ev.busy[w]) \cap Broken # {} THEN {"broken"} ELSE {})
         \cup (IF slow < MaxTimeouts THEN {"timeout"} ELSE {})

\* The worker reports its error first ...
BatchFails(r, w) ==
    /\ gate[r].pc = "eval" /\ ev.busy[w] # <<>> /\ w \notin ev.failing
    /\ \E why \in BatchFailure(w) :
        /\ ev' = [ev EXCEPT !.errs = Append(@, why), !.failing = @ \cup {w}]
        /\ slow' = IF why = "timeout" THEN slow + 1 ELSE slow
    /\ UNCHANGED <<main, clone, scratch, gate, gateMu>>

\* ... then ends the context of the others and stops.
WorkerStops(r, w) ==
    /\ gate[r].pc = "eval" /\ ev.busy[w] # <<>> /\ w \in ev.failing
    /\ ev' = [ev EXCEPT !.cancelled = TRUE, !.busy[w] = <<>>]
    /\ UNCHANGED <<main, clone, scratch, gate, gateMu, slow>>

\* wg.Wait and the first error, if any; a batch that was never fed is an ended
\* context.
Collect(r) ==
    /\ gate[r].pc = "eval"
    /\ \A w \in 1..Workers : ev.busy[w] = <<>>
    /\ ev.todo = <<>> \/ ev.cancelled
    /\ IF ev.errs # <<>> THEN Finish(r, "invalid", Head(ev.errs))
       ELSE IF ev.cancelled THEN Finish(r, "invalid", "cancelled")
       ELSE Finish(r, "pass", "none")
    /\ UNCHANGED <<main, clone, scratch, slow>>

\* Somebody pushes to the tracked branch.
MainMoves ==
    /\ main < MaxMain
    /\ main' = main + 1
    /\ UNCHANGED <<clone, scratch, gate, gateMu, ev, slow>>

GateInit ==
    /\ main = 1 /\ clone = 1
    /\ scratch = [base |-> 1, cand |-> Nobody]
    /\ gate = [r \in Requests |-> Unasked]
    /\ gateMu = Nobody /\ ev = NoEval /\ slow = 0

HandlerStep(r) ==
    \/ Admit(r) \/ Lock(r) \/ sync(r) \/ stageCandidate(r) \/ Validate(r) \/ evalWithJobs(r)
    \/ \E w \in 1..Workers : Feed(r, w) \/ BatchPasses(r, w) \/ BatchFails(r, w) \/ WorkerStops(r, w)
    \/ Collect(r)

GateNext ==
    \/ \E r \in Requests : Send(r) \/ HandlerStep(r) \/ ClientGone(r)
    \/ MainMoves

GateSpec == GateInit /\ [][GateNext]_gateVars

(***************************************************************************)
(* Properties.                                                             *)
(***************************************************************************)
\* A pass is about this candidate, on a base at least as new as main was when the
\* console asked, and every host asked for evaluates there: whatever other
\* requests did to the shared worktree and however the work was split.  A rejection
\* goes back to a host that does not evaluate, a conflict with a version of main
\* that was current while the request was open, an evaluation cut off, or a git
\* merge cut off (stageCandidate calls that a conflict too: the one untrue answer);
\* never to the echo of another worker's failure having stopped this one
\* (adapters/nix evalBatches).
AnswersAreTrue ==
    \A r \in Requests :
        /\ gate[r].verdict = "pass" =>
            /\ gate[r].cand = r /\ gate[r].base >= gate[r].sent
            /\ Asked(r) \cap BrokenAt[<<r, gate[r].base>>] = {}
        /\ gate[r].verdict = "invalid" =>
            \/ gate[r].reason = "conflict" /\ \E b \in gate[r].sent..main : <<r, b>> \in ConflictAt
            \/ gate[r].reason = "broken" /\ \E b \in gate[r].sent..main : BrokenAt[<<r, b>>] # {}
            \/ gate[r].reason \in {"timeout", "unmerged"} /\ slow > 0

\* Every request is answered, or its client has given up: each is sent once, so
\* the time when nobody waits comes again and again.
RequestsAnswered == []<>(\A r \in Requests : gate[r].pc # "new" => gate[r].verdict # "none")
=============================================================================
