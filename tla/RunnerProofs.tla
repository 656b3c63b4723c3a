---------------------------- MODULE RunnerProofs ----------------------------
(***************************************************************************)
(* Proofs about what stands between the console and the evaluator: release *)
(* builds, the binary cache's authorisation and the gate runner.           *)
(***************************************************************************)
EXTENDS ReleaseBuild, CacheAuth, GateRunner, SequenceTheorems, TLAPS

(***************************************************************************)
(* Release builds: DoneIsPublished for every release, host list and chunk  *)
(* size.  Between a job's start and the answer "done" lie many steps of the*)
(* job, of other jobs, cancels and restarts; JobInv carries what has been  *)
(* published across them, and the chunks are shown to leave no host out.   *)
(***************************************************************************)
\* The chunks of a host list (adapters/nix/chunk.go): there is one, and every host
\* is in one of them, the last, shorter one included.
LEMMA ChunksCover ==
    ASSUME NEW S, NEW h \in Seq(S), NEW C \in Int
    PROVE  /\ chunk(h, C) \in Seq(Seq(S))
           /\ Len(chunk(h, C)) \in Nat \ {0}
           /\ \A i \in 1..Len(h) : \E b \in 1..Len(chunk(h, C)) :
                \E j \in DOMAIN chunk(h, C)[b] : chunk(h, C)[b][j] = h[i]
  <1>1. CASE C <= 0 \/ Len(h) <= C
    <2>1. chunk(h, C) = <<h>> BY <1>1 DEF chunk
    <2> QED BY <2>1
  <1>2. CASE ~(C <= 0 \/ Len(h) <= C)
    <2> DEFINE n == Len(h)
               N == (n + C - 1) \div C
               to(b) == IF b * C > n THEN n ELSE b * C
               B == [b \in 1..N |-> SubSeq(h, (b - 1) * C + 1, to(b))]
    <2>1. chunk(h, C) = B BY <1>2 DEF chunk
    <2>2. C \in Nat /\ C >= 1 /\ n \in Nat /\ n > C BY <1>2
    <2>3. N \in Nat /\ C * N >= n /\ C * N <= n + C - 1
      BY <2>2
    <2>4. N >= 1
      BY <2>2, <2>3
    <2>5. Len(B) = N
      BY <2>3
    <2>b. \A b \in 1..N : B[b] = SubSeq(h, (b - 1) * C + 1, to(b)) OBVIOUS
    <2>s. ASSUME NEW b \in 1..N PROVE B[b] \in Seq(S)
      <3>1. to(b) \in Int /\ to(b) <= n /\ (b - 1) * C + 1 \in Nat \ {0} BY <2>2, <2>3
      <3>2. \A x \in Nat \ {0}, y \in Int : y <= n => SubSeq(h, x, y) \in Seq(S)
        BY <2>2
      <3> QED BY <3>1, <3>2, <2>b
    <2>6. ASSUME NEW i \in 1..n
          PROVE  \E b \in 1..N : \E j \in DOMAIN B[b] : B[b][j] = h[i]
      <3> DEFINE q == (i - 1) \div C
                 r == (i - 1) % C
      <3>1. q \in Nat /\ r \in 0..(C - 1) /\ i - 1 = C * q + r BY <2>2
      <3> HIDE DEF q, r, N, B
      <3>2. C * N >= C * q + 1 BY <2>2, <2>3, <3>1
      <3>3. N >= q + 1 BY <2>2, <2>3, <3>1, <3>2
      <3>4. PICK p \in 1..N : p = q + 1 BY <2>3, <3>1, <3>3
      <3>5. /\ q * C = C * q /\ (q + 1) * C = C * q + C /\ C * q \in Nat
        BY <2>2, <3>1
      <3>6. PICK m \in Nat : m = to(p) /\ m <= n /\ C * q + 1 + r <= m
        BY <2>2, <3>1, <3>4, <3>5
      <3>7. B[p] = SubSeq(h, C * q + 1, m)
        <4>1. B[p] = SubSeq(h, (p - 1) * C + 1, to(p)) BY <2>b
        <4>2. (p - 1) * C + 1 = C * q + 1 BY <3>1, <3>4, <3>5, <2>2
        <4> QED BY <4>1, <4>2, <3>6
      <3> HIDE DEF to
      <3> DEFINE a == C * q + 1
      <3>a. a \in Nat \ {0} /\ a + r = i /\ a + r <= m /\ m <= n /\ r \in Nat BY <3>1, <3>5, <3>6, <2>2
      <3> HIDE DEF a
      <3>8. /\ SubSeq(h, a, m) \in Seq(S) /\ Len(SubSeq(h, a, m)) = m - a + 1
            /\ \A j \in 1..(m - a + 1) : SubSeq(h, a, m)[j] = h[a + j - 1]
        BY <3>a, SubSeqProperties
      <3>9. r + 1 \in 1..(m - a + 1) BY <3>a
      <3>10. SubSeq(h, a, m)[r + 1] = h[i] /\ r + 1 \in DOMAIN SubSeq(h, a, m)
        BY <3>8, <3>9, <3>a
      <3> QED BY <3>7, <3>10 DEF a
    <2>7. B \in Seq(Seq(S))
      <3>1. ASSUME NEW M \in Nat, NEW T, NEW f \in [1..M -> T] PROVE f \in Seq(T) OBVIOUS
      <3> HIDE DEF N, to
      <3>2. B \in [1..N -> Seq(S)] BY <2>s
      <3> HIDE DEF B
      <3> QED BY <2>3, <3>1, <3>2, Zenon
    <2> HIDE DEF B, N
    <2>8. N \in Nat \ {0} BY <2>3, <2>4
    <2> QED BY <2>1, <2>5, <2>6, <2>7, <2>8
  <1> QED BY <1>1, <1>2

\* The batches of a release are such chunks.
LEMMA BatchesCover ==
    ASSUME NEW S, NEW h \in Seq(S)
    PROVE  /\ Len(Batches(h)) \in Nat \ {0}
           /\ \A i \in 1..Len(h) : \E b \in 1..Len(Batches(h)) :
                \E j \in DOMAIN Batches(h)[b] : Batches(h)[b][j] = h[i]
<1>1. Batches(h) = chunk(h, ReleaseChunk)
    BY DEF Batches, chunk
<1> QED BY <1>1, ChunksCover, ReleaseAssumption

\* Every host of the release is in the binary cache.
Whole(k, c) == \A i \in 1..Len(k.hosts) : <<k.rev, k.hosts[i]>> \in c

\* The first n batches of the release are in the binary cache.
Copied(k, n, c) ==
    \A b \in 1..Len(Batches(k.hosts)) : b <= n =>
        \A j \in DOMAIN Batches(k.hosts)[b] : <<k.rev, Batches(k.hosts)[b][j]>> \in c

Phases == {"absent", "building", "failed", "done"}
Steps  == {"none", "slot", "fetch", "checkout", "publish", "cleanup", "record"}

Jobs   == [pc : Steps, ctx : BOOLEAN, next : Nat \ {0}, err : BOOLEAN]

ReleaseType ==
    /\ builds \in [BuildKeys -> Phases]
    /\ job \in [BuildKeys -> Jobs]
    /\ told \in [BuildKeys -> Phases \cup {"none"}]

\* How far a job has come is how much of its release is published.
JobInv ==
    \A k \in BuildKeys :
        /\ job[k].pc \in {"none", "slot", "fetch", "checkout"} => job[k].next = 1 /\ ~job[k].err
        /\ job[k].pc = "publish" => /\ ~job[k].err
                                    /\ job[k].next <= Len(Batches(k.hosts))
                                    /\ Copied(k, job[k].next - 1, cached)
        /\ job[k].pc \in {"cleanup", "record"} /\ ~job[k].err => Whole(k, cached)

\* A finished entry and a "done" the rollout heard stand for a whole release.
DoneInv ==
    \A k \in BuildKeys : builds[k] = "done" \/ told[k] = "done" => Whole(k, cached)

ReleaseInv == ReleaseType /\ JobInv /\ DoneInv

\* The last batch completes the release (Publisher.Publish).
LEMMA AllBatchesIsWhole ==
    ASSUME NEW k \in BuildKeys, NEW c, Copied(k, Len(Batches(k.hosts)), c)
    PROVE  Whole(k, c)
  <1>1. k.hosts \in Seq(STRING) BY ReleaseAssumption
  <1>2. SUFFICES ASSUME NEW i \in 1..Len(k.hosts)
                 PROVE  <<k.rev, k.hosts[i]>> \in c
    BY DEF Whole
  <1>3. PICK b \in 1..Len(Batches(k.hosts)) :
            \E j \in DOMAIN Batches(k.hosts)[b] : Batches(k.hosts)[b][j] = k.hosts[i]
    BY <1>1, BatchesCover
  <1>4. b <= Len(Batches(k.hosts)) BY <1>1, BatchesCover
  <1> QED BY <1>3, <1>4 DEF Copied

\* The binary cache only grows, so what was published stays published.
LEMMA MoreIsKept ==
    ASSUME NEW k, NEW n, NEW c, NEW d, c \subseteq d
    PROVE  (Whole(k, c) => Whole(k, d)) /\ (Copied(k, n, c) => Copied(k, n, d))
  BY DEF Whole, Copied

\* What handleBuild starts, and what is left of a job that has ended.
LEMMA FreshJob == NoJob \in Jobs /\ [NoJob EXCEPT !.pc = "slot"] \in Jobs
  <1>1. NoJob \in Jobs BY DEF NoJob, Jobs, Steps
  <1>2. \A j \in Jobs : [j EXCEPT !.pc = "slot"] \in Jobs BY DEF Jobs, Steps
  <1> QED BY <1>1, <1>2

\* The runner starts with an empty job table.
LEMMA ReleaseStarts == ReleaseInit => ReleaseInv
  BY DEF ReleaseInit, ReleaseInv, ReleaseType, JobInv, DoneInv, NoJob, Phases, Jobs, Steps

\* The rollout's poll starts a job or hears of one; it publishes nothing.
LEMMA PollKeeps ==
    ASSUME ReleaseInv, NEW k \in BuildKeys, EnsureBuilt(k)
    PROVE  ReleaseInv'
  <1> USE DEF ReleaseInv, EnsureBuilt, handleBuild
  <1>1. ReleaseType'
    <2>1. (builds \in [BuildKeys -> Phases])' BY DEF ReleaseType, Phases
    <2>2. (job \in [BuildKeys -> Jobs])' BY FreshJob DEF ReleaseType
    <2>3. (told \in [BuildKeys -> Phases \cup {"none"}])' BY <2>1 DEF ReleaseType
    <2> QED BY <2>1, <2>2, <2>3 DEF ReleaseType
  <1>2. JobInv' BY DEF ReleaseType, Jobs, JobInv, NoJob
  <1>3. DoneInv' BY DEF ReleaseType, Jobs, DoneInv
  <1> QED BY <1>1, <1>2, <1>3

\* Cancelling marks contexts; a restart empties the job table; neither
\* touches the cache.
LEMMA StopKeeps ==
    ASSUME ReleaseInv, CancelBuilds \/ RunnerRestart \/ UNCHANGED releaseVars
    PROVE  ReleaseInv'
  <1> USE DEF ReleaseInv
  <1>1. CASE CancelBuilds
    <2> USE <1>1 DEF CancelBuilds, handleBuildCancel
    <2>1. ReleaseType' BY DEF ReleaseType, Jobs
    <2>2. JobInv' BY DEF ReleaseType, Jobs, JobInv
    <2>3. DoneInv' BY DEF DoneInv
    <2> QED BY <2>1, <2>2, <2>3
  <1>2. CASE RunnerRestart
    BY <1>2 DEF RunnerRestart, ReleaseType, JobInv, DoneInv, NoJob, Phases, Jobs, Steps
  <1>3. CASE UNCHANGED releaseVars BY <1>3 DEF releaseVars, ReleaseType, Jobs, JobInv, DoneInv
  <1> QED BY <1>1, <1>2, <1>3

\* The steps of a job that neither publish nor record (runBuild, buildAtRev).
LEMMA PrepareKeeps ==
    ASSUME ReleaseInv, NEW k \in BuildKeys,
           takeSlot(k) \/ fetch(k) \/ checkout(k) \/ removeWorktree(k)
    PROVE  ReleaseInv'
  <1> USE DEF ReleaseInv
  <1>0. k.hosts \in Seq(STRING) /\ Len(Batches(k.hosts)) \in Nat \ {0}
    BY ReleaseAssumption, BatchesCover
  <1>1. builds' = builds /\ told' = told /\ cached' = cached
    BY DEF takeSlot, fetch, checkout, removeWorktree
  <1>2. DoneInv' BY <1>1 DEF DoneInv
  <1>3. ReleaseType'
    BY <1>1 DEF ReleaseType, takeSlot, fetch, checkout, removeWorktree, Jobs, Steps
  <1>4. JobInv'
    <2>1. CASE takeSlot(k) BY <2>1, <1>1 DEF takeSlot, JobInv, ReleaseType, Jobs
    <2>2. CASE fetch(k)
      <3>1. \A x \in BuildKeys \ {k} : job'[x] = job[x] BY <2>2 DEF fetch, ReleaseType, Jobs
      <3>2. /\ job'[k].next = 1
            /\ \/ job'[k].pc = "checkout" /\ ~job'[k].err
               \/ job'[k].pc = "record" /\ job'[k].err
        BY <2>2 DEF fetch, JobInv, ReleaseType, Jobs
      <3> QED BY <1>1, <3>1, <3>2 DEF JobInv
    <2>3. CASE checkout(k)
      <3>1. \A x \in BuildKeys \ {k} : job'[x] = job[x] BY <2>3 DEF checkout, ReleaseType, Jobs
      <3>2. /\ job'[k].next = 1
            /\ \/ job'[k].pc = "publish" /\ ~job'[k].err
               \/ job'[k].pc = "record" /\ job'[k].err
        BY <2>3 DEF checkout, JobInv, ReleaseType, Jobs
      <3>3. Copied(k, 1 - 1, cached) BY <1>0 DEF Copied
      <3> QED BY <1>0, <1>1, <3>1, <3>2, <3>3 DEF JobInv
    <2>4. CASE removeWorktree(k) BY <2>4, <1>1 DEF removeWorktree, JobInv, ReleaseType, Jobs
    <2> QED BY <2>1, <2>2, <2>3, <2>4
  <1> QED BY <1>2, <1>3, <1>4

\* A batch is realised and copied; after the last one the release is whole.
LEMMA PublishKeeps ==
    ASSUME ReleaseInv, NEW k \in BuildKeys, Publish(k)
    PROVE  ReleaseInv'
  <1> DEFINE n == job[k].next
             last == Len(Batches(k.hosts))
  <1> USE DEF ReleaseInv
  <1>0. k.hosts \in Seq(STRING) /\ last \in Nat \ {0} BY ReleaseAssumption, BatchesCover
  <1>1. /\ n \in Nat \ {0} /\ n <= last /\ Copied(k, n - 1, cached) /\ ~job[k].err
    BY DEF Publish, JobInv, ReleaseType, Jobs
  <1>2. cached \subseteq cached' /\ builds' = builds /\ told' = told BY DEF Publish
  <1>3. DoneInv' BY <1>2, MoreIsKept DEF DoneInv
  <1>4. ReleaseType' BY DEF ReleaseType, Publish, Jobs, Steps
  <1>5. ASSUME NEW x \in BuildKeys, x # k
        PROVE  job'[x] = job[x] /\ (Whole(x, cached) => Whole(x, cached'))
                 /\ (Copied(x, job[x].next - 1, cached) => Copied(x, job[x].next - 1, cached'))
    BY <1>2, <1>5, MoreIsKept DEF Publish, ReleaseType, Jobs
  <1>6. CASE cached' = cached
             /\ job' = [job EXCEPT ![k].pc = "cleanup", ![k].err = TRUE]
    <2>1. JobInv' BY <1>6 DEF JobInv, ReleaseType, Jobs
    <2> QED BY <2>1, <1>3, <1>4
  <1>7. CASE /\ cached' = cached \cup {<<k.rev, Batches(k.hosts)[n][j]>> : j \in DOMAIN Batches(k.hosts)[n]}
             /\ job' = [job EXCEPT ![k].pc = IF LastBatch(k) THEN "cleanup" ELSE @,
                                   ![k].next = @ + 1]
    <2>1. Copied(k, n, cached')
      <3> SUFFICES ASSUME NEW b \in 1..last, b <= n, NEW j \in DOMAIN Batches(k.hosts)[b]
                   PROVE  <<k.rev, Batches(k.hosts)[b][j]>> \in cached'
        BY DEF Copied
      <3>1. CASE b = n BY <3>1, <1>7
      <3>2. CASE b # n
        <4>1. b <= n - 1 BY <3>2, <1>0, <1>1
        <4> QED BY <4>1, <1>1, <1>2 DEF Copied
      <3> QED BY <3>1, <3>2
    <2>2. n = last => Whole(k, cached') BY <2>1, AllBatchesIsWhole
    <2>3. LastBatch(k) <=> n = last BY DEF LastBatch
    <2>4. /\ job'[k].pc = (IF n = last THEN "cleanup" ELSE "publish")
          /\ job'[k].next = n + 1 /\ job'[k].err = job[k].err
      BY <1>7, <2>3 DEF ReleaseType, Jobs, Publish
    <2>5. n + 1 - 1 = n /\ (n # last => n + 1 <= last) BY <1>0, <1>1
    <2>6. JobInv'
      <3> SUFFICES ASSUME NEW x \in BuildKeys
                   PROVE  /\ job'[x].pc \in {"none", "slot", "fetch", "checkout"} =>
                                job'[x].next = 1 /\ ~job'[x].err
                          /\ job'[x].pc = "publish" =>
                                /\ ~job'[x].err
                                /\ job'[x].next <= Len(Batches(x.hosts))
                                /\ Copied(x, job'[x].next - 1, cached')
                          /\ job'[x].pc \in {"cleanup", "record"} /\ ~job'[x].err => Whole(x, cached')
        BY DEF JobInv
      <3>1. CASE x = k BY <3>1, <1>1, <2>1, <2>2, <2>4, <2>5
      <3>2. CASE x # k BY <3>2, <1>5 DEF JobInv
      <3> QED BY <3>1, <3>2
    <2> QED BY <2>6, <1>3, <1>4
  <1> QED BY <1>6, <1>7 DEF Publish

\* The verdict (runBuild): "done" is recorded of a job without an error.
LEMMA RecordKeeps ==
    ASSUME ReleaseInv, NEW k \in BuildKeys, runBuild(k)
    PROVE  ReleaseInv'
  <1> USE DEF ReleaseInv, runBuild
  <1>1. ReleaseType' BY DEF ReleaseType, NoJob, Phases, Jobs, Steps
  <1>2. JobInv' BY DEF ReleaseType, Jobs, JobInv, NoJob
  <1>3. DoneInv' BY DEF ReleaseType, Jobs, JobInv, DoneInv
  <1> QED BY <1>1, <1>2, <1>3

\* For every set of releases, host lists and chunk sizes, and any number of
\* failures, lost answers, cancels and restarts of the runner: a wave that is
\* promoted on "done" finds every one of its hosts in the binary cache
\* (RemoteBuilder.EnsureBuilt, runBuild, Publisher.Publish, chunk).
THEOREM DoneAlwaysPublished == ReleaseSpec => []DoneIsPublished
  <1>1. ReleaseInv /\ [ReleaseNext]_releaseVars => ReleaseInv'
    BY PollKeeps, StopKeeps, PrepareKeeps, PublishKeeps, RecordKeeps DEF ReleaseNext, JobStep
  <1>2. ReleaseInv => DoneIsPublished
    <2> SUFFICES ASSUME ReleaseInv, NEW k \in BuildKeys, told[k] = "done", NEW i \in DOMAIN k.hosts
                 PROVE  <<k.rev, k.hosts[i]>> \in cached
      BY DEF DoneIsPublished
    <2>1. i \in 1..Len(k.hosts) BY ReleaseAssumption
    <2> QED BY <2>1 DEF ReleaseInv, DoneInv, Whole
  <1> QED BY ReleaseStarts, <1>1, <1>2, PTL DEF ReleaseSpec

(***************************************************************************)
(* Cache authorisation: CacheStaleness for every set of credentials and    *)
(* fetches and for every lifetime and timeout.  The property speaks of the *)
(* last fetch that was let through; what makes it hold is the age of the   *)
(* evidence behind it: a "yes" on its way was true when the question was   *)
(* put or later, and an entry of the verdict cache never outlives its      *)
(* credential by more than the lifetime and one timeout.                   *)
(***************************************************************************)
Ask == [cred : Secrets, sent : Nat, answer : {"open", "yes", "no"}] \cup {NoAsk}

\* The shape of the state.
CacheType ==
    /\ tick \in Nat
    /\ live \subseteq Secrets
    /\ ended \in [Secrets -> Nat \cup {-1}]
    /\ DOMAIN verified \subseteq Secrets /\ \A c \in DOMAIN verified : verified[c] \in Nat
    /\ asking \in [Fetches -> Ask]
    /\ served \in (Secrets \X Nat) \cup {<<"none", -1>>}

\* A credential has an end exactly when it is no longer live, and not a later
\* one than now.
EndsAreTimely ==
    \A c \in Secrets : /\ c \in live <=> ended[c] = -1
                       /\ ended[c] <= tick

\* A question was put by now, and a "yes" was given no earlier than it was put.
AnswersAreFresh ==
    \A q \in Fetches : asking[q] # NoAsk =>
        /\ asking[q].sent <= tick
        /\ asking[q].answer = "yes" /\ ended[asking[q].cred] # -1 =>
            asking[q].sent <= ended[asking[q].cred]

\* An entry lasts at most a lifetime from now, and outlives the end of its
\* credential by at most a lifetime and a timeout.
EntriesExpire ==
    \A c \in DOMAIN verified :
        /\ verified[c] <= tick + VerifyTTL
        /\ ended[c] # -1 => verified[c] <= ended[c] + VerifyTTL + AskTimeout

ServedByNow == served[2] <= tick

CacheInv ==
    CacheType /\ EndsAreTimely /\ AnswersAreFresh /\ EntriesExpire /\ ServedByNow /\ CacheStaleness

\* The console starts with no question open and nothing remembered.
LEMMA CacheStarts == CacheInit => CacheInv
  <1> USE CacheAssumption DEF CacheInit
  <1>1. CacheInit => CacheType BY DEF CacheType, Ask
  <1>2. CacheInit => EndsAreTimely /\ AnswersAreFresh BY DEF EndsAreTimely, AnswersAreFresh, NoAsk
  <1>3. CacheInit => EntriesExpire /\ ServedByNow /\ CacheStaleness
    BY DEF EntriesExpire, ServedByNow, CacheStaleness
  <1> QED BY <1>1, <1>2, <1>3 DEF CacheInv

\* Revoking, rotating and sweeping (CredentialEnds): what was served or
\* remembered before is still young enough.
LEMMA EndKeeps ==
    ASSUME CacheInv, NEW c \in Secrets, CredentialEnds(c)
    PROVE  CacheInv'
  <1> USE CacheAssumption DEF CacheInv, CacheType, CredentialEnds
  <1>1. CacheType' BY DEF Ask
  <1>2. EndsAreTimely' BY DEF EndsAreTimely
  <1>3. AnswersAreFresh'
    <2> SUFFICES ASSUME NEW q \in Fetches, asking[q] # NoAsk
                 PROVE  /\ asking[q].sent <= tick
                        /\ asking[q].answer = "yes" /\ ended'[asking[q].cred] # -1 =>
                            asking[q].sent <= ended'[asking[q].cred]
      BY DEF AnswersAreFresh
    <2>1. asking[q].cred \in Secrets /\ asking[q].sent \in Nat BY DEF Ask
    <2>2. asking[q].sent <= tick BY DEF AnswersAreFresh
    <2> QED BY <2>1, <2>2 DEF AnswersAreFresh
  <1>4. EntriesExpire'
    <2> SUFFICES ASSUME NEW k \in DOMAIN verified
                 PROVE  /\ verified[k] <= tick + VerifyTTL
                        /\ ended'[k] # -1 => verified[k] <= ended'[k] + VerifyTTL + AskTimeout
      BY DEF EntriesExpire
    <2>1. k \in Secrets /\ verified[k] \in Nat OBVIOUS
    <2>2. CASE k = c BY <2>1, <2>2 DEF EntriesExpire
    <2>3. CASE k # c BY <2>1, <2>3 DEF EntriesExpire
    <2> QED BY <2>2, <2>3
  <1>5. ServedByNow' /\ CacheStaleness'
    BY DEF ServedByNow, CacheStaleness, EndsAreTimely
  <1> QED BY <1>1, <1>2, <1>3, <1>4, <1>5

\* A fetch (cacheAuthorized): served from an entry that is still valid, or
\* asked.
LEMMA FetchKeeps ==
    ASSUME CacheInv, NEW q \in Fetches, NEW c \in Secrets, Fetch(q, c)
    PROVE  CacheInv'
  <1> USE CacheAssumption DEF CacheInv, CacheType, Fetch
  <1>1. CacheType' BY DEF Ask
  <1>2. EndsAreTimely' BY DEF EndsAreTimely
  <1>3. AnswersAreFresh'
    <2>1. CASE UNCHANGED asking BY <2>1 DEF AnswersAreFresh
    <2>2. CASE asking' = [asking EXCEPT ![q] = [cred |-> c, sent |-> tick, answer |-> "open"]]
      BY <2>2 DEF AnswersAreFresh
    <2> QED BY <2>1, <2>2
  <1>4. EntriesExpire' BY DEF EntriesExpire
  <1>5. ServedByNow' /\ CacheStaleness'
    BY DEF ServedByNow, CacheStaleness, EntriesExpire
  <1> QED BY <1>1, <1>2, <1>3, <1>4, <1>5

\* The console's answer (DeviceAuthAPI.handle): a "yes" is about a live
\* credential.
LEMMA HandleKeeps ==
    ASSUME CacheInv, NEW q \in Fetches, handle(q)
    PROVE  CacheInv'
  <1> USE CacheAssumption DEF CacheInv, CacheType, handle
  <1>0. asking[q] \in [cred : Secrets, sent : Nat, answer : {"open", "yes", "no"}] BY DEF Ask
  <1>1. CacheType' BY <1>0 DEF Ask
  <1>2. EndsAreTimely' BY DEF EndsAreTimely
  <1>3. AnswersAreFresh' BY <1>0 DEF AnswersAreFresh, EndsAreTimely
  <1>4. EntriesExpire' /\ ServedByNow' /\ CacheStaleness'
    BY DEF EntriesExpire, ServedByNow, CacheStaleness
  <1> QED BY <1>1, <1>2, <1>3, <1>4

\* What the runner remembers (deviceCredentialValid): the old entries, some
\* of them dropped, and the new one.
LEMMA RememberKeeps ==
    ASSUME CacheType, NEW c \in Secrets
    PROVE  /\ DOMAIN Remember(c) \subseteq DOMAIN verified \cup {c}
           /\ \A k \in DOMAIN Remember(c) :
                Remember(c)[k] = IF k = c THEN tick + VerifyTTL ELSE verified[k]
  <1> DEFINE all == [k \in DOMAIN verified \cup {c} |-> IF k = c THEN tick + VerifyTTL ELSE verified[k]]
             young == [k \in {k \in DOMAIN all : tick <= all[k]} |-> all[k]]
  <1>1. Remember(c) = young \/ Remember(c) = all BY DEF Remember
  <1>2. DOMAIN all = DOMAIN verified \cup {c} OBVIOUS
  <1>3. DOMAIN young \subseteq DOMAIN all /\ \A k \in DOMAIN young : young[k] = all[k] OBVIOUS
  <1>4. \A k \in DOMAIN all : all[k] = IF k = c THEN tick + VerifyTTL ELSE verified[k] OBVIOUS
  <1> HIDE DEF all, young
  <1> QED BY <1>1, <1>2, <1>3, <1>4

\* A "yes" within the timeout lets the fetch through and is remembered.
LEMMA AllowedKeeps ==
    ASSUME CacheInv, NEW q \in Fetches, Allowed(q)
    PROVE  CacheInv'
  <1> DEFINE c == asking[q].cred
  <1> USE CacheAssumption DEF CacheInv, CacheType
  <1>0. /\ asking[q] # NoAsk
        /\ c \in Secrets /\ asking[q].sent \in Nat
        /\ asking[q].sent <= tick /\ tick <= asking[q].sent + AskTimeout
    BY DEF Allowed, NoAsk, Ask, AnswersAreFresh
  <1>00. ended[c] # -1 => tick <= ended[c] + AskTimeout
    BY <1>0 DEF Allowed, AnswersAreFresh
  <1>01. /\ DOMAIN verified' \subseteq DOMAIN verified \cup {c}
         /\ \A k \in DOMAIN verified' : verified'[k] = IF k = c THEN tick + VerifyTTL ELSE verified[k]
    BY <1>0, RememberKeeps DEF Allowed
  <1>1. CacheType' BY <1>0, <1>01 DEF Allowed, Ask
  <1>2. EndsAreTimely' BY DEF Allowed, EndsAreTimely
  <1>3. AnswersAreFresh' BY DEF Allowed, AnswersAreFresh
  <1>4. EntriesExpire'
    <2> SUFFICES ASSUME NEW k \in DOMAIN verified'
                 PROVE  /\ verified'[k] <= tick + VerifyTTL
                        /\ ended[k] # -1 => verified'[k] <= ended[k] + VerifyTTL + AskTimeout
      BY DEF Allowed, EntriesExpire
    <2>1. CASE k = c BY <1>0, <1>00, <1>01, <2>1
    <2>2. CASE k # c BY <1>0, <1>01, <2>2 DEF EntriesExpire
    <2> QED BY <2>1, <2>2
  <1>5. ServedByNow' /\ CacheStaleness'
    BY <1>0, <1>00 DEF Allowed, ServedByNow, CacheStaleness
  <1> QED BY <1>1, <1>2, <1>3, <1>4, <1>5

\* A fetch turned away, and a tick of the clock.
LEMMA QuietKeeps ==
    ASSUME CacheInv, Ticks \/ UNCHANGED cacheVars \/ \E q \in Fetches : Turned(q)
    PROVE  CacheInv'
  <1> USE CacheAssumption DEF CacheInv, CacheType
  <1>1. CASE Ticks
    <2>1. CacheType' BY <1>1 DEF Ticks
    <2>2. EndsAreTimely' BY <1>1 DEF Ticks, EndsAreTimely
    <2>3. AnswersAreFresh'
      <3> SUFFICES ASSUME NEW q \in Fetches, asking[q] # NoAsk
                   PROVE  asking[q].sent <= tick + 1
        BY <1>1 DEF Ticks, AnswersAreFresh
      <3>1. asking[q].sent \in Nat BY DEF Ask
      <3> QED BY <3>1 DEF AnswersAreFresh
    <2>4. EntriesExpire' BY <1>1 DEF Ticks, EntriesExpire
    <2>5. ServedByNow' /\ CacheStaleness' BY <1>1 DEF Ticks, ServedByNow, CacheStaleness
    <2> QED BY <2>1, <2>2, <2>3, <2>4, <2>5
  <1>2. CASE UNCHANGED cacheVars
    BY <1>2 DEF cacheVars, EndsAreTimely, AnswersAreFresh, EntriesExpire, ServedByNow, CacheStaleness
  <1>3. CASE \E q \in Fetches : Turned(q)
    <2> PICK q \in Fetches : Turned(q) BY <1>3
    <2>1. CacheType' BY DEF Turned, Ask
    <2>2. AnswersAreFresh' BY DEF Turned, AnswersAreFresh
    <2>3. EndsAreTimely' /\ EntriesExpire' /\ ServedByNow' /\ CacheStaleness'
      BY DEF Turned, EndsAreTimely, EntriesExpire, ServedByNow, CacheStaleness
    <2> QED BY <2>1, <2>2, <2>3
  <1> QED BY <1>1, <1>2, <1>3

\* For every lifetime and timeout, any number of devices and of fetches at
\* once: a credential that was revoked, rotated or swept opens the binary
\* cache for less than the verdict's lifetime and one timeout together
\* (cacheAuthorized, deviceCredentialValid).
THEOREM CacheNeverStale == CacheSpec => []CacheStaleness
  <1>1. CacheInv /\ [CacheNext]_cacheVars => CacheInv'
    BY EndKeeps, FetchKeeps, HandleKeeps, AllowedKeeps, QuietKeeps DEF CacheNext
  <1>2. CacheInv => CacheStaleness BY DEF CacheInv
  <1> QED BY CacheStarts, <1>1, <1>2, PTL DEF CacheSpec

(***************************************************************************)
(* The gate runner: AnswersAreTrue for every set of requests, hosts,       *)
(* variants, chunk size, number of workers and history of main.  A pass is *)
(* earned host by host, over many steps, by workers that share a context   *)
(* and in a worktree that serves every request; the invariant says which   *)
(* hosts are still owed.                                                   *)
(***************************************************************************)
\* Whatever a request may ask to evaluate.
Work == UNION {Names(resolveHosts(r)) : r \in Requests}

\* Division by the number of variants finds host and variant again.
LEMMA HostAndVariant ==
    ASSUME NEW n \in Nat \ {0}, NEW q \in Nat, NEW v \in 0..(n - 1)
    PROVE  (q * n + v) \div n = q /\ (q * n + v) % n = v
OBVIOUS

\* resolveHosts and expandVariants leave out no host and no variant.
LEMMA ResolveCovers ==
    ASSUME NEW r \in Requests
    PROVE  /\ resolveHosts(r) \in Seq(Work)
           /\ Asked(r) \subseteq Names(resolveHosts(r))
           /\ resolveHosts(r) = <<>> => Asked(r) = {}
<1> DEFINE h == HostsOf[r]
           n == Len(HostVariants)
<1>0. /\ h \in Seq(Names(h)) /\ HostVariants \in Seq(Names(HostVariants)) /\ HostVariants # <<>>
      /\ FleetHosts \in Seq(Names(FleetHosts))
    BY GateAssumption DEF Names
<1>1. CASE h = <<>>
  <2>1. resolveHosts(r) = FleetHosts /\ Asked(r) = Names(FleetHosts)
    BY <1>1 DEF resolveHosts, Asked
  <2>2. Names(FleetHosts) \subseteq Work
    BY <2>1 DEF Work
  <2>3. FleetHosts \in Seq(Work)
    BY <1>0, <2>2
  <2> QED BY <2>1, <2>3 DEF Names
<1>2. CASE h # <<>>
  <2> DEFINE e == expandVariants(h)
  <2>1. resolveHosts(r) = e
    BY <1>2 DEF resolveHosts
  <2>2. Asked(r) = {<<x, v>> : x \in Names(h), v \in Names(HostVariants)}
    BY <1>2 DEF Asked
  <2>3. n \in Nat \ {0} /\ Len(h) \in Nat \ {0}
    BY <1>0, <1>2
  <2>4. /\ e = [i \in 1..(Len(h) * n) |->
                    <<h[((i - 1) \div n) + 1], HostVariants[((i - 1) % n) + 1]>>]
        /\ Len(h) * n \in Nat /\ Len(h) * n >= 1
    BY <2>3 DEF expandVariants
  <2>5. DOMAIN e = 1..(Len(h) * n) /\ Len(e) = Len(h) * n
    BY <2>4
  <2>6. ASSUME NEW k \in 1..Len(h), NEW m \in 1..n
        PROVE  \E i \in DOMAIN e : e[i] = <<h[k], HostVariants[m]>>
    <3> DEFINE i == (k - 1) * n + m
    <3>1. k - 1 \in Nat /\ m - 1 \in 0..(n - 1) /\ (k - 1) * n \in Nat
        BY <2>3
    <3>2. i - 1 = (k - 1) * n + (m - 1) /\ i \in Int
        BY <2>3, <3>1
    <3>3. (i - 1) \div n = k - 1 /\ (i - 1) % n = m - 1
        BY <2>3, <3>1, <3>2, HostAndVariant
    <3>4. i >= 1 /\ i <= (k - 1) * n + n /\ (k - 1) * n + n = k * n
        BY <2>3, <3>1
    <3>5. k * n <= Len(h) * n
        BY <2>3
    <3>6. i \in 1..(Len(h) * n)
        BY <2>3, <2>4, <3>2, <3>4, <3>5
    <3> HIDE DEF i
    <3>7. e[i] = <<h[((i - 1) \div n) + 1], HostVariants[((i - 1) % n) + 1]>>
        BY <2>4, <3>6
    <3>8. (k - 1) + 1 = k /\ (m - 1) + 1 = m
        BY <2>3
    <3> QED BY <2>5, <3>3, <3>6, <3>7, <3>8
  <2>7. Asked(r) \subseteq Names(e)
    <3>1. /\ Names(h) = {h[k] : k \in 1..Len(h)}
          /\ Names(HostVariants) = {HostVariants[m] : m \in 1..n}
        BY <1>0 DEF Names
    <3> HIDE DEF e, h, n
    <3> QED BY <2>2, <2>6, <3>1 DEF Names
  <2>8. e \in Seq(Work) /\ e # <<>>
    <3>1. \A i \in 1..(Len(h) * n) : e[i] \in Work
      <4> HIDE DEF e, n, h
      <4>1. \A i \in 1..(Len(h) * n) : e[i] \in Names(e)
        BY <2>5 DEF Names
      <4> QED BY <2>1, <4>1 DEF Work
    <3>2. ASSUME NEW M \in Nat, NEW T, NEW f, f = [i \in 1..M |-> f[i]], \A i \in 1..M : f[i] \in T
          PROVE  f \in Seq(T)
        BY <3>2
    <3>3. e = [i \in 1..(Len(h) * n) |-> e[i]]
        BY <2>4
    <3> HIDE DEF e, n
    <3>4. e # <<>>
      <4>1. 1 \in DOMAIN e
        BY <2>4, <2>5
      <4> QED BY <4>1
    <3> QED BY <2>4, <3>1, <3>2, <3>3, <3>4
  <2> QED BY <2>1, <2>7, <2>8
<1> QED BY <1>1, <1>2

GateAsks ==
    [pc : {"new", "waiting", "admitted", "sync", "stage", "start", "eval", "done"},
     sent : Nat, verdict : {"none", "pass", "invalid", "error"},
     reason : {"none", "gone", "sync", "stage", "conflict", "unmerged", "broken", "timeout", "cancelled"},
     base : Nat, cand : Requests \cup {Nobody}]

GateEvals ==
    [todo : Seq(Seq(Work)), busy : [1..Workers -> Seq(Work)],
     errs : Seq({"broken", "timeout", "cancelled"}), failing : SUBSET (1..Workers),
     cancelled : BOOLEAN]

\* The shape of the state; the clone is a version of main that has been.
GateType ==
    /\ main \in Nat /\ clone \in Nat /\ slow \in Nat /\ clone <= main
    /\ scratch \in [base : Nat, cand : Requests \cup {Nobody}]
    /\ gate \in [Requests -> GateAsks]
    /\ gateMu \in Requests \cup {Nobody}
    /\ ev \in GateEvals

\* No evaluation is under way.
Resting ==
    /\ ev.todo = <<>> /\ ev.errs = <<>> /\ ev.failing = {}
    /\ \A w \in 1..Workers : ev.busy[w] = <<>>

\* A free lock means a quiet evaluator; a worker that fails has said so.
EvalAtRest ==
    /\ gateMu = Nobody => Resting /\ ~ev.cancelled
    /\ ev.failing # {} => ev.errs # <<>>

Locked == {"sync", "stage", "start", "eval"}

\* The handler between Lock and its answer is the holder of the lock; a dead
\* context is explained by a reported failure or by a client that has gone.
Held(r) ==
    /\ gate[r].pc \in Locked <=> gateMu = r
    /\ gate[r].pc \in {"sync", "stage", "start"} => Resting
    /\ gateMu = r /\ ev.cancelled => ev.errs # <<>> \/ gate[r].verdict # "none"

\* What the holder works on: a version of main no older than its question.
Staged(r) ==
    /\ gate[r].sent <= main
    /\ gate[r].pc = "stage" => gate[r].sent <= clone
    /\ gate[r].pc \in {"start", "eval"} =>
        scratch.cand = r /\ gate[r].sent <= scratch.base /\ scratch.base <= main
    /\ gate[r].pc = "eval" => gate[r].base = scratch.base /\ gate[r].cand = r
    /\ gate[r].verdict \in {"pass", "invalid"} => gate[r].pc = "done"

\* A host that is asked for evaluates, or is owed by the queue or by a worker.
Owed(r, h) ==
    \/ h \notin BrokenAt[<<r, scratch.base>>]
    \/ \E b \in 1..Len(ev.todo) : h \in Names(ev.todo[b])
    \/ \E w \in 1..Workers : h \in Names(ev.busy[w])

Evaluated(r) ==
    gate[r].pc = "eval" =>
        /\ ev.errs = <<>> /\ ~ev.cancelled => \A h \in Asked(r) : Owed(r, h)
        /\ ev.errs # <<>> /\ gate[r].verdict = "none" =>
            \/ Head(ev.errs) = "broken" /\ BrokenAt[<<r, scratch.base>>] # {}
            \/ Head(ev.errs) = "timeout" /\ slow > 0

\* AnswersAreTrue, for one request.
TrueAnswer(r) ==
    /\ gate[r].verdict = "pass" =>
        /\ gate[r].cand = r /\ gate[r].base >= gate[r].sent
        /\ Asked(r) \cap BrokenAt[<<r, gate[r].base>>] = {}
    /\ gate[r].verdict = "invalid" =>
        \/ gate[r].reason = "conflict" /\ \E b \in gate[r].sent..main : <<r, b>> \in ConflictAt
        \/ gate[r].reason = "broken" /\ \E b \in gate[r].sent..main : BrokenAt[<<r, b>>] # {}
        \/ gate[r].reason \in {"timeout", "unmerged"} /\ slow > 0

RequestInv(r) == Held(r) /\ Staged(r) /\ Evaluated(r) /\ TrueAnswer(r)

GateInv == GateType /\ EvalAtRest /\ \A r \in Requests : RequestInv(r)

\* Nobody has asked anything when the runner starts.
LEMMA GateStarts == GateInit => GateInv
<1> SUFFICES ASSUME GateInit PROVE GateInv
    OBVIOUS
<1>1. NoEval \in GateEvals /\ Resting /\ ~ev.cancelled /\ ev.failing = {}
    BY DEF GateInit, NoEval, GateEvals, Resting
<1>2. Unasked \in GateAsks
    BY DEF Unasked, GateAsks
<1>3. GateType
    BY <1>1, <1>2 DEF GateInit, GateType
<1>4. ASSUME NEW r \in Requests PROVE RequestInv(r)
  <2>1. gate[r] = Unasked /\ gateMu # r /\ main = 1
    BY GateAssumption DEF GateInit, Nobody
  <2> QED BY <2>1 DEF Unasked, RequestInv, Held, Staged, Evaluated, TrueAnswer, Locked
<1> QED BY <1>1, <1>3, <1>4 DEF GateInv, EvalAtRest

\* True answers stay true: main and the count of timeouts only grow.
LEMMA AnswerStays ==
    ASSUME GateType, NEW r \in Requests, TrueAnswer(r),
           gate'[r].verdict = gate[r].verdict, gate'[r].reason = gate[r].reason,
           gate'[r].sent = gate[r].sent,
           gate[r].verdict = "pass" => gate'[r].cand = gate[r].cand /\ gate'[r].base = gate[r].base,
           main' \in Nat, main <= main', slow' \in Nat, slow <= slow'
    PROVE  TrueAnswer(r)'
<1>1. gate[r].sent \in Nat
    BY DEF GateType, GateAsks
<1>2. \A b \in gate[r].sent..main : b \in gate'[r].sent..main'
    BY <1>1 DEF GateType
<1>3. slow > 0 => slow' > 0
    BY DEF GateType
<1> QED BY <1>2, <1>3 DEF TrueAnswer

\* A request whose handler a step leaves alone, with the shared state as it was.
LEMMA Untouched ==
    ASSUME GateInv, NEW s \in Requests, gate'[s] = gate[s],
           clone' = clone, scratch' = scratch, gateMu' = gateMu, ev' = ev,
           main' \in Nat, main <= main', slow' \in Nat, slow <= slow'
    PROVE  RequestInv(s)'
<1>1. GateType /\ Held(s) /\ Staged(s) /\ Evaluated(s) /\ TrueAnswer(s)
    BY DEF GateInv, RequestInv
<1>2. Held(s)'
    BY <1>1 DEF Held, Resting
<1>3. Staged(s)'
  <2>1. gate[s].sent \in Nat /\ scratch.base \in Nat /\ main \in Nat
    BY <1>1 DEF GateType, GateAsks
  <2> QED BY <1>1, <2>1 DEF Staged
<1>4. Evaluated(s)'
    BY <1>1 DEF Evaluated, Owed, GateType
<1>5. TrueAnswer(s)'
    BY <1>1, AnswerStays
<1> QED BY <1>2, <1>3, <1>4, <1>5 DEF RequestInv

\* A request other than the one that has, takes or gives back the lock.
LEMMA Bystander ==
    ASSUME GateInv, NEW r \in Requests, NEW s \in Requests, s # r, gate'[s] = gate[s],
           gateMu \in {r, Nobody}, gateMu' \in {r, Nobody},
           main' \in Nat, main <= main', slow' \in Nat, slow <= slow'
    PROVE  RequestInv(s)'
<1>1. GateType /\ Held(s) /\ Staged(s) /\ TrueAnswer(s)
    BY DEF GateInv, RequestInv
<1>2. gateMu # s /\ gateMu' # s
    BY GateAssumption DEF Nobody
<1>3. gate[s].pc \notin Locked
    BY <1>1, <1>2 DEF Held
<1>4. Held(s)'
    BY <1>2, <1>3 DEF Held, Locked
<1>5. Staged(s)'
  <2>1. gate[s].sent \in Nat /\ main \in Nat
    BY <1>1 DEF GateType, GateAsks
  <2> QED BY <1>1, <1>3, <2>1 DEF Staged, Locked
<1>6. Evaluated(s)'
    BY <1>3 DEF Evaluated, Locked
<1>7. TrueAnswer(s)'
    BY <1>1, AnswerStays
<1> QED BY <1>4, <1>5, <1>6, <1>7 DEF RequestInv

\* What an answer has to be worth before it is given.
Earned(r, verdict, reason) ==
    /\ verdict = "pass" =>
        /\ gate[r].cand = r /\ gate[r].base >= gate[r].sent
        /\ Asked(r) \cap BrokenAt[<<r, gate[r].base>>] = {}
    /\ verdict = "invalid" =>
        \/ reason = "conflict" /\ \E b \in gate[r].sent..main : <<r, b>> \in ConflictAt
        \/ reason = "broken" /\ \E b \in gate[r].sent..main : BrokenAt[<<r, b>>] # {}
        \/ reason \in {"timeout", "unmerged"} /\ slow' > 0

\* The handler answers, gives back the lock and leaves a quiet evaluator.
LEMMA FinishKeeps ==
    ASSUME GateInv, NEW r \in Requests, gateMu = r,
           NEW verdict \in {"pass", "invalid", "error"},
           NEW reason \in {"none", "sync", "stage", "conflict", "unmerged", "broken", "timeout", "cancelled"},
           Finish(r, verdict, reason),
           gate[r].verdict = "none" => Earned(r, verdict, reason),
           main' = main, clone' = clone, slow' \in Nat, slow <= slow',
           scratch' \in [base : Nat, cand : Requests \cup {Nobody}]
    PROVE  GateInv'
<1>t. GateType /\ Staged(r) /\ TrueAnswer(r) /\ gate[r] \in GateAsks /\ main \in Nat
    BY DEF GateInv, RequestInv, GateType
<1>1. gateMu' = Nobody /\ ev' = NoEval /\ gateMu' # r
    BY GateAssumption DEF Finish, Nobody
<1>2. /\ gate' \in [Requests -> GateAsks]
      /\ \A s \in Requests : s # r => gate'[s] = gate[s]
      /\ gate'[r].pc = "done" /\ gate'[r].sent = gate[r].sent
      /\ gate'[r].base = gate[r].base /\ gate'[r].cand = gate[r].cand
      /\ IF gate[r].verdict = "none" THEN gate'[r].verdict = verdict /\ gate'[r].reason = reason
         ELSE gate'[r].verdict = gate[r].verdict /\ gate'[r].reason = gate[r].reason
  <2>1. CASE gate[r].verdict = "none"
    <3>1. gate' = [gate EXCEPT ![r].pc = "done", ![r].verdict = verdict, ![r].reason = reason]
        BY <2>1 DEF Finish, Answer
    <3> QED BY <1>t, <2>1, <3>1 DEF GateType, GateAsks
  <2>2. CASE gate[r].verdict # "none"
    <3>1. gate' = [gate EXCEPT ![r].pc = "done"]
        BY <2>2 DEF Finish
    <3> QED BY <1>t, <2>2, <3>1 DEF GateType, GateAsks
  <2> QED BY <2>1, <2>2
<1>3. Resting' /\ ~ev'.cancelled /\ ev'.failing = {} /\ ev' \in GateEvals
    BY <1>1 DEF NoEval, Resting, GateEvals
<1>4. GateType'
    BY <1>t, <1>1, <1>2, <1>3 DEF GateType
<1>5. EvalAtRest'
    BY <1>3 DEF EvalAtRest
<1>6. RequestInv(r)'
  <2>1. Held(r)' /\ Evaluated(r)' /\ Staged(r)'
    BY <1>t, <1>1, <1>2 DEF Held, Evaluated, Staged, Locked
  <2>2. TrueAnswer(r)'
    <3>1. CASE gate[r].verdict = "none"
        BY <1>2, <3>1 DEF Earned, TrueAnswer
    <3>2. CASE gate[r].verdict # "none"
      <4>1. main' \in Nat /\ main <= main'
        BY <1>t
      <4> QED BY <1>t, <1>2, <3>2, <4>1, AnswerStays
    <3> QED BY <3>1, <3>2
  <2> QED BY <2>1, <2>2 DEF RequestInv
<1>7. ASSUME NEW s \in Requests, s # r PROVE RequestInv(s)'
  <2>1. main' \in Nat /\ main <= main'
    BY <1>t
  <2> QED BY <1>1, <1>2, <1>7, <2>1, Bystander
<1> QED BY <1>4, <1>5, <1>6, <1>7 DEF GateInv

\* Steps outside the lock: a question is sent or admitted, main moves on.
LEMMA OutsideKeeps ==
    ASSUME GateInv, NEW r \in Requests, Send(r) \/ Admit(r) \/ MainMoves
    PROVE  GateInv'
<1>t. GateType /\ EvalAtRest /\ main \in Nat /\ slow \in Nat
    BY DEF GateInv, GateType
<1>1. /\ clone' = clone /\ scratch' = scratch /\ gateMu' = gateMu /\ ev' = ev /\ slow' = slow
      /\ main' \in {main, main + 1}
    BY DEF Send, Admit, MainMoves
<1>2. main' \in Nat /\ main <= main' /\ slow' \in Nat /\ slow <= slow'
    BY <1>t, <1>1
<1>3. CASE MainMoves
  <2>1. gate' = gate
    BY <1>3 DEF MainMoves
  <2>2. GateType' /\ EvalAtRest'
    BY <1>t, <1>1, <1>2, <2>1 DEF GateType, EvalAtRest, Resting
  <2> QED BY <1>1, <1>2, <2>1, <2>2, Untouched DEF GateInv
<1>4. CASE Send(r) \/ Admit(r)
  <2>0. main' = main
    BY <1>4 DEF Send, Admit
  <2>1. /\ gate' \in [Requests -> GateAsks]
        /\ \A s \in Requests : s # r => gate'[s] = gate[s]
        /\ gate[r].pc \in {"new", "waiting"} /\ gate'[r].pc \in {"waiting", "admitted"}
        /\ gate'[r].sent \in {gate[r].sent, main}
        /\ gate'[r].verdict = gate[r].verdict
    <3>1. CASE Send(r)
      <4>1. gate \in [Requests -> GateAsks] /\ gate[r] \in GateAsks
        BY <1>t DEF GateType
      <4>2. gate[r].pc = "new" /\ gate' = [gate EXCEPT ![r] = [[@ EXCEPT !.pc = "waiting"] EXCEPT !.sent = main]]
        BY <3>1 DEF Send
      <4>3. [[gate[r] EXCEPT !.pc = "waiting"] EXCEPT !.sent = main] \in GateAsks
        BY <1>t, <4>1 DEF GateAsks
      <4>4. /\ gate'[r] = [[gate[r] EXCEPT !.pc = "waiting"] EXCEPT !.sent = main]
            /\ gate' \in [Requests -> GateAsks]
            /\ \A s \in Requests : s # r => gate'[s] = gate[s]
        BY <4>1, <4>2, <4>3
      <4>5. gate'[r].pc = "waiting" /\ gate'[r].sent = main /\ gate'[r].verdict = gate[r].verdict
        BY <4>1, <4>4 DEF GateAsks
      <4> QED BY <4>2, <4>4, <4>5
    <3>2. CASE Admit(r)
        BY <1>t, <3>2 DEF Admit, GateType, GateAsks
    <3> QED BY <1>4, <3>1, <3>2
  <2>2. GateType' /\ EvalAtRest'
    BY <1>t, <1>1, <1>2, <2>1 DEF GateType, EvalAtRest, Resting
  <2>3. ASSUME NEW s \in Requests, s # r PROVE RequestInv(s)'
    BY <1>1, <1>2, <2>1, <2>3, Untouched
  <2>4. Held(r) /\ Staged(r) /\ gateMu # r /\ gate[r].verdict \notin {"pass", "invalid"}
    BY <2>1 DEF GateInv, RequestInv, Held, Staged, Locked
  <2>5. RequestInv(r)'
    <3>1. Held(r)' /\ Evaluated(r)' /\ TrueAnswer(r)'
        BY <1>1, <2>1, <2>4 DEF Held, Evaluated, TrueAnswer, Locked
    <3>2. Staged(r)'
      <4>1. gate'[r].sent <= main'
        BY <1>t, <2>0, <2>1, <2>4 DEF Staged
      <4> QED BY <2>1, <2>4, <4>1 DEF Staged
    <3> QED BY <3>1, <3>2 DEF RequestInv
  <2> QED BY <2>2, <2>3, <2>5 DEF GateInv
<1> QED BY <1>3, <1>4

\* Lock: the evaluator is quiet and its context alive.
LEMMA LockKeeps ==
    ASSUME GateInv, NEW r \in Requests, Lock(r)
    PROVE  GateInv'
<1>t. GateType /\ EvalAtRest /\ main \in Nat /\ slow \in Nat /\ Staged(r)
    BY DEF GateInv, GateType, RequestInv
<1>1. /\ main' = main /\ clone' = clone /\ scratch' = scratch /\ ev' = ev /\ slow' = slow
      /\ gateMu = Nobody /\ gateMu' = r
    BY DEF Lock
<1>2. /\ gate' \in [Requests -> GateAsks]
      /\ \A s \in Requests : s # r => gate'[s] = gate[s]
      /\ gate[r].pc = "admitted" /\ gate'[r].pc = "sync"
      /\ gate'[r].sent = gate[r].sent /\ gate'[r].verdict = gate[r].verdict
    BY <1>t DEF Lock, GateType, GateAsks
<1>3. Resting /\ ~ev.cancelled /\ ev.failing = {}
    BY <1>t, <1>1 DEF EvalAtRest, Resting
<1>4. GateType' /\ EvalAtRest'
    BY <1>t, <1>1, <1>2, <1>3, GateAssumption DEF GateType, EvalAtRest, Resting, Nobody
<1>5. RequestInv(r)'
  <2>1. Held(r)'
    BY <1>1, <1>2, <1>3 DEF Held, Resting, Locked
  <2>2. Staged(r)' /\ Evaluated(r)' /\ TrueAnswer(r)'
    BY <1>t, <1>1, <1>2 DEF Staged, Evaluated, TrueAnswer
  <2> QED BY <2>1, <2>2 DEF RequestInv
<1>6. ASSUME NEW s \in Requests, s # r PROVE RequestInv(s)'
  <2>1. main <= main' /\ slow <= slow'
    BY <1>t, <1>1
  <2> QED BY <1>t, <1>1, <1>2, <1>6, <2>1, Bystander
<1> QED BY <1>4, <1>5, <1>6 DEF GateInv

\* The holder of the lock goes on holding it: what has to be shown is its own part.
LEMMA HolderKeeps ==
    ASSUME GateInv, NEW r \in Requests, gateMu = r, gateMu' = r,
           \A s \in Requests : s # r => gate'[s] = gate[s],
           main' = main, slow' \in Nat, slow <= slow',
           GateType', ev'.failing # {} => ev'.errs # <<>>, RequestInv(r)'
    PROVE  GateInv'
<1>1. main' \in Nat /\ main <= main'
    BY DEF GateInv, GateType
<1>2. ASSUME NEW s \in Requests, s # r PROVE RequestInv(s)'
    BY <1>1, <1>2, Bystander
<1>3. gateMu' # Nobody
    BY GateAssumption DEF Nobody
<1>4. EvalAtRest'
    BY <1>3 DEF EvalAtRest
<1> QED BY <1>2, <1>4 DEF GateInv

\* What is known of a request whose handler is under the lock.
LEMMA HolderFacts ==
    ASSUME GateInv, NEW r \in Requests, gate[r].pc \in Locked
    PROVE  /\ GateType /\ Held(r) /\ Staged(r) /\ Evaluated(r) /\ TrueAnswer(r)
           /\ gateMu = r /\ r # Nobody /\ gate[r] \in GateAsks
           /\ main \in Nat /\ slow \in Nat /\ clone \in Nat /\ clone <= main
           /\ gate[r].verdict \in {"none", "error"}
           /\ ev.failing # {} => ev.errs # <<>>
<1>1. GateType /\ Held(r) /\ Staged(r) /\ Evaluated(r) /\ TrueAnswer(r) /\ EvalAtRest
    BY DEF GateInv, RequestInv
<1>2. gateMu = r /\ r # Nobody
    BY <1>1, GateAssumption DEF Held, Nobody
<1>3. gate[r] \in GateAsks /\ main \in Nat /\ slow \in Nat /\ clone \in Nat /\ clone <= main
    BY <1>1 DEF GateType
<1>4. gate[r].pc # "done"
    BY DEF Locked
<1>5. gate[r].verdict \in {"none", "pass", "invalid", "error"}
    BY <1>3 DEF GateAsks
<1> QED BY <1>1, <1>2, <1>3, <1>4, <1>5 DEF Staged, EvalAtRest

\* The client gives up: its request is answered without a verdict, at once, or by
\* a handler that waits for the lock or works on under a dead context.
LEMMA GoneKeeps ==
    ASSUME GateInv, NEW r \in Requests, ClientGone(r)
    PROVE  GateInv'
<1>t. GateType /\ EvalAtRest /\ Held(r) /\ Staged(r) /\ gate[r] \in GateAsks
    BY DEF GateInv, RequestInv, GateType
<1>1. /\ main' = main /\ clone' = clone /\ scratch' = scratch /\ gateMu' = gateMu
      /\ slow' = slow + 1
      /\ gate[r].pc \in {"waiting", "admitted", "sync", "stage", "start", "eval"}
      /\ ev' = IF gateMu = r THEN [ev EXCEPT !.cancelled = TRUE] ELSE ev
    BY DEF ClientGone, GateSlow
<1>2. slow' \in Nat /\ slow <= slow' /\ main' \in Nat /\ main <= main'
    BY <1>t, <1>1 DEF GateType
<1> DEFINE pc == IF gate[r].pc = "waiting" THEN "done" ELSE gate[r].pc
           x == [gate[r] EXCEPT !.pc = pc, !.verdict = "error", !.reason = "gone"]
<1>3. gate' = [gate EXCEPT ![r] = x]
    BY DEF ClientGone
<1>4. /\ x \in GateAsks /\ x.pc = pc /\ x.verdict = "error" /\ x.reason = "gone"
      /\ x.sent = gate[r].sent /\ x.base = gate[r].base /\ x.cand = gate[r].cand
    BY <1>t DEF GateAsks
<1> HIDE DEF x
<1>5. /\ gate' \in [Requests -> GateAsks] /\ gate'[r] = x
      /\ \A s \in Requests : s # r => gate'[s] = gate[s]
    BY <1>t, <1>3, <1>4 DEF GateType
<1>6. TrueAnswer(r)'
    BY <1>4, <1>5 DEF TrueAnswer
<1>7. CASE gateMu = r
  <2>1. gate[r].pc \in Locked /\ pc = gate[r].pc
    BY <1>t, <1>7 DEF Held, Locked
  <2>2. /\ ev' \in GateEvals /\ ev'.todo = ev.todo /\ ev'.errs = ev.errs
        /\ ev'.busy = ev.busy /\ ev'.failing = ev.failing /\ ev'.cancelled
    BY <1>t, <1>1, <1>7 DEF GateType, GateEvals
  <2>3. GateType'
    BY <1>t, <1>1, <1>2, <1>5, <2>2 DEF GateType
  <2>4. Held(r)'
    BY <1>t, <1>1, <1>4, <1>5, <1>7, <2>1, <2>2 DEF Held, Resting
  <2>5. Staged(r)'
    BY <1>t, <1>1, <1>4, <1>5, <2>1 DEF Staged
  <2>6. Evaluated(r)'
    BY <1>4, <1>5, <2>2 DEF Evaluated
  <2>7. ev'.failing # {} => ev'.errs # <<>>
    BY <1>t, <2>2 DEF EvalAtRest
  <2>8. RequestInv(r)'
    BY <1>6, <2>4, <2>5, <2>6 DEF RequestInv
  <2> QED BY <1>1, <1>2, <1>5, <1>7, <2>3, <2>7, <2>8, HolderKeeps
<1>8. CASE gateMu # r
  <2>1. ev' = ev /\ gate[r].pc \in {"waiting", "admitted"} /\ pc \in {"admitted", "done"}
    BY <1>t, <1>1, <1>8 DEF Held, Locked
  <2>2. GateType' /\ EvalAtRest'
    BY <1>t, <1>1, <1>2, <1>5, <2>1 DEF GateType, EvalAtRest, Resting
  <2>3. Held(r)' /\ Staged(r)' /\ Evaluated(r)'
    BY <1>t, <1>1, <1>4, <1>5, <1>8, <2>1 DEF Held, Staged, Evaluated, Locked
  <2>4. ASSUME NEW s \in Requests, s # r PROVE RequestInv(s)'
    BY <1>1, <1>2, <1>5, <2>1, <2>4, Untouched
  <2> QED BY <1>6, <2>2, <2>3, <2>4 DEF GateInv, RequestInv
<1> QED BY <1>7, <1>8

\* The holder goes from one stage of its handler to the next.
LEMMA AdvanceKeeps ==
    ASSUME GateInv, NEW r \in Requests, gate[r].pc \in Locked, NEW x \in GateAsks,
           gate' = [gate EXCEPT ![r] = x],
           x.verdict = gate[r].verdict, x.sent = gate[r].sent, x.pc \in Locked,
           gateMu' = gateMu, main' = main, slow' = slow, clone' \in Nat, clone' <= main,
           scratch' \in [base : Nat, cand : Requests \cup {Nobody}],
           ev' \in GateEvals, ev'.errs = ev.errs, ev'.failing = ev.failing,
           ev'.cancelled = ev.cancelled, x.pc # "eval" => Resting',
           Staged(r)', Evaluated(r)'
    PROVE  GateInv'
<1>1. /\ GateType /\ Held(r) /\ gateMu = r /\ main \in Nat /\ slow \in Nat
      /\ gate[r].verdict \in {"none", "error"} /\ (ev.failing # {} => ev.errs # <<>>)
    BY HolderFacts
<1>2. gate'[r] = x /\ gate' \in [Requests -> GateAsks] /\ \A s \in Requests : s # r => gate'[s] = gate[s]
    BY <1>1 DEF GateType
<1>3. GateType'
    BY <1>1, <1>2 DEF GateType
<1>4. Held(r)'
    BY <1>1, <1>2 DEF Held
<1>5. TrueAnswer(r)'
    BY <1>1, <1>2 DEF TrueAnswer
<1>6. RequestInv(r)'
    BY <1>4, <1>5 DEF RequestInv
<1>7. slow' \in Nat /\ slow <= slow'
    BY <1>1
<1> QED BY <1>1, <1>2, <1>3, <1>6, <1>7, HolderKeeps

\* sync fetches a version of main no older than the question, or gives up.
LEMMA SyncKeeps ==
    ASSUME GateInv, NEW r \in Requests, sync(r)
    PROVE  GateInv'
<1>0. gate[r].pc = "sync" /\ gate[r].pc \in Locked /\ main' = main /\ scratch' = scratch
    BY DEF sync, Locked
<1>1. /\ GateType /\ Held(r) /\ Staged(r) /\ gateMu = r /\ gate[r] \in GateAsks
      /\ main \in Nat /\ slow \in Nat
    BY <1>0, HolderFacts
<1>2. CASE /\ clone' = main /\ gate' = [gate EXCEPT ![r].pc = "stage"]
           /\ UNCHANGED <<gateMu, ev, slow>>
  <2> DEFINE x == [gate[r] EXCEPT !.pc = "stage"]
  <2>1. gate' = [gate EXCEPT ![r] = x]
    BY <1>2
  <2>2. /\ x \in GateAsks /\ x.pc = "stage" /\ x.verdict = gate[r].verdict /\ x.sent = gate[r].sent
    BY <1>1 DEF GateAsks
  <2> HIDE DEF x
  <2>3. gate'[r] = x
    BY <1>1, <2>1 DEF GateType
  <2>4. Staged(r)' /\ Evaluated(r)'
    BY <1>0, <1>1, <1>2, <2>2, <2>3 DEF Staged, Evaluated
  <2>5. Resting' /\ ev' \in GateEvals /\ scratch' \in [base : Nat, cand : Requests \cup {Nobody}]
    BY <1>0, <1>1, <1>2 DEF Held, Resting, GateType
  <2>6. x.pc \in Locked /\ clone' \in Nat /\ clone' <= main
    BY <1>1, <1>2, <2>2 DEF Locked
  <2> QED BY <1>0, <1>2, <2>1, <2>2, <2>4, <2>5, <2>6, AdvanceKeeps
<1>3. CASE /\ GateSlow \/ (gate[r].verdict # "none" /\ UNCHANGED slow)
           /\ Finish(r, "error", "sync") /\ UNCHANGED clone
  <2>1. slow' \in Nat /\ slow <= slow'
    BY <1>1, <1>3 DEF GateSlow
  <2>2. scratch' \in [base : Nat, cand : Requests \cup {Nobody}]
    BY <1>0, <1>1 DEF GateType
  <2>3. Earned(r, "error", "sync")
    BY DEF Earned
  <2> QED BY <1>0, <1>1, <1>3, <2>1, <2>2, <2>3, FinishKeeps
<1> QED BY <1>2, <1>3 DEF sync

\* stageCandidate puts the candidate on the fetched version, finds a conflict
\* there, takes a failed merge for one, or gives up.
LEMMA StageKeeps ==
    ASSUME GateInv, NEW r \in Requests, stageCandidate(r)
    PROVE  GateInv'
<1>0. gate[r].pc = "stage" /\ gate[r].pc \in Locked /\ main' = main /\ clone' = clone
    BY DEF stageCandidate, Locked
<1>1. /\ GateType /\ Held(r) /\ Staged(r) /\ gateMu = r /\ gate[r] \in GateAsks
      /\ main \in Nat /\ slow \in Nat /\ clone \in Nat /\ clone <= main
    BY <1>0, HolderFacts
<1>2. gate[r].sent <= clone /\ gate[r].sent \in Nat
    BY <1>0, <1>1 DEF Staged, GateAsks
<1>3. CASE /\ scratch' = [base |-> clone, cand |-> r]
           /\ gate' = [gate EXCEPT ![r].pc = "start"]
           /\ UNCHANGED <<gateMu, ev, slow>>
  <2> DEFINE x == [gate[r] EXCEPT !.pc = "start"]
  <2>1. gate' = [gate EXCEPT ![r] = x]
    BY <1>3
  <2>2. /\ x \in GateAsks /\ x.pc = "start" /\ x.verdict = gate[r].verdict /\ x.sent = gate[r].sent
    BY <1>1 DEF GateAsks
  <2> HIDE DEF x
  <2>3. gate'[r] = x
    BY <1>1, <2>1 DEF GateType
  <2>4. Staged(r)' /\ Evaluated(r)'
    BY <1>0, <1>1, <1>2, <1>3, <2>2, <2>3 DEF Staged, Evaluated
  <2>5. Resting' /\ ev' \in GateEvals /\ scratch' \in [base : Nat, cand : Requests \cup {Nobody}]
    BY <1>0, <1>1, <1>3 DEF Held, Resting, GateType
  <2>6. x.pc \in Locked /\ clone' \in Nat /\ clone' <= main
    BY <1>0, <1>1, <2>2 DEF Locked
  <2> QED BY <1>0, <1>3, <2>1, <2>2, <2>4, <2>5, <2>6, AdvanceKeeps
<1>4. CASE /\ <<r, clone>> \in ConflictAt
           /\ scratch' = [base |-> clone, cand |-> Nobody]
           /\ Finish(r, "invalid", "conflict") /\ UNCHANGED slow
  <2>1. slow' \in Nat /\ slow <= slow'
    BY <1>1, <1>4
  <2>2. scratch' \in [base : Nat, cand : Requests \cup {Nobody}]
    BY <1>1, <1>4
  <2>3. clone \in gate[r].sent..main
    BY <1>1, <1>2
  <2>4. Earned(r, "invalid", "conflict")
    BY <1>4, <2>3 DEF Earned
  <2> QED BY <1>0, <1>1, <1>4, <2>1, <2>2, <2>4, FinishKeeps
<1>5. CASE /\ GateSlow \/ (gate[r].verdict # "none" /\ UNCHANGED slow)
           /\ scratch' \in {scratch, [base |-> clone, cand |-> Nobody]}
           /\ Finish(r, "error", "stage")
  <2>1. slow' \in Nat /\ slow <= slow'
    BY <1>1, <1>5 DEF GateSlow
  <2>2. scratch' \in [base : Nat, cand : Requests \cup {Nobody}]
    BY <1>1, <1>5 DEF GateType
  <2>3. Earned(r, "error", "stage")
    BY DEF Earned
  <2> QED BY <1>0, <1>1, <1>5, <2>1, <2>2, <2>3, FinishKeeps
<1>6. CASE /\ GateSlow
           /\ scratch' = [base |-> clone, cand |-> Nobody]
           /\ Finish(r, "invalid", "unmerged")
  <2>1. slow' \in Nat /\ slow <= slow' /\ slow' > 0
    BY <1>1, <1>6 DEF GateSlow
  <2>2. scratch' \in [base : Nat, cand : Requests \cup {Nobody}]
    BY <1>1, <1>6
  <2>3. Earned(r, "invalid", "unmerged")
    BY <2>1 DEF Earned
  <2> QED BY <1>0, <1>1, <1>6, <2>1, <2>2, <2>3, FinishKeeps
<1> QED BY <1>3, <1>4, <1>5, <1>6 DEF stageCandidate

\* Validate: every host asked for is in one of the batches.
LEMMA ValidateKeeps ==
    ASSUME GateInv, NEW r \in Requests, Validate(r)
    PROVE  GateInv'
<1>0. /\ gate[r].pc = "start" /\ gate[r].pc \in Locked /\ main' = main /\ clone' = clone
      /\ scratch' = scratch /\ gateMu' = gateMu /\ slow' = slow
    BY DEF Validate, Locked
<1>1. /\ GateType /\ Held(r) /\ Staged(r) /\ gateMu = r /\ gate[r] \in GateAsks
      /\ main \in Nat /\ slow \in Nat /\ clone \in Nat /\ clone <= main
    BY <1>0, HolderFacts
<1>2. /\ ev \in GateEvals /\ scratch \in [base : Nat, cand : Requests \cup {Nobody}]
      /\ Resting
    BY <1>0, <1>1 DEF GateType, Held
<1> DEFINE todo == chunk(resolveHosts(r), ChunkSize)
<1>3. /\ todo \in Seq(Seq(Work))
      /\ \A h \in Asked(r) : \E b \in 1..Len(todo) : h \in Names(todo[b])
  <2> DEFINE hs == resolveHosts(r)
  <2>1. hs \in Seq(Work) /\ Asked(r) \subseteq Names(hs) /\ ChunkSize \in Int
    BY ResolveCovers, GateAssumption
  <2> HIDE DEF hs
  <2>2. /\ chunk(hs, ChunkSize) \in Seq(Seq(Work))
        /\ \A i \in 1..Len(hs) : \E b \in 1..Len(chunk(hs, ChunkSize)) :
            \E j \in DOMAIN chunk(hs, ChunkSize)[b] : chunk(hs, ChunkSize)[b][j] = hs[i]
    BY <2>1, ChunksCover
  <2>3. todo = chunk(hs, ChunkSize)
    BY DEF hs
  <2> HIDE DEF todo
  <2>4. ASSUME NEW h \in Asked(r) PROVE \E b \in 1..Len(todo) : h \in Names(todo[b])
    <3>1. PICK i \in 1..Len(hs) : h = hs[i]
      BY <2>1 DEF Names
    <3>2. PICK b \in 1..Len(todo) : \E j \in DOMAIN todo[b] : todo[b][j] = hs[i]
      BY <2>2, <2>3
    <3> QED BY <3>1, <3>2 DEF Names
  <2> QED BY <2>2, <2>3, <2>4
<1>4. ev' = [ev EXCEPT !.todo = todo]
    BY DEF Validate
<1> HIDE DEF todo
<1>5. /\ ev' \in GateEvals /\ ev'.todo = todo /\ ev'.errs = ev.errs /\ ev'.busy = ev.busy
      /\ ev'.failing = ev.failing /\ ev'.cancelled = ev.cancelled
    BY <1>2, <1>3, <1>4 DEF GateEvals
<1> DEFINE x == [gate[r] EXCEPT !.pc = "eval", !.base = scratch.base, !.cand = scratch.cand]
<1>6. gate' = [gate EXCEPT ![r] = x]
    BY DEF Validate
<1>7. /\ x \in GateAsks /\ x.pc = "eval" /\ x.base = scratch.base /\ x.cand = scratch.cand
      /\ x.verdict = gate[r].verdict /\ x.sent = gate[r].sent
    BY <1>1, <1>2 DEF GateAsks
<1> HIDE DEF x
<1>8. gate'[r] = x
    BY <1>1, <1>6 DEF GateType
<1>9. Staged(r)'
    BY <1>0, <1>1, <1>7, <1>8 DEF Staged
<1>10. Evaluated(r)'
    BY <1>2, <1>3, <1>5 DEF Evaluated, Owed, Resting
<1> QED BY <1>0, <1>1, <1>2, <1>5, <1>6, <1>7, <1>9, <1>10, AdvanceKeeps DEF Locked

\* evalWithJobs passes only what every host's line accounts for.
LEMMA JobsKeep ==
    ASSUME GateInv, NEW r \in Requests, evalWithJobs(r)
    PROVE  GateInv'
<1>0. /\ gate[r].pc = "start" /\ gate[r].pc \in Locked /\ main' = main /\ clone' = clone
      /\ scratch' = scratch /\ resolveHosts(r) # <<>>
    BY DEF evalWithJobs, Locked
<1>1. /\ GateType /\ Held(r) /\ Staged(r) /\ TrueAnswer(r) /\ gateMu = r /\ gate[r] \in GateAsks
      /\ main \in Nat /\ slow \in Nat /\ r # Nobody /\ gate[r].verdict \in {"none", "error"}
    BY <1>0, HolderFacts
<1>2. /\ scratch \in [base : Nat, cand : Requests \cup {Nobody}]
      /\ scratch.cand = r /\ gate[r].sent <= scratch.base /\ scratch.base <= main
      /\ scratch.base \in Nat /\ gate[r].sent \in Nat
    BY <1>0, <1>1 DEF GateType, Staged, GateAsks
<1>3. Broken = BrokenAt[<<r, scratch.base>>]
    BY <1>1, <1>2 DEF Broken
<1> DEFINE want == Names(resolveHosts(r))
<1>4. PICK seen \in SUBSET want :
        /\ slow' = IF seen = want THEN slow ELSE slow + 1
        /\ IF seen = {} \/ (seen \cap Broken) \cup Unaccounted(want, seen) # {}
           THEN Finish(r, "invalid", IF seen \cap Broken # {} THEN "broken" ELSE "timeout")
           ELSE /\ gate' = [gate EXCEPT ![r].pc = "done", ![r].base = scratch.base,
                                        ![r].cand = scratch.cand,
                                        ![r].verdict = IF @ = "none" THEN "pass" ELSE @]
                /\ gateMu' = Nobody /\ ev' = NoEval
    BY DEF evalWithJobs
<1>5. want # {} /\ Asked(r) \subseteq want
  <2>1. resolveHosts(r) \in Seq(Work) /\ Asked(r) \subseteq want
    BY ResolveCovers
  <2>2. 1 \in DOMAIN resolveHosts(r)
    BY <1>0, <2>1
  <2> QED BY <2>1, <2>2 DEF Names
<1>6. slow' \in Nat /\ slow <= slow' /\ main' \in Nat /\ main <= main'
    BY <1>0, <1>1, <1>4
<1> HIDE DEF want
<1>7. CASE seen = {} \/ (seen \cap Broken) \cup Unaccounted(want, seen) # {}
  <2> DEFINE why == IF seen \cap Broken # {} THEN "broken" ELSE "timeout"
  <2>1. Finish(r, "invalid", why) /\ why \in {"broken", "timeout"}
    BY <1>4, <1>7
  <2>2. Earned(r, "invalid", why)
    <3>1. CASE seen \cap Broken # {}
      <4>1. scratch.base \in gate[r].sent..main /\ BrokenAt[<<r, scratch.base>>] # {}
        BY <1>1, <1>2, <1>3, <3>1
      <4> QED BY <3>1, <4>1 DEF Earned
    <3>2. CASE seen \cap Broken = {}
      <4>1. seen # want
        BY <1>5, <1>7, <3>2 DEF Unaccounted
      <4>2. slow' > 0
        BY <1>1, <1>4, <4>1
      <4> QED BY <3>2, <4>2 DEF Earned
    <3> QED BY <3>1, <3>2
  <2> HIDE DEF why
  <2>3. scratch' \in [base : Nat, cand : Requests \cup {Nobody}]
    BY <1>0, <1>2
  <2> QED BY <1>0, <1>1, <1>6, <2>1, <2>2, <2>3, FinishKeeps
<1>8. CASE ~(seen = {} \/ (seen \cap Broken) \cup Unaccounted(want, seen) # {})
  <2> DEFINE v == IF gate[r].verdict = "none" THEN "pass" ELSE gate[r].verdict
             x == [gate[r] EXCEPT !.pc = "done", !.base = scratch.base, !.cand = scratch.cand,
                                  !.verdict = v]
  <2>1. gate' = [gate EXCEPT ![r] = x] /\ gateMu' = Nobody /\ ev' = NoEval
    BY <1>4, <1>8
  <2>2. /\ x \in GateAsks /\ x.pc = "done" /\ x.base = scratch.base /\ x.cand = r
        /\ x.sent = gate[r].sent /\ x.verdict \in {"pass", "error"}
    BY <1>1, <1>2 DEF GateAsks
  <2> HIDE DEF x, v
  <2>3. /\ gate'[r] = x /\ gate' \in [Requests -> GateAsks]
        /\ \A s \in Requests : s # r => gate'[s] = gate[s]
    BY <1>1, <2>1, <2>2 DEF GateType
  <2>4. Resting' /\ ~ev'.cancelled /\ ev'.failing = {} /\ ev' \in GateEvals
    BY <2>1 DEF NoEval, Resting, GateEvals
  <2>5. GateType' /\ EvalAtRest'
    BY <1>0, <1>1, <1>6, <2>1, <2>3, <2>4 DEF GateType, EvalAtRest
  <2>6. Held(r)' /\ Staged(r)' /\ Evaluated(r)'
    BY <1>0, <1>1, <2>1, <2>2, <2>3 DEF Held, Staged, Evaluated, Locked
  <2>7. TrueAnswer(r)'
    <3>1. Asked(r) \cap BrokenAt[<<r, scratch.base>>] = {}
      BY <1>3, <1>5, <1>8 DEF Unaccounted
    <3> QED BY <1>2, <2>2, <2>3, <3>1 DEF TrueAnswer
  <2>8. ASSUME NEW s \in Requests, s # r PROVE RequestInv(s)'
    BY <1>1, <1>6, <2>1, <2>3, <2>8, Bystander
  <2> QED BY <2>5, <2>6, <2>7, <2>8 DEF GateInv, RequestInv
<1> QED BY <1>7, <1>8

\* The workers of one evaluation change only ev.
LEMMA WorkersKeep ==
    ASSUME GateInv, NEW r \in Requests, gate[r].pc = "eval",
           UNCHANGED <<main, clone, scratch, gate, gateMu>>, slow' \in Nat, slow <= slow',
           ev' \in GateEvals, ev'.failing # {} => ev'.errs # <<>>,
           ev'.cancelled => ev'.errs # <<>> \/ gate[r].verdict # "none",
           Evaluated(r)'
    PROVE  GateInv'
<1>0. gate[r].pc \in Locked
    BY DEF Locked
<1>1. /\ GateType /\ Held(r) /\ Staged(r) /\ TrueAnswer(r) /\ gateMu = r /\ main \in Nat
    BY <1>0, HolderFacts
<1>2. GateType'
    BY <1>1 DEF GateType
<1>3. Held(r)' /\ Staged(r)'
    BY <1>1 DEF Held, Staged
<1>4. TrueAnswer(r)'
    BY <1>1, AnswerStays
<1>5. RequestInv(r)'
    BY <1>3, <1>4 DEF RequestInv
<1> QED BY <1>1, <1>2, <1>5, HolderKeeps

\* A batch handed to an idle worker is still owed; one that evaluates was not
\* broken.
LEMMA FeedKeeps ==
    ASSUME GateInv, NEW r \in Requests, NEW w \in 1..Workers, Feed(r, w) \/ BatchPasses(r, w)
    PROVE  GateInv'
<1>0. /\ gate[r].pc = "eval" /\ gate[r].pc \in Locked /\ ~ev.cancelled
      /\ UNCHANGED <<main, clone, scratch, gate, gateMu, slow>>
    BY DEF Feed, BatchPasses, Locked
<1>1. /\ GateType /\ Held(r) /\ Staged(r) /\ Evaluated(r) /\ gateMu = r /\ slow \in Nat
      /\ r # Nobody /\ (ev.failing # {} => ev.errs # <<>>)
    BY <1>0, HolderFacts
<1>2. ev \in GateEvals
    BY <1>1 DEF GateType
<1>f. /\ ev.todo \in Seq(Seq(Work)) /\ ev.busy \in [1..Workers -> Seq(Work)]
    BY <1>2 DEF GateEvals
<1>3. Broken = BrokenAt[<<r, scratch.base>>]
    BY <1>0, <1>1 DEF Broken, Staged
<1>4. CASE Feed(r, w)
  <2>1. /\ ev.todo # <<>> /\ ev.busy[w] = <<>>
        /\ ev' = [ev EXCEPT !.todo = Tail(ev.todo), !.busy = [ev.busy EXCEPT ![w] = Head(ev.todo)]]
    BY <1>4 DEF Feed
  <2>2. Head(ev.todo) \in Seq(Work) /\ Tail(ev.todo) \in Seq(Seq(Work))
    BY <1>f, <2>1
  <2>3. /\ ev' \in GateEvals /\ ev'.errs = ev.errs /\ ev'.failing = ev.failing
        /\ ev'.cancelled = ev.cancelled /\ ev'.todo = Tail(ev.todo)
        /\ ev'.busy = [ev.busy EXCEPT ![w] = Head(ev.todo)]
    BY <1>2, <1>f, <2>1, <2>2 DEF GateEvals
  <2>4. ASSUME NEW h, Owed(r, h) PROVE Owed(r, h)'
    <3>1. CASE h \notin BrokenAt[<<r, scratch.base>>]
      BY <1>0, <3>1 DEF Owed
    <3>2. ASSUME NEW b \in 1..Len(ev.todo), h \in Names(ev.todo[b]) PROVE Owed(r, h)'
      <4>1. CASE b = 1
        <5>1. Head(ev.todo) = ev.todo[1]
          BY <1>f, <2>1
        <5>2. ev'.busy[w] = Head(ev.todo)
          BY <1>f, <2>3
        <5> QED BY <3>2, <4>1, <5>1, <5>2 DEF Owed
      <4>2. CASE b # 1
        <5>0. ASSUME NEW T, NEW q \in Seq(T), q # <<>>, b \in 1..Len(q)
              PROVE  b - 1 \in 1..Len(Tail(q)) /\ Tail(q)[b - 1] = q[b]
          BY <4>2, <5>0
        <5>1. b - 1 \in 1..Len(ev'.todo) /\ ev'.todo[b - 1] = ev.todo[b]
          BY <1>f, <2>1, <2>3, <5>0
        <5> QED BY <3>2, <5>1 DEF Owed
      <4> QED BY <4>1, <4>2
    <3>3. ASSUME NEW v \in 1..Workers, h \in Names(ev.busy[v]) PROVE Owed(r, h)'
      <4>1. v # w
        BY <2>1, <3>3 DEF Names
      <4>2. h \in Names(ev'.busy[v])
        BY <1>f, <2>3, <3>3, <4>1
      <4> QED BY <4>2 DEF Owed
    <3> QED BY <2>4, <3>1, <3>2, <3>3 DEF Owed
  <2>5. Evaluated(r)'
    BY <1>0, <1>1, <2>3, <2>4 DEF Evaluated
  <2>6. slow' \in Nat /\ slow <= slow'
    BY <1>0, <1>1
  <2> QED BY <1>0, <1>1, <2>3, <2>5, <2>6, WorkersKeep
<1>5. CASE BatchPasses(r, w)
  <2>1. /\ Names(ev.busy[w]) \cap Broken = {}
        /\ ev' = [ev EXCEPT !.busy = [ev.busy EXCEPT ![w] = <<>>]]
    BY <1>5 DEF BatchPasses
  <2> DEFINE idle == [ev.busy EXCEPT ![w] = <<>>]
  <2>0. idle \in [1..Workers -> Seq(Work)]
    <3>1. <<>> \in Seq(Work)
      OBVIOUS
    <3> QED BY <1>f, <3>1
  <2> HIDE DEF idle
  <2>2. /\ ev' \in GateEvals /\ ev'.errs = ev.errs /\ ev'.failing = ev.failing
        /\ ev'.cancelled = ev.cancelled /\ ev'.todo = ev.todo
        /\ ev'.busy = [ev.busy EXCEPT ![w] = <<>>]
    <3>1. ev' = [ev EXCEPT !.busy = idle]
      BY <2>1 DEF idle
    <3>2. /\ ev' \in GateEvals /\ ev'.errs = ev.errs /\ ev'.failing = ev.failing
          /\ ev'.cancelled = ev.cancelled /\ ev'.todo = ev.todo /\ ev'.busy = idle
      BY <1>2, <2>0, <3>1 DEF GateEvals
    <3> QED BY <3>2 DEF idle
  <2>4. ASSUME NEW h, Owed(r, h) PROVE Owed(r, h)'
    <3>1. CASE h \notin BrokenAt[<<r, scratch.base>>]
      BY <1>0, <3>1 DEF Owed
    <3>2. CASE \E b \in 1..Len(ev.todo) : h \in Names(ev.todo[b])
      BY <2>2, <3>2 DEF Owed
    <3>3. ASSUME NEW v \in 1..Workers, h \in Names(ev.busy[v]) PROVE Owed(r, h)'
      <4>1. CASE v = w
        BY <1>0, <1>3, <2>1, <3>3, <4>1 DEF Owed
      <4>2. CASE v # w
        <5>1. h \in Names(ev'.busy[v])
          BY <1>f, <2>2, <3>3, <4>2
        <5> QED BY <5>1 DEF Owed
      <4> QED BY <4>1, <4>2
    <3> QED BY <2>4, <3>1, <3>2, <3>3 DEF Owed
  <2>5. Evaluated(r)'
    BY <1>0, <1>1, <2>2, <2>4 DEF Evaluated
  <2>6. slow' \in Nat /\ slow <= slow'
    BY <1>0, <1>1
  <2> QED BY <1>0, <1>1, <2>2, <2>5, <2>6, WorkersKeep
<1> QED BY <1>4, <1>5

\* A batch fails on a broken host, by its timeout, or because the context has
\* ended; only after an error was reported, or for a client that has gone, has it.
LEMMA FailKeeps ==
    ASSUME GateInv, NEW r \in Requests, NEW w \in 1..Workers, BatchFails(r, w) \/ WorkerStops(r, w)
    PROVE  GateInv'
<1>0. /\ gate[r].pc = "eval" /\ gate[r].pc \in Locked
      /\ UNCHANGED <<main, clone, scratch, gate, gateMu>>
    BY DEF BatchFails, WorkerStops, Locked
<1>1. /\ GateType /\ Held(r) /\ Staged(r) /\ Evaluated(r) /\ gateMu = r /\ slow \in Nat
      /\ r # Nobody /\ (ev.failing # {} => ev.errs # <<>>)
    BY <1>0, HolderFacts
<1>2. ev \in GateEvals
    BY <1>1 DEF GateType
<1>f. /\ ev.errs \in Seq({"broken", "timeout", "cancelled"}) /\ ev.failing \in SUBSET (1..Workers)
      /\ ev.busy \in [1..Workers -> Seq(Work)]
    BY <1>2 DEF GateEvals
<1>3. Broken = BrokenAt[<<r, scratch.base>>]
    BY <1>0, <1>1 DEF Broken, Staged
<1>4. CASE BatchFails(r, w)
  <2>1. PICK why \in BatchFailure(w) :
            /\ ev' = [ev EXCEPT !.errs = Append(ev.errs, why), !.failing = ev.failing \cup {w}]
            /\ slow' = IF why = "timeout" THEN slow + 1 ELSE slow
    BY <1>4 DEF BatchFails
  <2>2. \/ why = "cancelled" /\ ev.cancelled
        \/ why = "broken" /\ Broken # {}
        \/ why = "timeout"
    <3>1. CASE ev.cancelled
      BY <3>1 DEF BatchFailure
    <3>2. CASE ~ev.cancelled
      <4>1. why = "timeout" \/ why \in IF Names(ev.busy[w]) \cap Broken # {} THEN {"broken"} ELSE {}
        BY <3>2 DEF BatchFailure
      <4> QED BY <4>1
    <3> QED BY <3>1, <3>2
  <2> DEFINE es == Append(ev.errs, why)
  <2>3. /\ es \in Seq({"broken", "timeout", "cancelled"}) /\ es # <<>>
        /\ (ev.errs = <<>> => Head(es) = why) /\ (ev.errs # <<>> => Head(es) = Head(ev.errs))
    <3>0. ASSUME NEW T, NEW q \in Seq(T), NEW e \in T
          PROVE  /\ Append(q, e) \in Seq(T) /\ Append(q, e) # <<>>
                 /\ (q = <<>> => Head(Append(q, e)) = e)
                 /\ (q # <<>> => Head(Append(q, e)) = Head(q))
      BY <3>0
    <3> DEFINE Errs == {"broken", "timeout", "cancelled"}
    <3>1. why \in Errs /\ ev.errs \in Seq(Errs)
      BY <1>f, <2>2
    <3> HIDE DEF Errs
    <3>2. /\ es \in Seq(Errs) /\ es # <<>>
          /\ (ev.errs = <<>> => Head(es) = why) /\ (ev.errs # <<>> => Head(es) = Head(ev.errs))
      BY <3>0, <3>1
    <3> QED BY <3>2 DEF Errs
  <2> HIDE DEF es
  <2>4. ev' = [ev EXCEPT !.errs = es, !.failing = ev.failing \cup {w}]
    BY <2>1 DEF es
  <2>5. ev' \in GateEvals /\ ev'.errs = es /\ ev'.cancelled = ev.cancelled
    BY <1>2, <1>f, <2>3, <2>4 DEF GateEvals
  <2>6. slow' \in Nat /\ slow <= slow' /\ (why = "timeout" => slow' > 0) /\ (slow > 0 => slow' > 0)
    BY <1>1, <2>1
  <2>7. Evaluated(r)'
    <3>1. CASE ev.errs = <<>>
      <4>1. why = "cancelled" => gate[r].verdict # "none"
        BY <1>1, <2>2, <3>1 DEF Held
      <4> QED BY <1>0, <1>3, <2>2, <2>3, <2>5, <2>6, <3>1, <4>1 DEF Evaluated
    <3>2. CASE ev.errs # <<>>
      BY <1>0, <1>1, <2>3, <2>5, <2>6, <3>2 DEF Evaluated
    <3> QED BY <3>1, <3>2
  <2> QED BY <1>0, <2>3, <2>5, <2>6, <2>7, WorkersKeep
<1>5. CASE WorkerStops(r, w)
  <2> DEFINE idle == [ev.busy EXCEPT ![w] = <<>>]
  <2>0. idle \in [1..Workers -> Seq(Work)]
    <3>1. <<>> \in Seq(Work)
      OBVIOUS
    <3> QED BY <1>f, <3>1
  <2>1. ev' = [ev EXCEPT !.cancelled = TRUE, !.busy = idle] /\ w \in ev.failing /\ slow' = slow
    BY <1>5 DEF WorkerStops
  <2> HIDE DEF idle
  <2>2. ev' \in GateEvals /\ ev'.errs = ev.errs /\ ev'.failing = ev.failing /\ ev'.cancelled
    BY <1>2, <2>0, <2>1 DEF GateEvals
  <2>3. ev'.errs # <<>>
    BY <1>1, <2>1, <2>2
  <2>4. Evaluated(r)'
    BY <1>0, <1>1, <2>1, <2>2, <2>3 DEF Evaluated
  <2>5. slow' \in Nat /\ slow <= slow'
    BY <1>1, <2>1
  <2> QED BY <1>0, <2>2, <2>3, <2>4, <2>5, WorkersKeep
<1> QED BY <1>4, <1>5

\* When every worker is idle and nothing is left to feed, nothing is owed.
LEMMA CollectKeeps ==
    ASSUME GateInv, NEW r \in Requests, Collect(r)
    PROVE  GateInv'
<1>0. /\ gate[r].pc = "eval" /\ gate[r].pc \in Locked
      /\ UNCHANGED <<main, clone, scratch, slow>>
      /\ \A w \in 1..Workers : ev.busy[w] = <<>>
      /\ ev.todo = <<>> \/ ev.cancelled
    BY DEF Collect, Locked
<1>1. /\ GateType /\ Held(r) /\ Staged(r) /\ Evaluated(r) /\ gateMu = r /\ slow \in Nat
      /\ main \in Nat /\ gate[r] \in GateAsks
    BY <1>0, HolderFacts
<1>2. /\ ev \in GateEvals /\ scratch' \in [base : Nat, cand : Requests \cup {Nobody}]
      /\ slow' \in Nat /\ slow <= slow' /\ main' = main /\ clone' = clone
    BY <1>0, <1>1 DEF GateType
<1>f. ev.errs \in Seq({"broken", "timeout", "cancelled"}) /\ ev.cancelled \in BOOLEAN
    BY <1>2 DEF GateEvals
<1>3. /\ gate[r].base = scratch.base /\ gate[r].cand = r /\ gate[r].sent <= scratch.base
      /\ scratch.base <= main /\ scratch.base \in Nat /\ gate[r].sent \in Nat
    BY <1>0, <1>1 DEF Staged, GateType, GateAsks
<1>4. scratch.base \in gate[r].sent..main
    BY <1>1, <1>3
<1>5. CASE ev.errs # <<>>
  <2>1. Finish(r, "invalid", Head(ev.errs))
    BY <1>5 DEF Collect
  <2>2. Head(ev.errs) \in {"broken", "timeout", "cancelled"}
    BY <1>f, <1>5
  <2>3. gate[r].verdict = "none" => Earned(r, "invalid", Head(ev.errs))
    BY <1>0, <1>1, <1>4, <1>5 DEF Evaluated, Earned
  <2> DEFINE why == Head(ev.errs)
  <2> HIDE DEF why
  <2> QED BY <1>1, <1>2, <2>1, <2>2, <2>3, FinishKeeps DEF why
<1>6. CASE ev.errs = <<>> /\ ev.cancelled
  <2>1. Finish(r, "invalid", "cancelled")
    BY <1>6 DEF Collect
  <2>2. gate[r].verdict # "none"
    BY <1>1, <1>6 DEF Held
  <2> QED BY <1>1, <1>2, <2>1, <2>2, FinishKeeps
<1>7. CASE ev.errs = <<>> /\ ~ev.cancelled
  <2>1. Finish(r, "pass", "none") /\ ev.todo = <<>>
    BY <1>0, <1>7 DEF Collect
  <2>2. ASSUME NEW h \in Asked(r) PROVE h \notin BrokenAt[<<r, scratch.base>>]
    <3>1. Owed(r, h)
      BY <1>0, <1>1, <1>7 DEF Evaluated
    <3>2. Len(ev.todo) = 0 /\ ~\E b \in 1..0 : TRUE
      BY <2>1
    <3>3. \A w \in 1..Workers : h \notin Names(ev.busy[w])
      BY <1>0 DEF Names
    <3> QED BY <3>1, <3>2, <3>3 DEF Owed
  <2>3. Earned(r, "pass", "none")
    BY <1>3, <2>2 DEF Earned
  <2> QED BY <1>1, <1>2, <2>1, <2>3, FinishKeeps
<1> QED BY <1>f, <1>5, <1>6, <1>7

\* Every step of the runner, its clients and main.
LEMMA GateStep == GateInv /\ [GateNext]_gateVars => GateInv'
<1> SUFFICES ASSUME GateInv, [GateNext]_gateVars PROVE GateInv'
    OBVIOUS
<1>1. CASE UNCHANGED gateVars
  <2>1. GateType' /\ EvalAtRest'
    BY <1>1 DEF gateVars, GateInv, GateType, EvalAtRest, Resting
  <2>2. /\ UNCHANGED <<main, clone, scratch, gate, gateMu, ev, slow>>
        /\ main \in Nat /\ slow \in Nat
    BY <1>1 DEF gateVars, GateInv, GateType
  <2>3. ASSUME NEW s \in Requests PROVE RequestInv(s)'
    BY <2>2, Untouched
  <2> QED BY <2>1, <2>3 DEF GateInv
<1>2. CASE MainMoves
  <2>1. CASE Requests = {}
    <3>1. GateType'
      BY <1>2, <2>1 DEF MainMoves, GateInv, GateType
    <3>2. EvalAtRest'
      BY <1>2 DEF MainMoves, GateInv, EvalAtRest, Resting
    <3> QED BY <2>1, <3>1, <3>2 DEF GateInv
  <2>2. CASE Requests # {}
    BY <1>2, <2>2, OutsideKeeps
  <2> QED BY <2>1, <2>2
<1>3. ASSUME NEW r \in Requests, Send(r) \/ HandlerStep(r) \/ ClientGone(r)
      PROVE  GateInv'
  <2>1. CASE Send(r) \/ Admit(r)
    BY <2>1, OutsideKeeps
  <2>2. ASSUME NEW w \in 1..Workers, Feed(r, w) \/ BatchPasses(r, w) \/ BatchFails(r, w) \/ WorkerStops(r, w)
        PROVE  GateInv'
    BY <2>2, FeedKeeps, FailKeeps
  <2> QED BY <1>3, <2>1, <2>2, LockKeeps, GoneKeeps, SyncKeeps, StageKeeps, ValidateKeeps,
             JobsKeep, CollectKeeps DEF HandlerStep
<1> QED BY <1>1, <1>2, <1>3 DEF GateNext

\* For every set of requests, fleet, list of variants, chunk size, number of
\* workers and history of main: a pass of the gate-runner is about the candidate
\* that was sent, on a base no older than the question, with every asked host
\* evaluating there, and a rejection names a cause that exists (handleValidate,
\* evalBatches, evalWithJobs).
THEOREM AnswersAlwaysTrue == GateSpec => []AnswersAreTrue
<1>1. GateInv => AnswersAreTrue
    BY DEF GateInv, RequestInv, TrueAnswer, AnswersAreTrue
<1> QED BY GateStarts, GateStep, <1>1, PTL DEF GateSpec
=============================================================================
