----------------------------- MODULE CacheAuth -----------------------------
(***************************************************************************)
(* The binary cache's credential check (cmd/gate-runner/main.go            *)
(* cacheAuthorized, deviceCredentialValid; api/device_auth.go handle).  A  *)
(* device presents its credential with every fetch; the runner asks the    *)
(* console and remembers a positive answer for a while.  The console       *)
(* issues, rotates and revokes credentials meanwhile.                      *)
(***************************************************************************)
EXTENDS Integers, FiniteSets

CONSTANTS
    Secrets,        \* credentials, one per issue
    Fetches,        \* concurrent fetches
    VerifyTTL,      \* cacheVerifyTTL, in ticks
    AskTimeout,     \* the runner's http client timeout, in ticks
    VerifiedCap,    \* entries above which expired ones are dropped
    MaxTick         \* bound: the clock

ASSUME CacheAssumption ==
    /\ "none" \notin Secrets
    /\ VerifyTTL \in Nat \ {0} /\ AskTimeout \in Nat

VARIABLES
    live,       \* the credentials Authenticate accepts
    ended,      \* history: when a credential stopped being accepted, or -1
    verified,   \* server.verified: [credential -> until]
    asking,     \* per fetch: NoAsk, or the question it put to the console
    served,     \* history: the last fetch let through, <<credential, tick>>
    tick

cacheVars == <<live, ended, verified, asking, served, tick>>

NoAsk == [cred |-> "none", sent |-> -1, answer |-> "none"]

CacheInit ==
    /\ live = Secrets
    /\ ended = [c \in Secrets |-> -1]
    /\ verified = [c \in {} |-> 0]
    /\ asking = [q \in Fetches |-> NoAsk]
    /\ served = <<"none", -1>>
    /\ tick = 0

\* Issue replaces the device's previous secret, Revoke and the sweep delete it.
CredentialEnds(c) ==
    /\ c \in live
    /\ live' = live \ {c}
    /\ ended' = [ended EXCEPT ![c] = tick]
    /\ UNCHANGED <<verified, asking, served, tick>>

\* Seeded fault: a hit extends the entry it found.
FetchSliding(q, c) ==
    /\ asking[q] = NoAsk
    /\ IF c \in DOMAIN verified /\ tick < verified[c]
       THEN /\ served' = <<c, tick>>
            /\ verified' = [verified EXCEPT ![c] = tick + VerifyTTL]
            /\ UNCHANGED asking
       ELSE /\ asking' = [asking EXCEPT ![q] = [cred |-> c, sent |-> tick, answer |-> "open"]]
            /\ UNCHANGED <<served, verified>>
    /\ UNCHANGED <<live, ended, tick>>

Fetch(q, c) ==
    /\ asking[q] = NoAsk
    /\ IF c \in DOMAIN verified /\ tick < verified[c]
       THEN served' = <<c, tick>> /\ UNCHANGED asking
       ELSE /\ asking' = [asking EXCEPT ![q] = [cred |-> c, sent |-> tick, answer |-> "open"]]
            /\ UNCHANGED served
    /\ UNCHANGED <<live, ended, verified, tick>>

\* DeviceAuthAPI.handle: the console answers for the store as it is then.
handle(q) ==
    /\ asking[q] # NoAsk /\ asking[q].answer = "open"
    /\ asking' = [asking EXCEPT ![q].answer = IF asking[q].cred \in live THEN "yes" ELSE "no"]
    /\ UNCHANGED <<live, ended, verified, served, tick>>

\* Expired entries go once the map is over its cap.
Remember(c) ==
    LET all == [k \in DOMAIN verified \cup {c} |-> IF k = c THEN tick + VerifyTTL ELSE verified[k]]
    IN  IF Cardinality(DOMAIN all) > VerifiedCap
        THEN [k \in {k \in DOMAIN all : tick <= all[k]} |-> all[k]] ELSE all

Allowed(q) ==
    /\ asking[q].answer = "yes" /\ tick - asking[q].sent <= AskTimeout
    /\ verified' = Remember(asking[q].cred)
    /\ served' = <<asking[q].cred, tick>>
    /\ asking' = [asking EXCEPT ![q] = NoAsk]
    /\ UNCHANGED <<live, ended, tick>>

\* A refusal, an unreachable console or the client's timeout: fail closed,
\* and nothing is remembered.
Turned(q) ==
    /\ asking[q] # NoAsk
    /\ asking' = [asking EXCEPT ![q] = NoAsk]
    /\ UNCHANGED <<live, ended, verified, served, tick>>

Ticks ==
    /\ tick < MaxTick
    /\ tick' = tick + 1
    /\ UNCHANGED <<live, ended, verified, asking, served>>

CacheNext ==
    \/ \E c \in Secrets : CredentialEnds(c)
    \/ \E q \in Fetches : (\E c \in Secrets : Fetch(q, c)) \/ handle(q) \/ Allowed(q) \/ Turned(q)
    \/ Ticks

CacheSpec == CacheInit /\ [][CacheNext]_cacheVars

(***************************************************************************)
(* Properties.                                                             *)
(***************************************************************************)
\* Revoking a credential takes effect within minutes: no fetch is let through
\* on one that ended longer ago than the verdict's lifetime and one request's
\* timeout together, whatever the order of questions, answers and revocations
\* (cacheVerifyTTL, deviceCredentialValid).
CacheStaleness ==
    LET c == served[1] IN
    c \in Secrets /\ ended[c] # -1 => served[2] - ended[c] < VerifyTTL + AskTimeout
=============================================================================
