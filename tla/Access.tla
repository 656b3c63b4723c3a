------------------------------- MODULE Access -------------------------------
(***************************************************************************)
(* Who a request acts as: the login and its session cookie                 *)
(* (adapters/oidc), API tokens (domain/token, app/token.go and their       *)
(* handlers), and the directory cache that prunes a token's group snapshot *)
(* (app/directory_cache.go, adapters/ldap).  Roles are resolved from the   *)
(* document in force when the request is judged (FleetDoc).                *)
(*                                                                         *)
(* One person, whom the identity provider lets go of group by group, and a *)
(* directory that may be down.  A session and a personal token keep the    *)
(* groups they were made with; an API call that presents a token asks the  *)
(* directory which groups still exist, outside any lock.                   *)
(***************************************************************************)
EXTENDS FleetDoc

CONSTANTS
    IdPGroups,      \* the groups of the directory; the person is in all at first
    FirstDoc,       \* the document's access list at first
    AccessChoices,  \* bindings the access list may gain
    MintRequests,   \* tokens asked for: [id, kind, groups, cap, ttl]
    Calls,          \* concurrent API calls
    SessionTTL,     \* SessionTTL, in hours
    CacheTTL, DialTimeout,  \* of the directory cache and of one directory query, in hours
    MaxListed,      \* maxGroups: a directory answer is cut off there
    CookieGroups,   \* how many groups fit in a session cookie (maxCookieBytes)
    GraphAttempts,  \* graphAttempts
    MaxMoves,       \* bound: what the people, the world and the warmer start
    MaxHour         \* bound: the clock

VARIABLES
    adoc,       \* the committed document
    left,       \* history: when the person left a group, or -1
    deleted,    \* when the directory lost a group, or -1
    lastDown,   \* history: the last hour a query was refused
    flow,       \* the login-flow cookie's expiry, or -1
    sess,       \* the session cookie's content, or NoSession
    toks,       \* the token table
    dcache,     \* CachedDirectory.cache[""]
    warm,       \* the warmer's query: NoAnswer, or what it read
    calls,      \* per call: what the handler knows so far
    moves,      \* bound
    hour

dirVars    == <<left, deleted, lastDown>>
accessVars == <<adoc, dirVars, flow, sess, toks, dcache, warm, calls, moves, hour>>

NoSession == [groups |-> {}, exp |-> -1]
NoToken   == [kind |-> "none"]
NoAnswer  == [err |-> "none", groups |-> {}]
NoEntry   == [err |-> "none", groups |-> {}, at |-> -1]
FreshSession(groups, at) == [groups |-> groups, exp |-> at + SessionTTL]
NoCall    == [stage |-> "idle"]

TokenIds == {m.id : m \in MintRequests}
TokenTTL == CHOOSE n \in {m.ttl : m \in MintRequests} : \A m \in MintRequests : m.ttl <= n

\* Spans are hours; there is a longest lifetime among those asked for.
ASSUME AccessAssumption ==
    /\ SessionTTL \in Nat /\ CacheTTL \in Nat /\ DialTimeout \in Nat
    /\ TokenTTL \in Nat /\ \A m \in MintRequests : m.ttl \in Nat /\ m.ttl <= TokenTTL
    /\ \A m \in MintRequests : m.kind \in {"personal", "service"}

AccessInit ==
    /\ adoc = FirstDoc
    /\ left = [g \in IdPGroups |-> -1] /\ deleted = [g \in IdPGroups |-> -1]
    /\ lastDown = -1
    /\ flow = -1
    /\ \/ sess = NoSession /\ toks = [id \in TokenIds |-> NoToken]
       \/ \* somebody just logged in and minted a token
          /\ sess = FreshSession(IdPGroups, 0)
          /\ \E m \in MintRequests :
                /\ m.kind = "personal"
                /\ toks = [id \in TokenIds |-> IF id # m.id THEN NoToken ELSE
                            [kind |-> m.kind, of |-> "me", groups |-> IdPGroups, cap |-> m.cap, exp |-> m.ttl]]
    /\ dcache = NoEntry /\ warm = NoAnswer
    /\ calls = [q \in Calls |-> NoCall]
    /\ moves = 0 /\ hour = 0

Move == moves < MaxMoves /\ moves' = moves + 1

Memberships == {g \in IdPGroups : left[g] = -1}

(***************************************************************************)
(* The world: the directory and the access list change.                    *)
(***************************************************************************)
LeaveGroup(g) ==
    /\ Move
    /\ left[g] = -1
    /\ left' = [left EXCEPT ![g] = hour]
    /\ UNCHANGED <<adoc, deleted, lastDown, flow, sess, toks, dcache, warm, calls, hour>>

\* Deleting a group ends every membership of it.
DeleteGroup(g) ==
    /\ Move
    /\ deleted[g] = -1
    /\ deleted' = [deleted EXCEPT ![g] = hour]
    /\ left' = [left EXCEPT ![g] = IF @ = -1 THEN hour ELSE @]
    /\ UNCHANGED <<adoc, lastDown, flow, sess, toks, dcache, warm, calls, hour>>

\* The writes of FleetWrites that touch the access list.
AccessEdited ==
    /\ Move
    /\ adoc' \in UNION {Grant(adoc, b) \cup Revoke(adoc, b.who, b.scope) : b \in AccessChoices}
    /\ UNCHANGED <<dirVars, flow, sess, toks, dcache, warm, calls, hour>>

(***************************************************************************)
(* The login.                                                              *)
(***************************************************************************)
Login ==
    /\ Move
    /\ flow' = hour
    /\ UNCHANGED <<adoc, dirVars, sess, toks, dcache, warm, calls, hour>>

\* The configured claim and the two documented role claims, merged.
groupsFromClaims(claims) == claims.groups \cup claims.roles

\* A page of the membership list: the first answer that is not worth a retry
\* decides, and there are GraphAttempts.
getWithRetry(answers) ==
    \E i \in 1..GraphAttempts :
        answers[i] = "ok" /\ \A k \in 1..(i-1) : answers[k] = "busy"

\* A list of pages is as good as its worst one.
fetchGroupsFromGraph == \E answers \in [1..GraphAttempts -> {"ok", "busy", "refused"}] : getWithRetry(answers)

fits(groups) == Cardinality(groups) <= CookieGroups

\* Every outcome consumes a flow cookie that still holds; a login that fails
\* leaves an earlier session alone.
Callback ==
    /\ hour <= flow
    /\ flow' = -1
    /\ \/ UNCHANGED sess        \* the provider, the token, the claims or the groups were refused
       \/ \E claims \in [{"groups", "roles"} -> {{}, Memberships}], overage \in BOOLEAN :
            LET ask    == groupsFromClaims(claims) = {} /\ overage
                groups == IF ask THEN Memberships ELSE groupsFromClaims(claims)
            IN  /\ ask => fetchGroupsFromGraph
                /\ CanViewAnything(adoc, groups) /\ fits(groups)
                /\ sess' = FreshSession(groups, hour)
    /\ UNCHANGED <<adoc, dirVars, toks, dcache, warm, calls, moves, hour>>

\* The session form carries the session's own CSRF token.
Logout ==
    /\ Move
    /\ sess # NoSession
    /\ sess' = NoSession
    /\ UNCHANGED <<adoc, dirVars, flow, toks, dcache, warm, calls, hour>>

SessionUser == sess # NoSession /\ hour <= sess.exp

(***************************************************************************)
(* Principals and what is asked of them.  cap is the token's ceiling, None *)
(* when it has none; the break-glass token is an owner everywhere.         *)
(***************************************************************************)
Human == [of |-> "me", groups |-> sess.groups, bearer |-> FALSE, service |-> FALSE, cap |-> None]
Glass == [of |-> "svc:api", groups |-> {}, bearer |-> TRUE, service |-> TRUE, cap |-> None]

roleOf(p, ref) ==
    LET got == IF p.service THEN Owner ELSE RoleAt(adoc, p.groups, ref)
    IN  IF p.cap # None /\ p.cap < got THEN p.cap ELSE got

require(p, ref, role) == roleOf(p, ref) >= role

\* A page or a form of the console: a session with some role somewhere.
authed == SessionUser /\ CanViewAnything(adoc, sess.groups)

ownsAnywhere(p) == \E ref \in {Org} \cup {GroupRef(g) : g \in DOMAIN adoc.groups} : require(p, ref, Owner)

(***************************************************************************)
(* Tokens.                                                                 *)
(***************************************************************************)
Mint(m, tok) ==
    /\ Move
    /\ toks[m.id] = NoToken
    /\ toks' = [toks EXCEPT ![m.id] = [tok EXCEPT !.exp = hour + m.ttl]]
    /\ UNCHANGED <<adoc, dirVars, flow, sess, dcache, warm, hour>>

Personal(p, cap) == [kind |-> "personal", of |-> p.of, groups |-> p.groups, cap |-> cap, exp |-> 0]
ServiceToken(groups, cap) == [kind |-> "service", of |-> "svc", groups |-> groups, cap |-> cap, exp |-> 0]

\* A personal token acts as its creator, with the creator's groups.
postProfileTokenMint(m) ==
    /\ authed
    /\ m.kind = "personal" /\ Mint(m, Personal(Human, m.cap))
    /\ UNCHANGED calls

\* Only groups the access list knows are taken over.
postServiceAccountMint(m) ==
    /\ authed /\ require(Human, Org, Owner)
    /\ m.kind = "service" /\ Mint(m, ServiceToken(m.groups \cap {b.who : b \in adoc.access}, m.cap))
    /\ UNCHANGED calls

\* Seeded fault: a token may mint tokens.
postTokenChained(p, m) ==
    \/ m.kind = "personal" /\ Mint(m, Personal(p, m.cap))
    \/ m.kind = "service" /\ require(p, Org, Owner) /\ Mint(m, ServiceToken(m.groups, m.cap))

\* The API's mint: never for a caller that came in with a token itself.
postToken(p, m) ==
    /\ ~p.bearer \/ p.service
    /\ \/ m.kind = "personal" /\ Mint(m, Personal(p, m.cap))
       \/ m.kind = "service" /\ require(p, Org, Owner) /\ Mint(m, ServiceToken(m.groups, m.cap))

Drop(id) ==
    /\ Move
    /\ toks[id] # NoToken
    /\ toks' = [toks EXCEPT ![id] = NoToken]
    /\ UNCHANGED <<adoc, dirVars, flow, sess, dcache, warm, hour>>

postProfileTokenRevoke(id)   == authed /\ toks[id] # NoToken /\ toks[id].of = "me" /\ Drop(id) /\ UNCHANGED calls
postServiceAccountRevoke(id) == /\ authed /\ require(Human, Org, Owner)
                                /\ toks[id].kind = "service" /\ Drop(id) /\ UNCHANGED calls
deleteToken(p, id) ==
    /\ toks[id] # NoToken
    /\ toks[id].of = p.of \/ require(p, Org, Owner)
    /\ Drop(id)

(***************************************************************************)
(* The directory and its cache.                                            *)
(***************************************************************************)
\* What one query may read: the groups there are, cut off at the limit.
Listing ==
    LET there == {g \in IdPGroups : deleted[g] = -1} IN
    {s \in SUBSET there : Cardinality(s) = IF Cardinality(there) < MaxListed
                                           THEN Cardinality(there) ELSE MaxListed}

\* A query that ran out of time is the caller's error; a directory that is down
\* refuses it.
Answers ==
    {[err |-> e, groups |-> {}] : e \in {"timeout", "refused"}}
    \cup {[err |-> "ok", groups |-> s] : s \in Listing}

FreshEntry == dcache # NoEntry /\ hour - dcache.at < CacheTTL

Refusal(a) == lastDown' = IF a.err = "refused" THEN hour ELSE lastDown

\* Seeded fault: a caller's timeout is kept for everyone.
KeptAlways(a, at) == [err |-> a.err, groups |-> a.groups, at |-> at]

Kept(a, at) == IF a.err = "timeout" THEN dcache
               ELSE [err |-> a.err, groups |-> a.groups, at |-> at]

\* refresh, for WarmLoop: the entry is stamped when it is stored.
WarmRead ==
    /\ Move
    /\ warm = NoAnswer
    /\ \E a \in Answers : warm' = [err |-> a.err, groups |-> a.groups, sent |-> hour] /\ Refusal(a)
    /\ UNCHANGED <<adoc, left, deleted, flow, sess, toks, dcache, calls, hour>>

WarmStore ==
    /\ warm # NoAnswer
    /\ warm' = NoAnswer
    /\ dcache' = Kept(warm, hour)
    /\ UNCHANGED <<adoc, dirVars, flow, sess, toks, calls, moves, hour>>

\* What becomes of a call once it has the list, or the error: the rest of
\* Authenticate, which lets the snapshot stand without a list, or the answer to
\* the access picker's directory browser.
Listed(q, ask, a) ==
    calls' = [calls EXCEPT ![q] =
        IF ask.kind = "browse" THEN NoCall
        ELSE [stage |-> "in", kind |-> ask.kind,
              who |-> [of |-> ask.of, bearer |-> TRUE, service |-> FALSE, cap |-> ask.cap,
                       groups |-> IF a.err = "ok" THEN ask.groups \cap a.groups ELSE ask.groups]]]

\* A fresh entry answers at once, otherwise the query goes out, to be stamped
\* with its start.
ListGroups(q, ask) ==
    IF FreshEntry THEN Listed(q, ask, dcache)
    ELSE calls' = [calls EXCEPT ![q] = [stage |-> "dialling", for |-> ask, start |-> hour]]

DialAnswer(q) ==
    /\ calls[q].stage = "dialling"
    /\ \E a \in Answers :
        /\ Refusal(a)
        /\ calls' = [calls EXCEPT ![q] = [stage |-> "answered", for |-> @.for, start |-> @.start, a |-> a]]
    /\ UNCHANGED <<adoc, left, deleted, flow, sess, toks, dcache, warm, moves, hour>>

DialReturn(q) ==
    /\ calls[q].stage = "answered"
    /\ dcache' = Kept(calls[q].a, calls[q].start)
    /\ Listed(q, calls[q].for, calls[q].a)
    /\ UNCHANGED <<adoc, dirVars, flow, sess, toks, warm, moves, hour>>

(***************************************************************************)
(* API calls.                                                              *)
(***************************************************************************)
\* The secret names a row of the operator kinds that has not expired.
Verified(id) == toks[id] # NoToken /\ hour < toks[id].exp

\* Who a token acts as, with its ceiling.
TokenUser(id) ==
    [kind |-> toks[id].kind, of |-> toks[id].of, groups |-> toks[id].groups, cap |-> toks[id].cap]

\* The row is read, the secret verified and the expiry checked before the
\* directory is asked.
Authenticate(q, id) ==
    /\ Move
    /\ calls[q] = NoCall
    /\ Verified(id)
    /\ IF toks[id].groups = {} THEN Listed(q, TokenUser(id), NoAnswer)
                               ELSE ListGroups(q, TokenUser(id))
    /\ UNCHANGED <<adoc, dirVars, flow, sess, toks, dcache, warm, hour>>

\* The directory browser of the access picker.
getDirectoryGroups(q) ==
    /\ Move
    /\ calls[q] = NoCall
    /\ SessionUser /\ CanViewAnything(adoc, sess.groups) /\ ownsAnywhere(Human)
    /\ ListGroups(q, [kind |-> "browse"])
    /\ UNCHANGED <<adoc, dirVars, flow, sess, toks, dcache, warm, hour>>

\* authenticate's order: the break-glass token, a token, a session.
authenticate(q) ==
    {Glass} \cup (IF calls[q].stage = "in" THEN {calls[q].who} ELSE {})
            \cup (IF SessionUser THEN {Human} ELSE {})

\* A handler that writes, for whoever the request came from.
Handle(q, m) ==
    \E p \in authenticate(q) :
        /\ calls' = [calls EXCEPT ![q] = IF p.bearer /\ ~p.service THEN NoCall ELSE @]
        /\ postToken(p, m) \/ deleteToken(p, m.id)

\* Any other handler leaves all of this alone.
HandleOther(q) ==
    /\ calls[q].stage = "in"
    /\ calls' = [calls EXCEPT ![q] = NoCall]
    /\ UNCHANGED <<adoc, dirVars, flow, sess, toks, dcache, warm, moves, hour>>

(***************************************************************************)
(* Time.  No directory query outlives its deadline; a browser drops a      *)
(* cookie and the cache stops reading an entry when they expire, so both   *)
(* are forgotten then.                                                     *)
(***************************************************************************)
HourPasses ==
    /\ hour < MaxHour
    /\ \A q \in Calls : calls[q].stage \in {"dialling", "answered"} =>
                            hour < calls[q].start + DialTimeout
    /\ warm # NoAnswer => hour < warm.sent + DialTimeout
    /\ hour' = hour + 1
    /\ flow' = -1
    /\ sess' = IF hour' > sess.exp THEN NoSession ELSE sess
    /\ dcache' = IF hour' - dcache.at >= CacheTTL THEN NoEntry ELSE dcache
    /\ lastDown' = IF hour' - lastDown > CacheTTL + DialTimeout THEN -1 ELSE lastDown
    /\ UNCHANGED <<adoc, left, deleted, toks, warm, calls, moves>>

AccessNext ==
    \/ \E g \in IdPGroups : LeaveGroup(g) \/ DeleteGroup(g)
    \/ AccessEdited \/ Login \/ Callback \/ Logout
    \/ \E m \in MintRequests :
        \/ postProfileTokenMint(m) \/ postServiceAccountMint(m)
        \/ \E q \in Calls : Handle(q, m)
    \/ \E id \in TokenIds : \/ postProfileTokenRevoke(id) \/ postServiceAccountRevoke(id)
                            \/ \E q \in Calls : Authenticate(q, id)
    \/ WarmRead \/ WarmStore
    \/ \E q \in Calls : DialAnswer(q) \/ DialReturn(q) \/ getDirectoryGroups(q) \/ HandleOther(q)
    \/ HourPasses

AccessSpec == AccessInit /\ [][AccessNext]_accessVars

(***************************************************************************)
(* Properties.                                                             *)
(***************************************************************************)
\* Authenticate lets call q in, in this step.
LetIn(q) == calls[q].stage # "in" /\ calls'[q].stage = "in"

\* Rights the identity provider took away die: a personal token that
\* authenticates names no group its owner left longer ago than a session and a
\* token last together, with one directory query on top.  A token is minted
\* from a session's snapshot, never from another token's (postToken).
RightsExpire ==
    [][\A q \in Calls : LetIn(q) /\ calls'[q].kind = "personal" =>
        \A g \in calls'[q].who.groups :
            left[g] = -1 \/ hour - left[g] < SessionTTL + TokenTTL + DialTimeout]_accessVars

\* A deleted group's rights die with the cache entry that still lists it, unless
\* the directory refused a query within the same span or this call's own query
\* ran out of time (Authenticate, CachedDirectory.ListGroups and refresh).
DeletedGroupsDie ==
    [][\A q \in Calls : LetIn(q) =>
        \A g \in calls'[q].who.groups :
            \/ deleted[g] = -1
            \/ hour - deleted[g] <= CacheTTL + DialTimeout
            \/ lastDown # -1
            \/ calls[q].stage = "answered" /\ calls[q].a.err = "timeout"]_accessVars
=============================================================================
