----------------------------- MODULE Elevation -----------------------------
(***************************************************************************)
(* Asking for a privileged action on a device (domain/elevation,           *)
(* app/elevation.go, postgres/elevation.go, http/api/elevation.go).  A     *)
(* device raises a request and polls it; operators decide it from the      *)
(* console, each by a Get, a domain decision and an unconditional Put.     *)
(***************************************************************************)
EXTENDS Integers, FiniteSets

CONSTANTS
    ElevationIds, Operators,
    TTL,            \* the window of a request, in ticks
    KeepFor,        \* RetentionPolicy.Elevation
    MaxNow          \* bound: the clock

ASSUME ElevationAssumption == "none" \notin ElevationIds /\ TTL \in Nat /\ KeepFor \in Nat

VARIABLES
    erow,       \* elevation_requests: NoRow, or the row
    now,        \* the console's clock
    deciding,   \* per operator: Waiting, or the decided row on its way to Put
    retired,    \* the document: the requests' device is retired
    answered,   \* history: per request, what polls have answered
    overlapped  \* history: requests two operators held undecided at once

elevationVars == <<erow, now, deciding, retired, answered, overlapped>>

NoRow   == [created |-> -1, state |-> "none", decided |-> -1, by |-> "none"]
Waiting == [id |-> "none", row |-> NoRow]

ElevationInit ==
    /\ erow = [id \in ElevationIds |-> NoRow]
    /\ now = 0
    /\ deciding = [op \in Operators |-> Waiting]
    /\ retired = FALSE
    /\ answered = [id \in ElevationIds |-> {}]
    /\ overlapped = {}

(***************************************************************************)
(* The domain.                                                             *)
(***************************************************************************)
ResolveRequest(r) ==
    IF r.state = "pending" /\ now - r.created >= TTL THEN "expired" ELSE r.state

\* Seeded fault: only the decision is held against the window, not the present.
GrantsOnDecision(r) ==
    r.state = "approved" /\ r.decided # -1 /\ r.decided - r.created < TTL

Grants(r) ==
    /\ r.state = "approved" /\ r.decided # -1
    /\ r.decided - r.created < TTL
    /\ now - r.created < TTL

Verdict(r, approve, by) ==
    [r EXCEPT !.state = IF approve THEN "approved" ELSE "denied", !.decided = now, !.by = by]

(***************************************************************************)
(* The service.                                                            *)
(***************************************************************************)
Raise(id) ==
    /\ erow[id] = NoRow /\ answered[id] = {}
    /\ erow' = [erow EXCEPT ![id] = [created |-> now, state |-> "pending", decided |-> -1, by |-> "none"]]

\* The stored row as it reads now.
Poll(id) == [erow[id] EXCEPT !.state = ResolveRequest(erow[id])]

\* A retired device is turned away before its request is looked at.
deviceFromRequest == ~retired

handleElevationRaise(id) ==
    /\ deviceFromRequest
    /\ Raise(id)
    /\ UNCHANGED <<now, deciding, retired, answered, overlapped>>

\* The device acts on the grant alone, whatever the state beside it says.
elevationAnswer(r) == IF Grants(r) THEN "granted" ELSE r.state

handleElevationPoll(id) ==
    /\ deviceFromRequest
    /\ erow[id] # NoRow
    /\ answered' = [answered EXCEPT ![id] = @ \cup {elevationAnswer(Poll(id))}]
    /\ UNCHANGED <<erow, now, deciding, retired, overlapped>>

\* Its requests stay and can still be decided while the device is away.
Lifecycle ==
    /\ retired' = ~retired
    /\ UNCHANGED <<erow, now, deciding, answered, overlapped>>

DecideRead(op, id, approve) ==
    /\ deciding[op] = Waiting
    /\ erow[id] # NoRow
    /\ ResolveRequest(erow[id]) = "pending"
    /\ deciding' = [deciding EXCEPT ![op] = [id |-> id, row |-> Verdict(erow[id], approve, op)]]
    /\ overlapped' = IF \E other \in Operators \ {op} : deciding[other].id = id
                     THEN overlapped \cup {id} ELSE overlapped
    /\ UNCHANGED <<erow, now, retired, answered>>

\* INSERT ... ON CONFLICT DO UPDATE: whatever the row holds by now.
DecidePut(op) ==
    /\ deciding[op] # Waiting
    /\ erow' = [erow EXCEPT ![deciding[op].id] = deciding[op].row]
    /\ deciding' = [deciding EXCEPT ![op] = Waiting]
    /\ UNCHANGED <<now, retired, answered, overlapped>>

\* The Put fails, or the operator's request ends before it.
DecideLost(op) ==
    /\ deciding[op] # Waiting
    /\ deciding' = [deciding EXCEPT ![op] = Waiting]
    /\ UNCHANGED <<erow, now, retired, answered, overlapped>>

DeleteElevationBefore ==
    /\ \E id \in ElevationIds : erow[id] # NoRow /\ erow[id].created < now - KeepFor
    /\ erow' = [id \in ElevationIds |->
            IF erow[id] # NoRow /\ erow[id].created < now - KeepFor THEN NoRow ELSE erow[id]]
    /\ UNCHANGED <<now, deciding, retired, answered, overlapped>>

TimePasses ==
    /\ now < MaxNow
    /\ now' = now + 1
    /\ UNCHANGED <<erow, deciding, retired, answered, overlapped>>

ElevationNext ==
    \/ \E id \in ElevationIds : handleElevationRaise(id) \/ handleElevationPoll(id)
    \/ \E op \in Operators, id \in ElevationIds, approve \in BOOLEAN : DecideRead(op, id, approve)
    \/ \E op \in Operators : DecidePut(op) \/ DecideLost(op)
    \/ DeleteElevationBefore \/ TimePasses \/ Lifecycle

ElevationSpec == ElevationInit /\ [][ElevationNext]_elevationVars

(***************************************************************************)
(* Properties.                                                             *)
(***************************************************************************)
\* What a device was told stands.  A poll that answered "expired" is never
\* followed by one that grants, however late a decision's write lands (Grants
\* reads the clock again), and a device hears both a grant and a denial of
\* one request only when two operators held it undecided at the same time:
\* Decide's read and its Put are two steps (app/elevation.go Decide).
VerdictStands ==
    [][ \A id \in ElevationIds :
        /\ "granted" \in answered'[id] \ answered[id] => "expired" \notin answered[id]
        /\ {"granted", "denied"} \subseteq answered'[id] => id \in overlapped'
      ]_elevationVars
=============================================================================
