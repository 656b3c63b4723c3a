---------------------------- MODULE Credentials ----------------------------
(***************************************************************************)
(* Device credentials and check-in rows against the fleet document they    *)
(* belong to (app/device_cred.go, app/inventory.go, app/retention.go and   *)
(* the lifecycle handlers).  A handler commits the document first and then *)
(* issues or revokes the credential, a second step that may fail; sweeps   *)
(* read the document's tags first and delete afterwards.                   *)
(***************************************************************************)
EXTENDS Integers, FiniteSets

CONSTANTS
    Tags,
    InFleet,        \* the tags enrolled at the start
    DeviceWindow,   \* RetentionPolicy.DeviceStatus, in days
    MaxDay,         \* bound: the clock
    MaxCommits,     \* bound: document writes
    MaxInFlight     \* bound: handlers between their two steps

ASSUME CredentialAssumption == DeviceWindow \in Nat

VARIABLES
    enrolled,   \* the document: [Tags -> "absent" | "active" | "retired"]
    held,       \* the tags that hold a token "device-<tag>"
    tails,      \* second steps of handlers: <<"issue" or "revoke", tag>>
    reports,    \* device_status: -1, or the day last seen
    credSweep,  \* ReconcileWithFleet: its phase, known tags and what is left
    statusSweep,\* Sweep: its phase, known tags and the cutoff
    steady,     \* history: per sweep, tags in the document at every moment since its read
    day,
    commits     \* bound

credentialVars ==
    <<enrolled, held, tails, reports, credSweep, statusSweep, steady, day, commits>>

deviceTags == {t \in Tags : enrolled[t] # "absent"}

NoReconcile == [phase |-> "idle", known |-> {}, left |-> {}]
NoSweep     == [phase |-> "idle", known |-> {}, cutoff |-> 0]

CredentialInit ==
    /\ enrolled = [t \in Tags |-> IF t \in InFleet THEN "active" ELSE "absent"]
    /\ held = {}
    /\ tails = {} /\ reports = [t \in Tags |-> -1]
    /\ credSweep = NoReconcile /\ statusSweep = NoSweep
    /\ steady = [creds |-> {}, status |-> {}]
    /\ day = 0 /\ commits = 0

(***************************************************************************)
(* The document's writes and the steps that follow them.                   *)
(***************************************************************************)
Commit(t, from, to, tail) ==
    /\ commits < MaxCommits /\ Cardinality(tails) < MaxInFlight
    /\ commits' = commits + 1
    /\ enrolled[t] \in from
    /\ enrolled' = [enrolled EXCEPT ![t] = to]
    /\ tails' = tails \cup tail
    /\ steady' = IF to = "absent" THEN [k \in DOMAIN steady |-> steady[k] \ {t}] ELSE steady
    /\ UNCHANGED <<held, reports, credSweep, statusSweep, day>>

postDeviceEnroll(t)      == Commit(t, {"absent"}, "active", {<<"issue", t>>})
deviceRetire(t)          == Commit(t, {"active"}, "retired", {<<"revoke", t>>})
deviceReactivate(t)      == Commit(t, {"retired"}, "active", {<<"issue", t>>})
deviceRemove(t)          == Commit(t, {"active", "retired"}, "absent", {<<"revoke", t>>})
\* A change request, a commit in the overlay, a restore, an abandoned
\* enrolment reaped: no handler follows up.
LeavesOtherwise(t)       == Commit(t, {"active", "retired"}, "absent", {})

\* Reads the snapshot, refuses a retired device, then issues.
postDeviceCredential(t)  ==
    /\ enrolled[t] = "active" /\ Cardinality(tails) < MaxInFlight
    /\ tails' = tails \cup {<<"issue", t>>}
    /\ UNCHANGED <<enrolled, held, reports, credSweep, statusSweep, steady, day, commits>>

Issue(t) ==
    /\ <<"issue", t>> \in tails
    /\ held' = held \cup {t}
    /\ tails' = tails \ {<<"issue", t>>}
    /\ UNCHANGED <<enrolled, reports, credSweep, statusSweep, steady, day, commits>>

RevokeCredential(t) ==
    /\ <<"revoke", t>> \in tails
    /\ held' = held \ {t}
    /\ tails' = tails \ {<<"revoke", t>>}
    /\ UNCHANGED <<enrolled, reports, credSweep, statusSweep, steady, day, commits>>

\* The store refuses, or the console stops between the two steps.
TailFails(tail) ==
    /\ tail \in tails
    /\ tails' = tails \ {tail}
    /\ UNCHANGED <<enrolled, held, reports, credSweep, statusSweep, steady, day, commits>>

(***************************************************************************)
(* Check-ins.  The device's own secret speaks for its tag; the shared      *)
(* bridge token only for a tag that holds none.  Any tag is recorded.      *)
(***************************************************************************)
\* A secret proves the subject it was issued for, and no other tag.
authenticateBound(t, secret) == secret = t /\ t \in held

\* An expired credential counts: it neither speaks for its tag nor lets the
\* bridge do so.
HasCredential(t) == t \in held

\* The bridge is refused as well where the store cannot say.
authorized(t, secret) ==
    \/ authenticateBound(t, secret)
    \/ secret = "bridge" /\ ~HasCredential(t)

\* A retired device's report is refused.  Admission and the row are one step:
\* some secret speaks for a tag at every moment, so a row written later than its
\* admission adds no state but that of a device retired in between.
CheckIn(t) ==
    /\ \E secret \in Tags \cup {"bridge"} : authorized(t, secret)
    /\ enrolled[t] # "retired"
    /\ reports' = [reports EXCEPT ![t] = day]
    /\ UNCHANGED <<enrolled, held, tails, credSweep, statusSweep, steady, day, commits>>

(***************************************************************************)
(* The startup sweep of credentials.                                       *)
(***************************************************************************)
\* Seeded fault: a retired device does not count as known.
ReconcileReadActive ==
    /\ credSweep.phase = "idle"
    /\ credSweep' = [phase |-> "list", known |-> {t \in Tags : enrolled[t] = "active"}, left |-> {}]
    /\ steady' = [steady EXCEPT !.creds = deviceTags]
    /\ UNCHANGED <<enrolled, held, tails, reports, statusSweep, day, commits>>

ReconcileRead ==
    /\ credSweep.phase = "idle"
    /\ credSweep' = [phase |-> "list", known |-> deviceTags, left |-> {}]
    /\ steady' = [steady EXCEPT !.creds = deviceTags]
    /\ UNCHANGED <<enrolled, held, tails, reports, statusSweep, day, commits>>

\* Refuses an empty fleet; a failed listing ends the sweep as well.
ReconcileList ==
    /\ credSweep.phase = "list"
    /\ \/ credSweep.known = {} /\ credSweep' = [credSweep EXCEPT !.phase = "done"]
       \/ /\ credSweep.known # {}
          /\ credSweep' = [credSweep EXCEPT !.phase = "delete",
                !.left = held \ credSweep.known]
    /\ UNCHANGED <<enrolled, held, tails, reports, statusSweep, steady, day, commits>>

\* By id, so it takes whatever secret the id holds by now; one that fails is
\* skipped.
ReconcileDelete(t) ==
    /\ credSweep.phase = "delete" /\ t \in credSweep.left
    /\ credSweep' = [credSweep EXCEPT !.left = @ \ {t}]
    /\ held' \in {held, held \ {t}}
    /\ UNCHANGED <<enrolled, tails, reports, statusSweep, steady, day, commits>>

\* The sweep is over, or the console restarts in the middle of one.
RestartSweep ==
    /\ credSweep.phase # "idle"
    /\ credSweep' = NoReconcile
    /\ steady' = [steady EXCEPT !.creds = {}]
    /\ UNCHANGED <<enrolled, held, tails, reports, statusSweep, day, commits>>

(***************************************************************************)
(* The retention sweep of check-in rows.                                   *)
(***************************************************************************)
SweepRead ==
    /\ statusSweep.phase = "idle"
    /\ statusSweep' = [phase |-> "delete", known |-> deviceTags, cutoff |-> day - DeviceWindow]
    /\ steady' = [steady EXCEPT !.status = deviceTags]
    /\ UNCHANGED <<enrolled, held, tails, reports, credSweep, day, commits>>

\* Against an empty document nothing is deleted.
NotKnown(t) == statusSweep.known # {} /\ t \notin statusSweep.known

DeleteDeviceStatusBefore ==
    /\ statusSweep.phase = "delete"
    /\ reports' = [t \in Tags |->
            IF NotKnown(t) /\ reports[t] < statusSweep.cutoff THEN -1 ELSE reports[t]]
    /\ statusSweep' = NoSweep
    /\ steady' = [steady EXCEPT !.status = {}]
    /\ UNCHANGED <<enrolled, held, tails, credSweep, day, commits>>

DayPasses ==
    /\ day < MaxDay
    /\ day' = day + 1
    /\ UNCHANGED <<enrolled, held, tails, reports, credSweep, statusSweep, steady, commits>>

CredentialNext ==
    \/ \E t \in Tags :
        \/ postDeviceEnroll(t) \/ deviceRetire(t) \/ deviceReactivate(t) \/ deviceRemove(t)
        \/ LeavesOtherwise(t) \/ postDeviceCredential(t)
        \/ Issue(t) \/ RevokeCredential(t)
        \/ CheckIn(t) \/ ReconcileDelete(t)
    \/ \E tail \in tails : TailFails(tail)
    \/ ReconcileRead \/ ReconcileList \/ RestartSweep
    \/ SweepRead \/ DeleteDeviceStatusBefore \/ DayPasses

CredentialSpec == CredentialInit /\ [][CredentialNext]_credentialVars

(***************************************************************************)
(* Properties.                                                             *)
(***************************************************************************)
\* A sweep takes nothing from a device that was in the document all along: a
\* credential or a check-in row it deletes belongs to a tag that was out of
\* the document at some moment since the sweep read its tags, and the row was
\* silent for the whole window, whatever enrolments, retirements and
\* check-ins land between the read and the deletes (ReconcileWithFleet,
\* Sweep, DeleteDeviceStatusBefore).
SweepSparesFleet ==
    [][ /\ credSweep' # credSweep =>
            steady.creds \cap held \subseteq held'
        /\ \A t \in Tags : reports[t] # -1 /\ reports'[t] = -1 =>
            t \notin steady.status /\ day - reports[t] > DeviceWindow
      ]_credentialVars
=============================================================================
