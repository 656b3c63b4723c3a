---------------------------- MODULE PersonalData ----------------------------
(***************************************************************************)
(* One person's data in the console: what writes it, the retention sweep   *)
(* that ages it out (app/retention.go), and the erasure on request, which  *)
(* reports what went and what stays (app/erasure.go and the stores of      *)
(* adapters/postgres).  A person has two identifiers, the console's        *)
(* subject and the login name on a device, here two different strings; an  *)
(* operator gives one or both.                                             *)
(*                                                                         *)
(* Neither the erasure nor the sweep is a transaction: every statement and *)
(* every clearing commit is a step, may fail, and others write in between. *)
(***************************************************************************)
EXTENDS Integers, Sequences, FiniteSets

CONSTANTS
    Assignable,         \* the devices a user may be assigned to
    MaxErasureMoves,    \* bound on erasures, sweeps and writes of others
    MaxErasureFaults    \* bound on failing statements and commits

VARIABLES
    rows,       \* [Tables -> SUBSET Ages]: the person's rows
    assigned,   \* [Assignable -> the name in AssignedUser, "" for none]
    erasure,    \* the erasure under way: [pc, ids, read, todo, removed, cleared, left]
    sweepAt,    \* the sweep's next statement, 0 when it rests
    previewed,  \* the last preview, [before, ids, counted, cleared], while nobody
                \* wrote and no erasure ended since
    report,     \* the last erasure that was reported: [ids, removed, cleared, held, remaining]
    since,      \* history: tables and devices written since that erasure passed them
    erasureMoves, erasureFaults

personVars == <<rows, assigned, erasure, sweepAt, previewed, report, since, erasureMoves, erasureFaults>>

Ages   == {"old", "new"}        \* past the retention window, or not

\* What ErasePersonalData deletes from, and what else names a person: requests they
\* decided, their API tokens, secrets they read, the forge identity they rotated.
Searched == {"reads", "notifications", "prefs", "seen", "elevation"}
PassedOver == {"decided", "tokens", "secrets", "forge"}
Tables == Searched \cup PassedOver

\* History keeps tables and devices in one set, so no device bears a table's name.
ASSUME PersonAssumption == Assignable \cap Tables = {}

\* What a row names the person by (elevationDecide passes the subject, postSecretReveal
\* the e-mail address, the forge page the display name) ...
IdOf(t) == CASE t = "elevation" -> "username"
             [] t = "secrets"   -> "email"
             [] t = "forge"     -> "name"
             [] OTHER           -> "subject"

\* ... and what the statements look it up by.
AskedBy(t) == IF t \in {"elevation", "decided"} THEN "username" ELSE "subject"

NoErasure == [pc |-> "idle"]
NoReport  == [pc |-> "none"]

PersonInit ==
    /\ rows = [t \in Tables |-> {"old", "new"}]
    /\ assigned = [d \in Assignable |-> ""]
    /\ erasure = NoErasure /\ sweepAt = 0
    /\ previewed = NoReport /\ report = NoReport
    /\ since = {}
    /\ erasureMoves = 0 /\ erasureFaults = 0

PersonMove == erasureMoves < MaxErasureMoves /\ erasureMoves' = erasureMoves + 1
StepFails  == erasureFaults < MaxErasureFaults /\ erasureFaults' = erasureFaults + 1

(***************************************************************************)
(* What writes the person's data.                                          *)
(***************************************************************************)
Written(t) ==
    /\ PersonMove
    /\ rows' = [rows EXCEPT ![t] = @ \cup {"new"}]
    /\ since' = since \cup {t}
    /\ previewed' = NoReport
    /\ UNCHANGED <<assigned, erasure, sweepAt, report, erasureFaults>>

RecordUser     == Written("seen")           \* any page of a session
PutPrefs       == Written("prefs")
Add            == Written("notifications")
MarkRead       == Written("reads")          \* no check that the notification is there
PutRequest     == Written("elevation")
PutDecision    == Written("decided")
PutToken       == Written("tokens")
MarkRevealed   == Written("secrets")
PutForgeIdentity == Written("forge")

AssignUser(d, who) ==
    /\ PersonMove
    /\ assigned' = [assigned EXCEPT ![d] = who]
    /\ since' = since \cup {d}
    /\ previewed' = NoReport
    /\ UNCHANGED <<rows, erasure, sweepAt, report, erasureFaults>>

(***************************************************************************)
(* The retention sweep: what is older than its window, kind by kind.  A    *)
(* kind that fails does not hold back the next; the read markers belong to *)
(* the notifications and fail with them.                                   *)
(***************************************************************************)
SweepStatements == <<"reads", "notifications", "elevation", "seen">>

SweepStarts ==
    /\ PersonMove
    /\ sweepAt = 0 /\ sweepAt' = 1
    /\ UNCHANGED <<rows, assigned, erasure, previewed, report, since, erasureFaults>>

\* A request the person decided is a row of the same table.
SweepTables(i) == IF SweepStatements[i] = "elevation" THEN {"elevation", "decided"} ELSE {SweepStatements[i]}

\* A marker goes with its notification: one whose notification is gone already
\* is not found (the others point at a notification to a group).
Orphaned(i) == SweepStatements[i] = "reads" /\ "old" \notin rows["notifications"]

Sweep ==
    /\ sweepAt # 0
    /\ \/ /\ \/ rows' = [t \in Tables |-> IF t \in SweepTables(sweepAt) THEN rows[t] \ {"old"} ELSE rows[t]]
             \/ Orphaned(sweepAt) /\ UNCHANGED rows
          /\ sweepAt' = (sweepAt + 1) % (Len(SweepStatements) + 1)
          /\ UNCHANGED erasureFaults
       \/ /\ StepFails
          /\ sweepAt' = IF sweepAt = 1 THEN 3 ELSE (sweepAt + 1) % (Len(SweepStatements) + 1)
          /\ UNCHANGED rows
    /\ previewed' = NoReport
    /\ UNCHANGED <<assigned, erasure, report, since, erasureMoves>>

(***************************************************************************)
(* The erasure.                                                            *)
(***************************************************************************)
Held == {t \in Tables : rows[t] # {}}

\* CountPersonalData: markers are not counted.  Decisions are looked up by the login
\* name while the row holds the subject, so none is found.
CountPersonalData(ids) ==
    {t \in Held \cap ((Searched \ {"reads"}) \cup {"decided"}) : AskedBy(t) \in ids /\ AskedBy(t) = IdOf(t)}

\* Seeded fault: the fleet document is searched for the login name alone.
NamedByLogin(u, ids) == u = "username" /\ u \in ids

\* AssignedUser is matched with either identifier that was given.
NamedBy(u, ids) == u \in ids

Preview(ids) ==
    /\ PersonMove
    /\ previewed' = [pc |-> "counted", before |-> erasure = NoErasure, ids |-> ids,
                     counted |-> CountPersonalData(ids),
                     cleared |-> {d \in Assignable : NamedBy(assigned[d], ids)}]
    /\ UNCHANGED <<rows, assigned, erasure, sweepAt, report, since, erasureFaults>>

\* ErasePersonalData's statements, in their order; what others were asked to
\* decide stays.
EraseOrder == <<"reads", "notifications", "prefs", "seen", "elevation">>

Erase(ids) ==
    /\ PersonMove
    /\ erasure = NoErasure /\ ids # {}
    /\ erasure' = [pc |-> "rows", ids |-> ids, removed |-> {}, cleared |-> {}, left |-> {},
                   read |-> previewed, todo |-> {i \in DOMAIN EraseOrder : AskedBy(EraseOrder[i]) \in ids}]
    /\ report' = NoReport
    /\ UNCHANGED <<rows, assigned, sweepAt, previewed, since, erasureFaults>>

\* The operator is shown the error, and nothing of what went before it: a second
\* erasure reports what it removes itself.
EraseFails ==
    /\ erasure.pc \in {"rows", "clear"}
    /\ erasure.todo # {} \/ erasure.left # {}
    /\ StepFails
    /\ erasure' = NoErasure /\ previewed' = NoReport
    /\ UNCHANGED <<rows, assigned, sweepAt, report, since, erasureMoves>>

ErasePersonalData ==
    /\ erasure.pc = "rows"
    /\ \E i \in erasure.todo :
        LET t == EraseOrder[i] IN
        /\ \A j \in erasure.todo : i <= j
        /\ rows' = [rows EXCEPT ![t] = {}]
        /\ erasure' = [erasure EXCEPT !.todo = @ \ {i},
                                      !.removed = @ \cup ({t} \cap (Held \ {"reads"}))]
        /\ since' = since \ {t}
    /\ UNCHANGED <<assigned, sweepAt, previewed, report, erasureMoves, erasureFaults>>

\* The snapshot of the document decides which devices are cleared ...
FindAssigned ==
    /\ erasure.pc = "rows" /\ erasure.todo = {}
    /\ LET mine == {d \in Assignable : NamedBy(assigned[d], erasure.ids)} IN
        erasure' = [erasure EXCEPT !.pc = "clear", !.cleared = mine, !.left = mine]
    /\ since' = since \ Assignable
    /\ UNCHANGED <<rows, assigned, sweepAt, previewed, report, erasureMoves, erasureFaults>>

\* ... one commit each, whoever the device names by then.
ClearAssigned(d) ==
    /\ erasure.pc = "clear" /\ d \in erasure.left
    /\ assigned' = [assigned EXCEPT ![d] = ""]
    /\ erasure' = [erasure EXCEPT !.left = @ \ {d}]
    /\ UNCHANGED <<rows, sweepAt, previewed, report, since, erasureMoves, erasureFaults>>

\* What stays, in words: the history and the bundles always, what no identifier
\* was given for, and decisions if the removal counted any, which it never does.
remaining(ids, removed) ==
    {"history", "bundles"}
    \cup (IF "decided" \in removed THEN {"decided"} ELSE {})
    \cup {t \in Searched : AskedBy(t) \notin ids}

EraseReports ==
    /\ erasure.pc = "clear" /\ erasure.left = {}
    /\ report' = [pc |-> "done", ids |-> erasure.ids,
                  removed |-> erasure.removed, cleared |-> erasure.cleared,
                  held |-> IF erasure.read = previewed THEN previewed ELSE NoReport,
                  remaining |-> remaining(erasure.ids, erasure.removed)]
    /\ erasure' = NoErasure /\ previewed' = NoReport
    /\ UNCHANGED <<rows, assigned, sweepAt, since, erasureMoves, erasureFaults>>

PersonNext ==
    \/ RecordUser \/ PutPrefs \/ Add \/ MarkRead \/ PutRequest \/ PutDecision
    \/ PutToken \/ MarkRevealed \/ PutForgeIdentity
    \/ \E d \in Assignable, who \in {"subject", "username", "other"} : AssignUser(d, who)
    \/ SweepStarts \/ Sweep
    \/ \E ids \in SUBSET {"subject", "username"} \ {{}} : Preview(ids) \/ Erase(ids)
    \/ EraseFails \/ ErasePersonalData \/ FindAssigned \/ EraseReports
    \/ \E d \in Assignable : ClearAssigned(d)

PersonSpec == PersonInit /\ [][PersonNext]_personVars

(***************************************************************************)
(* Properties.                                                             *)
(***************************************************************************)
\* A reported erasure is honest about the five tables it searches and the fleet
\* document, however the sweep, the person and other operators interfere and
\* whatever failed before: one that still names the person was written after the
\* erasure had passed it, or the report says that it stays; and what the preview
\* counted is what was removed, when nobody else wrote from the preview to the
\* report.  It is not honest about what it passes over, and those tables are exempt:
\* API tokens, revealed secrets and the forge identity are neither erased nor
\* reported, and of the requests the person decided, which the report means to
\* mention, it finds none (postgres/erasure.go ErasePersonalData, app/erasure.go
\* remaining).
ErasureIsHonest ==
    report.pc = "done" =>
        /\ Held \ PassedOver \subseteq since \cup report.remaining
        /\ \A d \in Assignable : assigned[d] \in report.ids => d \in since
        /\ report.held.pc = "counted" /\ report.held.before /\ report.held.ids = report.ids =>
            /\ report.held.counted \subseteq report.removed
            /\ report.held.cleared \subseteq report.cleared
=============================================================================
