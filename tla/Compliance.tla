----------------------------- MODULE Compliance -----------------------------
(***************************************************************************)
(* What the console says of a device: check-ins and the notifications they *)
(* raise (app/inventory.go, adapters/postgres Upsert, app/notify.go), and  *)
(* the incidents and the verdict of the compliance pages                   *)
(* (app/compliance.go, app/baseline.go, domain/incident,                   *)
(* app/coreversion.go).                                                    *)
(*                                                                         *)
(* A page is assembled from reads at different moments: the stored status, *)
(* the clone's tip, the document, and lookups of revisions that are        *)
(* cached. The clone trails main, may be unreadable for a while, and a     *)
(* device may run what it does not hold yet, or what no history holds.     *)
(***************************************************************************)
EXTENDS FleetDoc

CONSTANTS
    Main,           \* Seq(revision): the commits of main, oldest first
    FirstHeld,      \* how many of them there are at first
    Stray,          \* a revision outside that history
    CoreOf,         \* [revision -> the core its flake.lock pins, "" for none]
    CorePinned,     \* [core -> the day of its pin]
    BoardDoc,       \* the document at first
    Laptop,         \* the device of it that is watched
    Beats,          \* its concurrent check-ins
    Reports,        \* what a beat carries: [rev, err, ack, sb, usage]
    Conditions,     \* [policy -> set of [metric, op, value]]
    StalePolicies,  \* policies stamped by an older version of their profile
    OnlineWindow, InactiveWindow, CoreGrace, StallWindow,   \* in days
    MaxBoardMoves, MaxBoardDay      \* bounds

ASSUME BeatsAssumption == IsFiniteSet(Beats)

\* Main has commits, and a commit has a name.
ASSUME MainAssumption == Len(Main) \in Nat /\ DOMAIN Main = 1..Len(Main) /\ FirstHeld \in DOMAIN Main
ASSUME NameAssumption == \A i \in DOMAIN Main : Main[i] # ""

\* A device is online for minutes before it is inactive for days (observed.go).
ASSUME WindowAssumption ==
    OnlineWindow \in Nat /\ InactiveWindow \in Nat /\ OnlineWindow <= InactiveWindow

VARIABLES
    bdoc,           \* the document in force
    published,      \* how much of Main the forge has
    fetched,        \* how much of it this clone has
    unreadable,     \* git commands on the clone fail
    status,         \* the device's row, or NoStatus
    beat,           \* [Beats -> the check-in's handler]
    wipesTold,           \* wipe notifications raised
    turns,          \* history: changes of the stored outcome into a wipe outcome
    overlaps,       \* history: statements that ran across such a change
    relCache, coreAtCache,  \* revisions counted; [revision -> core, "" for a miss]
    wave,           \* the day the run's wave was promoted, or -1
    board,          \* a page being assembled, or shown
    boardMoves, boardDay

boardVars == <<bdoc, published, fetched, unreadable, status, beat, wipesTold, turns, overlaps,
               relCache, coreAtCache, wave, board, boardMoves, boardDay>>
repoVars  == <<published, fetched, unreadable>>
mailVars  == <<wipesTold, turns, overlaps>>

NoUsage  == [cpu |-> 0, memUsed |-> 0, memTotal |-> 0, diskUsed |-> 0, diskTotal |-> 0]
NoStatus == [rev |-> "", err |-> "", ack |-> "", sb |-> "", usage |-> NoUsage, seen |-> -1]
NoBeat   == [pc |-> "idle"]
NoPage   == [pc |-> "none"]

ComplianceInit ==
    /\ bdoc = BoardDoc
    /\ published = FirstHeld /\ fetched = FirstHeld /\ unreadable = FALSE
    /\ status = NoStatus
    /\ beat = [b \in Beats |-> NoBeat]
    /\ wipesTold = 0 /\ turns = 0 /\ overlaps = 0
    /\ relCache = {} /\ coreAtCache = <<>>
    /\ wave = -1
    /\ board = NoPage
    /\ boardMoves = 0 /\ boardDay = 0

BoardMove == boardMoves < MaxBoardMoves /\ boardMoves' = boardMoves + 1

\* A page that was shown is no longer looked at after the next step.
PageStays == board' = IF board.pc = "shown" THEN NoPage ELSE board

Committed(n) == {Main[i] : i \in 1..n}

(***************************************************************************)
(* Check-ins.                                                              *)
(***************************************************************************)
isWipeAck(ack) == ack \in {"wipe", "wipe-refused", "wipe-failed"}

Acks == {"", "lock", "wipe", "wipe-refused", "wipe-failed", "rebooted", "sb-enrolled", "sb-enroll-failed",
         "tpm2-enrolled", "tpm2-enroll-failed", "diagnostics", "diagnostics-failed"}

validateUsage(u) ==
    /\ u.cpu \in 0..100
    /\ u.memTotal > 0 => u.memUsed <= u.memTotal
    /\ u.diskTotal > 0 => u.diskUsed <= u.diskTotal

Valid(c) == c.ack \in Acks /\ validateUsage(c.usage)

\* A light beat never erases richer state, figure by figure; an error is only what
\* this one said.
Merged(c) ==
    [rev |-> IF c.rev = "" THEN status.rev ELSE c.rev, err |-> c.err,
     ack |-> IF c.ack = "" THEN status.ack ELSE c.ack,
     sb  |-> IF c.sb = "" THEN status.sb ELSE c.sb,
     usage |-> LET kept(total, figure) == IF c.usage[total] = 0 THEN status.usage[figure] ELSE c.usage[figure]
               IN  [cpu |-> kept("cpu", "cpu"),
                    memUsed |-> kept("memTotal", "memUsed"), memTotal |-> kept("memTotal", "memTotal"),
                    diskUsed |-> kept("diskTotal", "diskUsed"), diskTotal |-> kept("diskTotal", "diskTotal")],
     seen |-> boardDay]

\* Validated, not of a retired device: the statement's snapshot is taken.
CheckInStarts(b, c) ==
    /\ BoardMove
    /\ beat[b] = NoBeat
    /\ Valid(c)
    /\ bdoc.devices[Laptop].state # "retired"
    /\ c.rev \in Committed(published) \cup {"", Stray}
    /\ beat' = [beat EXCEPT ![b] = [pc |-> "upsert", c |-> c, prev |-> status.ack]]
    /\ PageStays
    /\ UNCHANGED <<bdoc, repoVars, status, mailVars, relCache, coreAtCache, wave, boardDay>>

\* Seeded fault: the device repeats its outcome on every beat, and each is news.
NewsAlways(c, prev) == isWipeAck(c.ack)

\* ackChanged compares with the snapshot, taken before any lock on the row.
News(c, prev) == isWipeAck(c.ack) /\ prev # Merged(c).ack

Upsert(b) ==
    /\ beat[b].pc = "upsert"
    /\ LET c == beat[b].c IN
        /\ status' = Merged(c)
        /\ turns' = IF isWipeAck(c.ack) /\ status.ack # c.ack THEN turns + 1 ELSE turns
        /\ overlaps' = IF beat[b].prev # status.ack THEN overlaps + 1 ELSE overlaps
        /\ beat' = [beat EXCEPT ![b] = [pc |-> "stored", news |-> News(c, @.prev)]]
    /\ PageStays
    /\ UNCHANGED <<bdoc, repoVars, wipesTold, relCache, coreAtCache, wave, boardMoves, boardDay>>

\* Stored, or refused by the store; nobody tries again.
Emit == wipesTold' \in {wipesTold, wipesTold + 1}

\* A provisional device becomes active, unless the commit fails; a change into
\* a wipe outcome is told.
Recorded(b) ==
    /\ beat[b].pc = "stored"
    /\ bdoc' \in {bdoc} \cup (IF unreadable THEN {} ELSE ActivateProvisional(bdoc, Laptop))
    /\ IF beat[b].news THEN Emit ELSE UNCHANGED wipesTold
    /\ beat' = [beat EXCEPT ![b] = NoBeat]
    /\ PageStays
    /\ UNCHANGED <<repoVars, status, turns, overlaps, relCache, coreAtCache, wave, boardMoves, boardDay>>

(***************************************************************************)
(* The repository and the fleet.  A commit of another replica, or by hand, *)
(* reaches this clone with the next sync; a promotion here pins what the   *)
(* clone has.  Main lists the commits that tell a page apart, so an edit   *)
(* of the document here is not one of them.                                *)
(***************************************************************************)
MainGrows ==
    /\ BoardMove
    /\ published < Len(Main) /\ published' = published + 1
    /\ PageStays
    /\ UNCHANGED <<bdoc, fetched, unreadable, status, beat, mailVars, relCache, coreAtCache, wave, boardDay>>

Synced ==
    /\ ~unreadable /\ fetched < published
    /\ fetched' = published
    /\ PageStays
    /\ UNCHANGED <<bdoc, published, unreadable, status, beat, mailVars, relCache, coreAtCache, wave, boardMoves, boardDay>>

CloneFails ==
    /\ BoardMove
    /\ unreadable' = ~unreadable
    /\ board' = IF board.pc \in {"none", "shown"} THEN NoPage ELSE [board EXCEPT !.broke = TRUE]
    /\ UNCHANGED <<bdoc, published, fetched, status, beat, mailVars, relCache, coreAtCache, wave, boardDay>>

Promoted(g) ==
    /\ BoardMove
    /\ ~unreadable
    /\ bdoc' \in SetGroupPin(bdoc, g, Main[fetched])
    /\ wave' = boardDay
    /\ PageStays
    /\ UNCHANGED <<repoVars, status, beat, mailVars, relCache, coreAtCache, boardDay>>

WaveConverged ==
    /\ wave # -1
    /\ wave' = -1
    /\ PageStays
    /\ UNCHANGED <<bdoc, repoVars, status, beat, mailVars, relCache, coreAtCache, boardMoves, boardDay>>

Retired ==
    /\ BoardMove
    /\ ~unreadable
    /\ bdoc' \in RetireDevice(bdoc, Laptop)
    /\ PageStays
    /\ UNCHANGED <<repoVars, status, beat, mailVars, relCache, coreAtCache, wave, boardDay>>

(***************************************************************************)
(* Lookups.                                                                *)
(***************************************************************************)
Readable(rev) == ~unreadable /\ rev \in Committed(fetched)

\* The count of commits up to a revision, 0 for unknown; only answers are kept.
ReleaseNumber(rev) ==
    IF rev \in relCache \/ Readable(rev) THEN CHOOSE i \in DOMAIN Main : Main[i] = rev ELSE 0

\* The core a revision pins, "" for unknown; a miss is kept as well.
CoreVersionAt(rev) ==
    CASE rev \in DOMAIN coreAtCache -> coreAtCache[rev]
      [] Readable(rev) -> CoreOf[rev]
      [] OTHER -> ""

Counted(rev) == relCache' = relCache \cup ({rev} \cap (IF unreadable THEN {} ELSE Committed(fetched)))

TargetRevision(f, t) ==
    LET pinOf(g) == LET chain == GroupAncestry(f, g)
                        pinned == {i \in DOMAIN chain : f.groups[chain[i]].pin # ""}
                    IN  IF pinned = {} THEN ""
                        ELSE f.groups[chain[CHOOSE i \in pinned : \A k \in pinned : k <= i]].pin
        gs == SelectSeq(f.devices[t].groups, LAMBDA g : pinOf(g) # "")
    IN  IF gs = <<>> THEN "" ELSE pinOf(gs[1])

(***************************************************************************)
(* Conditions of policies: only a definite failure counts.                 *)
(***************************************************************************)
\* A figure that was not reported is absent, never zero.
Metrics(u) ==
    LET free(used, total) == ((total - used) * 100) \div total
        value(m) == CASE m = "cpu.used_percent"    -> u.cpu
                      [] m = "memory.total_mb"     -> u.memTotal
                      [] m = "memory.free_percent" -> free(u.memUsed, u.memTotal)
                      [] m = "disk.total_gb"       -> u.diskTotal
                      [] m = "disk.free_gb"        -> u.diskTotal - u.diskUsed
                      [] m = "disk.free_percent"   -> free(u.diskUsed, u.diskTotal)
        reported == (IF u.cpu > 0 THEN {"cpu.used_percent"} ELSE {})
            \cup (IF u.memTotal > 0 THEN {"memory.total_mb", "memory.free_percent"} ELSE {})
            \cup (IF u.diskTotal > 0 THEN {"disk.total_gb", "disk.free_gb", "disk.free_percent"} ELSE {})
    IN  [m \in reported |-> value(m)]

AssignmentDevices(f, a) ==
    {t \in Active(f) : /\ a.target \in ToSet(scopePositions(f, t))
                       /\ a.filter # "" => /\ a.filter \in DOMAIN f.filters
                                           /\ matchesFilter(f, f.filters[a.filter], t)}

ConditionsFor(f, t) ==
    UNION {Conditions[a.policy] : a \in
        {x \in ToSet(f.assignments) : /\ x.policy \in DOMAIN f.policies \cap DOMAIN Conditions
                                      /\ t \in AssignmentDevices(f, x)}}

\* A metric that was never reported, or an unknown operator, is no failure.
Fails(c, metrics) ==
    /\ c.metric \in DOMAIN metrics
    /\ LET v == metrics[c.metric] IN
       CASE c.op = ">=" -> v < c.value
         [] c.op = "<=" -> v > c.value
         [] c.op = ">"  -> v <= c.value
         [] c.op = "<"  -> v >= c.value
         [] c.op = "==" -> v # c.value
         [] OTHER -> FALSE

failedConditions(f, t, metrics) == {c \in ConditionsFor(f, t) : Fails(c, metrics)}

(***************************************************************************)
(* Incidents, as pairs of kind and severity, of an observation o.          *)
(***************************************************************************)
\* Seeded fault: the clone's own tip is not asked for.
unknownConfigTipless(o) ==
    /\ o.online /\ o.rev # "" /\ o.release = 0
    /\ o.target # "" /\ o.targetRelease > 0
    /\ o.rev # o.target

unknownConfig(o) ==
    /\ o.online /\ o.rev # "" /\ o.release = 0
    /\ o.target # "" /\ o.targetRelease > 0
    /\ o.head # "" /\ o.headRelease > 0
    /\ o.rev # o.target /\ o.rev # o.head

onTarget(o) == /\ o.rev # ""
               /\ o.rev = IF o.target # "" THEN o.target ELSE o.head

\* Ahead of its pin on this fleet's own line is only information.
Ahead(o) == o.release > o.targetRelease /\ o.targetRelease > 0 /\ o.headRelease >= o.release

When(p, kind, severity) == IF p THEN {<<kind, severity>>} ELSE {}

Detect(o, now) ==
    When(o.seen = -1, "never-seen", "warning")
    \cup When(o.seen # -1 /\ ~o.online /\ now - o.seen > InactiveWindow, "offline", "warning")
    \cup When(unknownConfig(o), "unknown-config", "warning")
    \cup When(~unknownConfig(o) /\ o.online /\ o.target # "" /\ o.rev \notin {"", o.target},
              "behind", IF Ahead(o) THEN "info" ELSE "warning")
    \cup When(o.core # "" /\ o.targetCore # "" /\ o.core # o.targetCore, "core-outdated",
              IF o.targetCore \in DOMAIN CorePinned /\ now - CorePinned[o.targetCore] > CoreGrace
              THEN "critical" ELSE "warning")
    \cup When(o.failed # {}, "policy-condition", "warning")
    \cup When(o.err # "" /\ onTarget(o), "errored-stale", "warning")
    \cup When(o.err # "" /\ ~onTarget(o), "errored", "critical")
    \cup When(o.ack = "wipe-failed", "wipe-failed", "critical")
    \cup When(o.ack = "wipe-refused", "wipe-refused", "warning")

StalledFor(now) == IF wave = -1 THEN 0 ELSE now - wave

\* Holding a wave is the engine's job; past the window the wait is an incident.
DetectRollout(stalled) == When(stalled >= StallWindow, "rollout-stalled", "warning")

\* The run's store may be unreachable, and then nothing is said of it.
runIncidents(now) ==
    {{}} \cup (IF StalledFor(now) # 0 THEN {DetectRollout(StalledFor(now))} ELSE {})

\* A row of the page: anything short of critical, information too, is a warning.
rowStatus(incidents) ==
    CASE \E i \in incidents : i[2] = "critical" -> "critical"
      [] incidents = {} -> "ok"
      [] OTHER -> "warning"

(***************************************************************************)
(* The page, read by read.                                                 *)
(***************************************************************************)
Online(row, now) == row.seen # -1 /\ now - row.seen <= OnlineWindow

\* StatusAll.  held and broke record whether the clone had the reported
\* revision from the start, and whether it failed or recovered meanwhile.  The
\* page takes its list of devices from a document it read just before, which the
\* model does not keep: the rows judged here are of devices in both documents.
StatusRead ==
    /\ board.pc \in {"none", "shown"}
    /\ board' = [pc |-> "head", row |-> status, held |-> status.rev \in Committed(fetched), broke |-> FALSE,
                 online |-> Online(status, boardDay)]
    /\ UNCHANGED <<bdoc, repoVars, status, beat, mailVars, relCache, coreAtCache, wave, boardMoves, boardDay>>

\* The statuses cannot be listed: the page has a row for every device and calls
\* it fine.
StatusFails ==
    /\ BoardMove
    /\ board.pc \in {"none", "shown"}
    /\ board' = [pc |-> "shown", blind |-> TRUE, status |-> "ok"]
    /\ UNCHANGED <<bdoc, repoVars, status, beat, mailVars, relCache, coreAtCache, wave, boardDay>>

\* Head and its release number: two calls, and the number of a commit does not
\* change, so only a clone that fails between them could tell them apart.
HeadRead ==
    /\ board.pc = "head"
    /\ LET head == IF unreadable THEN "" ELSE Main[fetched] IN
        /\ board' = [pc |-> "fleet", row |-> board.row, held |-> board.held, broke |-> board.broke,
                     online |-> board.online, head |-> head, headRelease |-> ReleaseNumber(head)]
        /\ relCache' = relCache \cup ({head} \ {""})
    /\ UNCHANGED <<bdoc, repoVars, status, beat, mailVars, coreAtCache, wave, boardMoves, boardDay>>

FleetRead ==
    /\ board.pc = "fleet"
    /\ LET row == board.row IN
       board' = [pc |-> "target", doc |-> bdoc, held |-> board.held, broke |-> board.broke,
                 o |-> [rev |-> row.rev, err |-> row.err, ack |-> row.ack, seen |-> row.seen, sb |-> row.sb,
                        failed |-> failedConditions(bdoc, Laptop, Metrics(row.usage)),
                        online |-> board.online, head |-> board.head, headRelease |-> board.headRelease,
                        target |-> TargetRevision(bdoc, Laptop),
                        release |-> ReleaseNumber(row.rev)]]
    /\ Counted(board.row.rev)
    /\ UNCHANGED <<bdoc, repoVars, status, beat, mailVars, coreAtCache, wave, boardMoves, boardDay>>

\* A retired device is left out.
Incidents ==
    /\ board.pc = "target"
    /\ LET target == board.o.target
           rest == [targetRelease |-> ReleaseNumber(target),
                    core |-> CoreVersionAt(board.o.rev), targetCore |-> CoreVersionAt(target)]
           o == [f \in DOMAIN board.o \cup DOMAIN rest |->
                    IF f \in DOMAIN rest THEN rest[f] ELSE board.o[f]]
           mine == IF board.doc.devices[Laptop].state = "retired" THEN {} ELSE Detect(o, boardDay)
       IN  /\ \E run \in runIncidents(boardDay) :
                board' = [pc |-> "shown", doc |-> board.doc, held |-> board.held, broke |-> board.broke,
                          blind |-> FALSE, o |-> o, incidents |-> mine \cup run, status |-> rowStatus(mine)]
           /\ Counted(target)
           /\ coreAtCache' = [rev \in DOMAIN coreAtCache \cup ({o.rev, target} \ {""}) |-> CoreVersionAt(rev)]
    /\ UNCHANGED <<bdoc, repoVars, status, beat, mailVars, wave, boardMoves, boardDay>>

\* A page is assembled within one day.
BoardDayPasses ==
    /\ boardDay < MaxBoardDay /\ board.pc \in {"none", "shown"}
    /\ \A b \in Beats : beat[b] = NoBeat
    /\ boardDay' = boardDay + 1
    /\ board' = NoPage
    /\ UNCHANGED <<bdoc, repoVars, status, beat, mailVars, relCache, coreAtCache, wave, boardMoves>>

ComplianceNext ==
    \/ \E b \in Beats : Upsert(b) \/ Recorded(b) \/ \E c \in Reports : CheckInStarts(b, c)
    \/ MainGrows \/ Synced \/ CloneFails \/ WaveConverged \/ Retired
    \/ \E g \in DOMAIN bdoc.groups : Promoted(g)
    \/ StatusRead \/ StatusFails \/ HeadRead \/ FleetRead \/ Incidents
    \/ BoardDayPasses

ComplianceSpec == ComplianceInit /\ [][ComplianceNext]_boardVars

(***************************************************************************)
(* The baseline verdict of the device list, from one document and one row. *)
(***************************************************************************)
Drifted(f, t) == \E a \in ToSet(f.assignments) :
    a.policy \in StalePolicies \cap DOMAIN f.policies /\ t \in AssignmentDevices(f, a)

BaselineVerdict(f, t, o, now) ==
    LET has == o.seen # -1
        wantsSB == Resolve(f, t).value = "on"
    IN  IF f.devices[t].state # "active" THEN {}
        ELSE (IF ~has \/ now - o.seen > InactiveWindow THEN {"no recent check-in"} ELSE {})
             \cup (IF Drifted(f, t) THEN {"profile drift"} ELSE {})
             \cup (IF wantsSB /\ (~has \/ o.sb # "enforcing") THEN {"security posture"} ELSE {})
             \cup (IF has /\ o.target # "" /\ o.rev # o.target THEN {"behind ring revision"} ELSE {})

(***************************************************************************)
(* Properties.                                                             *)
(***************************************************************************)
\* A wipe outcome is told of at most once, unless two check-ins' statements ran
\* across each other: the comparison is with the statement's snapshot, which a
\* wait for the row's lock makes old (postgres.go Upsert, inventory.go CheckIn).
WipeToldOnce == wipesTold <= turns + overlaps

Kinds == {i[1] : i \in board.incidents}

\* The page never cries wolf and has no blind spot, whatever moved while it was
\* assembled.  A revision this clone held all along is never "unrecognised", unless
\* the clone failed or recovered meanwhile.  The page agrees with the verdict of the
\* device list: off its ring's revision and online is exactly one row, missing is
\* one row, on its target means no row about revisions or cores, and a device shown
\* as fine is neither missing nor, while online, off its ring.  (A page that could
\* not list the statuses is blind, and is not judged: compliance.go compliancePage.
\* Nor is the row of a device retired between the page's own reading of the document
\* and this one: it is listed, and has no incident.)
BoardIsTrue ==
    board.pc = "shown" /\ ~board.blind =>
        LET failures == BaselineVerdict(board.doc, Laptop, board.o, boardDay)
            off == "behind ring revision" \in failures /\ board.o.online /\ board.o.rev # ""
            missing == "no recent check-in" \in failures
        IN  /\ "unknown-config" \in Kinds => ~board.held \/ board.broke
            /\ board.doc.devices[Laptop].state = "active" =>
                /\ off <=> Cardinality(Kinds \cap {"behind", "unknown-config"}) = 1
                /\ missing <=> Kinds \cap {"never-seen", "offline"} # {}
                /\ board.o.seen # -1 /\ "behind ring revision" \notin failures =>
                        Kinds \cap {"behind", "unknown-config", "core-outdated"} = {}
                /\ board.status = "ok" => ~off /\ ~missing
=============================================================================
