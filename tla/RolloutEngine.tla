--------------------------- MODULE RolloutEngine ---------------------------
(***************************************************************************)
(* The pure decision engine for staged rollouts                            *)
(* (src/internal/domain/rollout/rollout.go).  A plan is a sequence of      *)
(* waves ("rings"); a run walks it one ring at a time.  This module holds  *)
(* the ring gates and the decision; all state lives in Rollout.tla.        *)
(*                                                                         *)
(* Rings are numbered from 1 here and from 0 in the source.                *)
(***************************************************************************)
EXTENDS Integers, Sequences

CONSTANT NoGroup    \* the empty string in Ring.Group

Never == -1         \* a key that is missing from a map of times

\* Percentages are integer percentages, as in the source.
Percent(n, of) == (n * 100) \div of

(***************************************************************************)
(* Ring gates.                                                             *)
(***************************************************************************)
GroupList(r) ==
    IF r.groups # <<>> THEN r.groups
    ELSE IF r.group # NoGroup THEN <<r.group>> ELSE <<>>

GroupsOf(r) == {GroupList(r)[i] : i \in 1..Len(GroupList(r))}

minHealthy(r) == IF r.minHealthyPercent <= 0 THEN 95 ELSE r.minHealthyPercent

minPresent(r, total) ==
    LET asked  == IF r.minDevices <= 0 THEN (total + 1) \div 2 ELSE r.minDevices
        capped == IF asked > total THEN total ELSE asked
    IN  IF capped < 1 THEN 1 ELSE capped

Present(rs) == IF rs.total - rs.absent > 0 THEN rs.total - rs.absent ELSE 0

EnoughEvidence(r, rs) == Present(rs) >= minPresent(r, rs.total)

Converged(r, rs) ==
    /\ EnoughEvidence(r, rs)
    /\ Present(rs) > 0
    /\ Percent(rs.healthy, Present(rs)) >= minHealthy(r)

TooBroken(r, rs) ==
    /\ Present(rs) # 0
    /\ Percent(rs.broken, Present(rs)) > 100 - minHealthy(r)

\* Seeded fault: one device too many.
NextReleaseOffByOne(r, total, released) ==
    IF r.maxDevices <= 0 \/ released + r.maxDevices + 1 > total
    THEN total
    ELSE released + r.maxDevices + 1

NextRelease(r, total, released) ==
    IF r.maxDevices <= 0 \/ released + r.maxDevices > total
    THEN total
    ELSE released + r.maxDevices

(***************************************************************************)
(* A run's durable record.  promotedAt and convergedAt hold Never for a    *)
(* ring that has no entry; approved is the key set of ApprovedAt.          *)
(***************************************************************************)
NewState(ringIds, target, rings, origin) ==
    [status      |-> "active",
     target      |-> target,
     rings       |-> rings,
     ring        |-> 1,
     promotedAt  |-> [i \in ringIds |-> Never],
     convergedAt |-> [i \in ringIds |-> Never],
     approved    |-> {},
     waiting     |-> "",
     origin      |-> origin]

Approve(s) == [s EXCEPT !.approved = @ \cup {s.ring}]

\* State.Note: what the engine last decided, cleared once the run is over.
Note(s, kind) ==
    [s EXCEPT !.waiting = IF kind \in {"halt", "done"} THEN "" ELSE kind]

ActionKinds ==
    {"promote", "wait", "advance", "widen-cohort", "halt", "await-approval", "done"}

(***************************************************************************)
(* Decide: the next action of a run, from its record, the convergence of   *)
(* its current ring and the clock.  The order of the tests is the source's.*)
(***************************************************************************)
\* Seeded fault: the soak ends one unit early.
SoakedEarly(r, s, now) == now - s.convergedAt[s.ring] >= r.soak - 1

Soaked(r, s, now) == now - s.convergedAt[s.ring] >= r.soak

\* Seeded fault: the gate holds for one tick only.
NeedsApprovalOnce(r, s) ==
    r.requireApproval /\ s.ring \notin s.approved /\ s.waiting # "await-approval"

NeedsApproval(r, s) == r.requireApproval /\ s.ring \notin s.approved

Decide(rings, s, rs, now) ==
    LET r == rings[s.ring] IN
    IF s.status # "active" \/ s.ring > Len(rings)     THEN "done"
    ELSE IF s.promotedAt[s.ring] = Never              THEN "promote"
    ELSE IF rs.total = 0                              THEN "advance"
    ELSE IF TooBroken(r, rs)                          THEN "halt"
    ELSE IF ~Converged(r, rs)                         THEN "wait"
    ELSE IF s.convergedAt[s.ring] = Never             THEN "wait"
    ELSE IF ~Soaked(r, s, now)                        THEN "wait"
    ELSE IF r.maxDevices > 0 /\ rs.released < rs.groupTotal THEN "widen-cohort"
    ELSE IF s.ring = Len(rings)                       THEN "done"
    ELSE IF NeedsApproval(r, s)                       THEN "await-approval"
    ELSE "advance"
=============================================================================
