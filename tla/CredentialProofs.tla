-------------------------- MODULE CredentialProofs --------------------------
(***************************************************************************)
(* Proofs about how long rights last: a device's credentials, the          *)
(* elevation of a user on it, and the sessions and tokens of people.       *)
(***************************************************************************)
EXTENDS Credentials, Elevation, Access, TLAPS

(***************************************************************************)
(* Credentials: SweepSparesFleet for every fleet, window and number of     *)
(* handlers.  A sweep deletes by what it read; SweepInv relates that       *)
(* reading to the document as it has been since.                           *)
(***************************************************************************)
\* What the history and the sweeps hold.
SweepType ==
    /\ enrolled \in [Tags -> {"absent", "active", "retired"}]
    /\ reports \in [Tags -> Int]
    /\ day \in Nat
    /\ DOMAIN steady = {"creds", "status"}
    /\ credSweep \in [phase : {"idle", "list", "delete", "done"}, known : SUBSET Tags, left : SUBSET Tags]
    /\ held \subseteq Tags
    /\ statusSweep.cutoff \in Int

\* A tag that never left the document since a sweep's read was in that read, a
\* credential the sweep is to delete was not, and the cutoff only ages.
SweepInv ==
    /\ SweepType
    /\ credSweep.phase # "idle" => steady.creds \subseteq credSweep.known
    /\ credSweep.phase = "idle" => steady.creds = {}
    /\ credSweep.left \cap credSweep.known = {}
    /\ statusSweep.phase = "delete" => /\ steady.status \subseteq statusSweep.known
                                       /\ statusSweep.cutoff <= day - DeviceWindow

LEMMA SweepStarts == CredentialInit => SweepInv
  BY CredentialAssumption DEF CredentialInit, SweepInv, SweepType, NoReconcile, NoSweep

\* A write of the document only takes tags out of the history.
LEMMA CommitKeeps ==
    ASSUME SweepInv, NEW t \in Tags, NEW from, NEW to \in {"absent", "active", "retired"}, NEW tail,
           Commit(t, from, to, tail)
    PROVE  SweepInv'
  <1>1. steady'.creds \subseteq steady.creds /\ steady'.status \subseteq steady.status
        /\ DOMAIN steady' = {"creds", "status"}
    BY DEF Commit, SweepInv, SweepType
  <1>2. SweepType' BY <1>1 DEF Commit, SweepInv, SweepType
  <1> QED BY <1>1, <1>2 DEF Commit, SweepInv

\* The handlers and their second steps, check-ins, and the clock.
LEMMA HandlersKeep ==
    ASSUME SweepInv, NEW t \in Tags,
           \/ postDeviceEnroll(t) \/ deviceRetire(t) \/ deviceReactivate(t) \/ deviceRemove(t)
           \/ LeavesOtherwise(t) \/ postDeviceCredential(t)
           \/ Issue(t) \/ RevokeCredential(t) \/ CheckIn(t)
    PROVE  SweepInv'
  <1>1. CASE \/ postDeviceEnroll(t) \/ deviceRetire(t) \/ deviceReactivate(t) \/ deviceRemove(t)
             \/ LeavesOtherwise(t)
    BY <1>1, CommitKeeps
       DEF postDeviceEnroll, deviceRetire, deviceReactivate, deviceRemove, LeavesOtherwise
  <1>2. CASE postDeviceCredential(t) \/ Issue(t) \/ RevokeCredential(t)
    BY <1>2 DEF postDeviceCredential, Issue, RevokeCredential, SweepInv, SweepType
  <1>3. CASE CheckIn(t)
    <2>1. SweepType' BY <1>3 DEF CheckIn, SweepInv, SweepType
    <2> QED BY <1>3, <2>1 DEF CheckIn, SweepInv
  <1> QED BY <1>1, <1>2, <1>3

\* The sweeps' own steps.
LEMMA SweepsKeep ==
    ASSUME SweepInv,
           \/ ReconcileRead \/ ReconcileList \/ RestartSweep \/ SweepRead \/ DeleteDeviceStatusBefore
           \/ \E t \in Tags : ReconcileDelete(t)
    PROVE  SweepInv'
  <1> USE CredentialAssumption DEF SweepInv, SweepType
  <1>1. CASE ReconcileRead BY <1>1 DEF ReconcileRead, deviceTags
  <1>2. CASE ReconcileList BY <1>2 DEF ReconcileList
  <1>3. CASE RestartSweep BY <1>3 DEF RestartSweep, NoReconcile
  <1>4. CASE SweepRead BY <1>4 DEF SweepRead
  <1>5. CASE DeleteDeviceStatusBefore BY <1>5 DEF DeleteDeviceStatusBefore, NoSweep
  <1>6. CASE \E t \in Tags : ReconcileDelete(t) BY <1>6 DEF ReconcileDelete
  <1> QED BY <1>1, <1>2, <1>3, <1>4, <1>5, <1>6

\* A second step that is lost, a day, and nothing at all.
LEMMA CredentialQuiet ==
    ASSUME SweepInv, DayPasses \/ UNCHANGED credentialVars \/ \E tail \in tails : TailFails(tail)
    PROVE  SweepInv'
  <1> USE CredentialAssumption DEF SweepInv, SweepType
  <1>1. CASE DayPasses BY <1>1 DEF DayPasses
  <1>2. CASE UNCHANGED credentialVars BY <1>2 DEF credentialVars
  <1>3. CASE \E tail \in tails : TailFails(tail) BY <1>3 DEF TailFails
  <1> QED BY <1>1, <1>2, <1>3

\* A credential that goes by a sweep was in no reading the history covers.
LEMMA SweepTakesStrangers ==
    ASSUME SweepInv, CredentialNext, credSweep' # credSweep
    PROVE  steady.creds \cap held \subseteq held'
  <1>1. CASE ReconcileRead \/ ReconcileList \/ RestartSweep
    BY <1>1 DEF ReconcileRead, ReconcileList, RestartSweep
  <1>2. CASE \E t \in Tags : ReconcileDelete(t)
    <2> PICK t \in Tags : ReconcileDelete(t) BY <1>2
    <2>1. t \in credSweep.left /\ credSweep.phase # "idle" BY DEF ReconcileDelete
    <2>2. t \notin steady.creds BY <2>1 DEF SweepInv
    <2> QED BY <2>2 DEF ReconcileDelete
  <1> QED
    BY <1>1, <1>2
       DEF CredentialNext, postDeviceEnroll, deviceRetire, deviceReactivate, deviceRemove,
           LeavesOtherwise, Commit, postDeviceCredential, Issue, RevokeCredential, CheckIn,
           TailFails, SweepRead, DeleteDeviceStatusBefore, DayPasses

\* A row that goes was silent for the window and of a tag that had left.
LEMMA SweepTakesSilentRows ==
    ASSUME SweepInv, CredentialNext, NEW t \in Tags, reports[t] # -1, reports'[t] = -1
    PROVE  t \notin steady.status /\ day - reports[t] > DeviceWindow
  <1>1. ASSUME DeleteDeviceStatusBefore
        PROVE  t \notin steady.status /\ day - reports[t] > DeviceWindow
    <2>1. statusSweep.phase = "delete" /\ NotKnown(t) /\ reports[t] < statusSweep.cutoff
      BY <1>1 DEF DeleteDeviceStatusBefore
    <2> QED BY <2>1, CredentialAssumption DEF NotKnown, SweepInv, SweepType
  <1>2. ASSUME NEW u \in Tags, CheckIn(u)
        PROVE  FALSE
    <2>1. reports' = [reports EXCEPT ![u] = day] BY <1>2 DEF CheckIn
    <2> QED BY <2>1 DEF SweepInv, SweepType
  <1>3. CASE UNCHANGED reports BY <1>3
  <1>4. DeleteDeviceStatusBefore \/ (\E u \in Tags : CheckIn(u)) \/ UNCHANGED reports
    BY DEF CredentialNext, postDeviceEnroll, deviceRetire, deviceReactivate, deviceRemove,
           LeavesOtherwise, Commit, postDeviceCredential, Issue, RevokeCredential,
           ReconcileRead, ReconcileList, ReconcileDelete, RestartSweep,
           TailFails, SweepRead, DayPasses
  <1> QED BY <1>1, <1>2, <1>3, <1>4

\* For every fleet, window and interleaving: the startup sweep of credentials
\* and the retention sweep of check-in rows take nothing from a device that
\* was in the document all along (ReconcileWithFleet, DeleteDeviceStatusBefore).
THEOREM SweepsSpareFleet == CredentialSpec => SweepSparesFleet
  <1>1. SweepInv /\ [CredentialNext]_credentialVars => SweepInv'
    BY HandlersKeep, SweepsKeep, CredentialQuiet DEF CredentialNext
  <1>2. SweepInv /\ [CredentialNext]_credentialVars =>
        [ /\ credSweep' # credSweep => steady.creds \cap held \subseteq held'
          /\ \A t \in Tags : reports[t] # -1 /\ reports'[t] = -1 =>
                t \notin steady.status /\ day - reports[t] > DeviceWindow ]_credentialVars
    BY SweepTakesStrangers, SweepTakesSilentRows DEF credentialVars
  <1> QED BY SweepStarts, <1>1, <1>2, PTL DEF CredentialSpec, SweepSparesFleet

(***************************************************************************)
(* Elevation: VerdictStands for any number of requests and operators, any  *)
(* window and any retention.  What a device hears depends on rows that     *)
(* operators read long before they write them; the invariant follows those *)
(* rows.                                                                   *)
(***************************************************************************)
Row(states) == [created : Int, state : states, decided : Int, by : Operators \cup {"none"}]

ElevationType ==
    /\ now \in Nat
    /\ erow \in [ElevationIds -> Row({"none", "pending", "approved", "denied"})]
    /\ deciding \in [Operators -> [id : ElevationIds, row : Row({"approved", "denied"})] \cup {Waiting}]
    /\ answered \in [ElevationIds -> SUBSET {"granted", "pending", "approved", "denied", "expired"}]

\* A missing row has no state; nothing was created later than now; a decision
\* on its way is about a request no younger than the one that is still open.
RowsInOrder ==
    /\ \A id \in ElevationIds : /\ erow[id].state = "none" <=> erow[id] = NoRow
                                /\ erow[id].created <= now
    /\ \A op \in Operators : deciding[op] # Waiting =>
        LET id == deciding[op].id IN
        /\ deciding[op].row.created <= now
        /\ erow[id].state = "pending" => deciding[op].row.created <= erow[id].created

\* Once a poll has said "expired", the stored row and every decision on its
\* way are too old to grant.
ExpiredIsOver ==
    \A id \in ElevationIds : "expired" \in answered[id] =>
        /\ erow[id] # NoRow => now - erow[id].created >= TTL
        /\ \A op \in Operators : deciding[op].id = id => now - deciding[op].row.created >= TTL

\* A request that two operators never held undecided at once has at most one
\* decision on its way, and only while nothing has been decided or told.
OneVerdict ==
    \A id \in ElevationIds : id \notin overlapped =>
        /\ \A op \in Operators : deciding[op].id = id =>
            /\ erow[id].state \in {"none", "pending"}
            /\ answered[id] \cap {"granted", "denied"} = {}
            /\ \A other \in Operators : deciding[other].id = id => other = op
        /\ erow[id].state = "pending"  => answered[id] \cap {"granted", "denied"} = {}
        /\ erow[id].state = "approved" => "denied" \notin answered[id]
        /\ erow[id].state = "denied"   => "granted" \notin answered[id]
        /\ ~({"granted", "denied"} \subseteq answered[id])

ElevationInv == ElevationType /\ RowsInOrder /\ ExpiredIsOver /\ OneVerdict

\* No request has been raised.
LEMMA ElevationStarts == ElevationInit => ElevationInv
  <1> USE ElevationAssumption DEF ElevationInit
  <1>1. ElevationInit => ElevationType BY DEF ElevationType, Row, NoRow
  <1>2. ElevationInit => RowsInOrder BY DEF RowsInOrder, NoRow
  <1>3. ElevationInit => ExpiredIsOver /\ OneVerdict BY DEF ExpiredIsOver, OneVerdict, Waiting
  <1> QED BY <1>1, <1>2, <1>3 DEF ElevationInv

\* A row on its way names a request and is decided.
LEMMA OnItsWay ==
    ASSUME ElevationType, NEW op \in Operators
    PROVE  /\ deciding[op] # Waiting <=> deciding[op].id \in ElevationIds
           /\ deciding[op] # Waiting => deciding[op].row \in Row({"approved", "denied"})
  BY ElevationAssumption DEF ElevationType, Waiting

\* A device raises a request (ElevationService.Raise).
LEMMA RaiseKeeps ==
    ASSUME ElevationInv, NEW id \in ElevationIds, handleElevationRaise(id)
    PROVE  ElevationInv'
  <1> DEFINE new == [created |-> now, state |-> "pending", decided |-> -1, by |-> "none"]
  <1> USE ElevationAssumption DEF ElevationInv, handleElevationRaise, Raise
  <1>1. ElevationType' BY DEF ElevationType, Row
  <1>2. erow'[id] = new /\ new # NoRow BY DEF ElevationType, NoRow
  <1>3. \A x \in ElevationIds \ {id} : erow'[x] = erow[x] BY DEF ElevationType
  <1>4. RowsInOrder'
    <2>1. ASSUME NEW x \in ElevationIds
          PROVE  (erow'[x].state = "none" <=> erow'[x] = NoRow) /\ erow'[x].created <= now
      BY <1>2, <1>3 DEF RowsInOrder, ElevationType
    <2>2. ASSUME NEW op \in Operators, deciding[op] # Waiting
          PROVE  /\ deciding[op].row.created <= now
                 /\ erow'[deciding[op].id].state = "pending" =>
                        deciding[op].row.created <= erow'[deciding[op].id].created
      <3>1. deciding[op].id \in ElevationIds BY <2>2, OnItsWay
      <3> QED BY <1>2, <1>3, <2>2, <3>1 DEF RowsInOrder
    <2> QED BY <2>1, <2>2 DEF RowsInOrder
  <1>5. ExpiredIsOver' BY <1>2, <1>3 DEF ExpiredIsOver
  <1>6. OneVerdict' BY <1>2, <1>3 DEF OneVerdict
  <1> QED BY <1>1, <1>4, <1>5, <1>6

\* A poll says what the row is worth now (handleElevationPoll).
LEMMA PollKeeps ==
    ASSUME ElevationInv, NEW id \in ElevationIds, handleElevationPoll(id)
    PROVE  ElevationInv'
  <1> DEFINE word == elevationAnswer(Poll(id))
  <1> USE ElevationAssumption DEF ElevationInv, handleElevationPoll
  <1>1. erow[id] \in Row({"pending", "approved", "denied"}) /\ erow[id] # NoRow
    BY DEF ElevationType, RowsInOrder, Row
  <1>2. /\ word \in {"granted", "pending", "approved", "denied", "expired"}
        /\ word = "granted" => erow[id].state = "approved"
        /\ word = "denied"  => erow[id].state = "denied"
        /\ word = "expired" => erow[id].state = "pending" /\ now - erow[id].created >= TTL
    BY <1>1 DEF elevationAnswer, Poll, ResolveRequest, Grants, Row
  <1> HIDE DEF word
  <1>3. answered' = [answered EXCEPT ![id] = @ \cup {word}] BY DEF word
  <1>4. ElevationType' BY <1>2, <1>3 DEF ElevationType
  <1>5. RowsInOrder' BY DEF RowsInOrder
  <1>6. ExpiredIsOver'
    <2> SUFFICES ASSUME NEW x \in ElevationIds, "expired" \in answered'[x]
                 PROVE  /\ erow[x] # NoRow => now - erow[x].created >= TTL
                        /\ \A op \in Operators : deciding[op].id = x => now - deciding[op].row.created >= TTL
      BY DEF ExpiredIsOver
    <2>1. CASE "expired" \in answered[x] BY <2>1 DEF ExpiredIsOver
    <2>2. CASE "expired" \notin answered[x]
      <3>1. x = id /\ word = "expired" BY <1>3, <2>2 DEF ElevationType
      <3>2. ASSUME NEW op \in Operators, deciding[op].id = x
            PROVE  now - deciding[op].row.created >= TTL
        <4>1. deciding[op] # Waiting /\ deciding[op].row \in Row({"approved", "denied"})
          BY <3>2, OnItsWay
        <4>2. deciding[op].row.created <= erow[id].created
          BY <1>2, <3>1, <3>2, <4>1 DEF RowsInOrder
        <4> QED BY <1>1, <1>2, <3>1, <4>1, <4>2 DEF Row, ElevationType
      <3> QED BY <1>2, <3>1, <3>2
    <2> QED BY <2>1, <2>2
  <1>7. OneVerdict'
    <2> SUFFICES ASSUME NEW x \in ElevationIds, x \notin overlapped
                 PROVE  /\ \A op \in Operators : deciding[op].id = x =>
                            /\ erow[x].state \in {"none", "pending"}
                            /\ answered'[x] \cap {"granted", "denied"} = {}
                            /\ \A other \in Operators : deciding[other].id = x => other = op
                        /\ erow[x].state = "pending"  => answered'[x] \cap {"granted", "denied"} = {}
                        /\ erow[x].state = "approved" => "denied" \notin answered'[x]
                        /\ erow[x].state = "denied"   => "granted" \notin answered'[x]
                        /\ ~({"granted", "denied"} \subseteq answered'[x])
      BY DEF OneVerdict
    <2>1. CASE x # id BY <1>3, <2>1 DEF OneVerdict, ElevationType
    <2>2. CASE x = id
      <3>1. answered'[x] = answered[x] \cup {word} BY <1>3, <2>2 DEF ElevationType
      <3> QED BY <1>2, <2>2, <3>1 DEF OneVerdict
    <2> QED BY <2>1, <2>2
  <1> QED BY <1>4, <1>5, <1>6, <1>7

\* An operator reads an open request and decides it (Decide, up to the Put).
LEMMA ReadKeeps ==
    ASSUME ElevationInv, NEW op \in Operators, NEW id \in ElevationIds, NEW approve \in BOOLEAN,
           DecideRead(op, id, approve)
    PROVE  ElevationInv'
  <1> DEFINE row == Verdict(erow[id], approve, op)
             on == [id |-> id, row |-> row]
  <1> USE ElevationAssumption DEF ElevationInv, DecideRead
  <1>1. /\ erow[id] \in Row({"none", "pending", "approved", "denied"})
        /\ erow[id].state = "pending" /\ now - erow[id].created < TTL
    <2>1. erow[id] \in Row({"none", "pending", "approved", "denied"}) /\ now \in Nat BY DEF ElevationType
    <2>2. erow[id].created \in Int BY <2>1 DEF Row
    <2>3. ResolveRequest(erow[id]) = "pending" OBVIOUS
    <2> QED BY <2>1, <2>2, <2>3 DEF ResolveRequest
  <1>2. row \in Row({"approved", "denied"}) /\ row.created = erow[id].created
    <2>1. now \in Int BY DEF ElevationType
    <2>2. CASE approve BY <1>1, <2>1, <2>2 DEF Verdict, Row
    <2>3. CASE ~approve BY <1>1, <2>1, <2>3 DEF Verdict, Row
    <2> QED BY <2>2, <2>3
  <1> HIDE DEF row
  <1>3. deciding'[op] = on /\ on # Waiting /\ on.id = id /\ on.row = row
    BY DEF ElevationType, Waiting, row
  <1>4. \A o \in Operators \ {op} : deciding'[o] = deciding[o] BY DEF ElevationType
  <1>5. ElevationType' BY <1>2 DEF ElevationType, row
  <1>6. RowsInOrder' BY <1>1, <1>2, <1>3, <1>4 DEF RowsInOrder, Row, ElevationType
  <1>7. "expired" \notin answered[id]
    <2>1. erow[id] # NoRow OBVIOUS
    <2> QED BY <2>1, <1>1 DEF ExpiredIsOver, Row, ElevationType
  <1>8. ExpiredIsOver' BY <1>3, <1>4, <1>7 DEF ExpiredIsOver
  <1>9. OneVerdict'
    <2> SUFFICES ASSUME NEW x \in ElevationIds, x \notin overlapped'
                 PROVE  \A o \in Operators : deciding'[o].id = x =>
                            /\ erow[x].state \in {"none", "pending"}
                            /\ answered[x] \cap {"granted", "denied"} = {}
                            /\ \A other \in Operators : deciding'[other].id = x => other = o
      BY DEF OneVerdict
    <2>1. x \notin overlapped OBVIOUS
    <2>2. CASE x # id BY <1>3, <1>4, <2>1, <2>2 DEF OneVerdict
    <2>3. CASE x = id
      <3>1. \A o \in Operators \ {op} : deciding[o].id # id BY <2>3
      <3>2. answered[id] \cap {"granted", "denied"} = {} BY <1>1, <2>1, <2>3 DEF OneVerdict
      <3> QED BY <1>1, <1>3, <1>4, <2>3, <3>1, <3>2
    <2> QED BY <2>2, <2>3
  <1> QED BY <1>5, <1>6, <1>8, <1>9

\* The decision lands, over whatever the row holds by now (Put).
LEMMA PutKeeps ==
    ASSUME ElevationInv, NEW op \in Operators, DecidePut(op)
    PROVE  ElevationInv'
  <1> DEFINE id == deciding[op].id
             row == deciding[op].row
  <1> USE ElevationAssumption DEF ElevationInv, DecidePut
  <1>1. id \in ElevationIds /\ row \in Row({"approved", "denied"}) BY OnItsWay
  <1>2. erow'[id] = row /\ \A x \in ElevationIds \ {id} : erow'[x] = erow[x]
    BY <1>1 DEF ElevationType
  <1>3. deciding'[op] = Waiting /\ \A o \in Operators \ {op} : deciding'[o] = deciding[o]
    BY DEF ElevationType
  <1>4. Waiting.id \notin ElevationIds /\ row # NoRow BY <1>1 DEF Waiting, NoRow, Row
  <1>5. ElevationType' BY <1>1 DEF ElevationType, Row
  <1>6. RowsInOrder'
    <2>1. ASSUME NEW x \in ElevationIds
          PROVE  (erow'[x].state = "none" <=> erow'[x] = NoRow) /\ erow'[x].created <= now
      BY <1>1, <1>2, <1>4 DEF RowsInOrder, Row
    <2>2. ASSUME NEW o \in Operators, deciding'[o] # Waiting
          PROVE  /\ deciding'[o].row.created <= now
                 /\ erow'[deciding'[o].id].state = "pending" =>
                        deciding'[o].row.created <= erow'[deciding'[o].id].created
      <3>1. o # op /\ deciding'[o] = deciding[o] BY <1>3, <2>2
      <3>2. deciding[o].id \in ElevationIds BY <2>2, <3>1, OnItsWay
      <3>3. row.state # "pending" BY <1>1 DEF Row
      <3> QED BY <1>2, <2>2, <3>1, <3>2, <3>3 DEF RowsInOrder
    <2> QED BY <2>1, <2>2 DEF RowsInOrder
  <1>7. ExpiredIsOver' BY <1>1, <1>2, <1>3, <1>4 DEF ExpiredIsOver
  <1>8. OneVerdict'
    <2> SUFFICES ASSUME NEW x \in ElevationIds, x \notin overlapped
                 PROVE  /\ \A o \in Operators : deciding'[o].id = x =>
                            /\ erow'[x].state \in {"none", "pending"}
                            /\ answered[x] \cap {"granted", "denied"} = {}
                            /\ \A other \in Operators : deciding'[other].id = x => other = o
                        /\ erow'[x].state = "pending"  => answered[x] \cap {"granted", "denied"} = {}
                        /\ erow'[x].state = "approved" => "denied" \notin answered[x]
                        /\ erow'[x].state = "denied"   => "granted" \notin answered[x]
                        /\ ~({"granted", "denied"} \subseteq answered[x])
      BY DEF OneVerdict
    <2>1. CASE x = id
      <3>1. \A o \in Operators : deciding'[o].id # x
        BY <1>3, <1>4, <2>1 DEF OneVerdict
      <3>2. answered[x] \cap {"granted", "denied"} = {} BY <2>1 DEF OneVerdict
      <3> QED BY <3>1, <3>2
    <2>2. CASE x # id BY <1>2, <1>3, <1>4, <2>2 DEF OneVerdict
    <2> QED BY <2>1, <2>2
  <1> QED BY <1>5, <1>6, <1>7, <1>8

\* A decision that is lost, the retention sweep, the clock, a device's
\* retirement: rows and decisions only go or grow older.
LEMMA ElevationQuiet ==
    ASSUME ElevationInv,
           \/ \E op \in Operators : DecideLost(op)
           \/ DeleteElevationBefore \/ TimePasses \/ Lifecycle \/ UNCHANGED elevationVars
    PROVE  ElevationInv'
  <1> USE ElevationAssumption DEF ElevationInv
  <1>1. CASE \E op \in Operators : DecideLost(op)
    <2> PICK op \in Operators : DecideLost(op) BY <1>1
    <2> USE DEF DecideLost
    <2>1. deciding'[op] = Waiting /\ \A o \in Operators \ {op} : deciding'[o] = deciding[o]
      BY DEF ElevationType
    <2>2. Waiting.id \notin ElevationIds BY DEF Waiting
    <2>3. ElevationType' BY DEF ElevationType
    <2>4. RowsInOrder' BY <2>1 DEF RowsInOrder
    <2>5. ExpiredIsOver' BY <2>1, <2>2 DEF ExpiredIsOver
    <2>6. OneVerdict' BY <2>1, <2>2 DEF OneVerdict
    <2> QED BY <2>3, <2>4, <2>5, <2>6
  <1>2. CASE DeleteElevationBefore
    <2> USE <1>2 DEF DeleteElevationBefore
    <2>1. \A x \in ElevationIds : erow'[x] = erow[x] \/ erow'[x] = NoRow OBVIOUS
    <2>2. /\ NoRow.state = "none" /\ NoRow.created = -1
          /\ NoRow \in Row({"none", "pending", "approved", "denied"})
      BY DEF NoRow, Row
    <2>3. ElevationType' BY <2>2 DEF ElevationType
    <2>4. RowsInOrder'
      <3>1. ASSUME NEW x \in ElevationIds
            PROVE  (erow'[x].state = "none" <=> erow'[x] = NoRow) /\ erow'[x].created <= now
        BY <2>1, <2>2 DEF RowsInOrder, ElevationType
      <3>2. ASSUME NEW o \in Operators, deciding[o] # Waiting
            PROVE  /\ deciding[o].row.created <= now
                   /\ erow'[deciding[o].id].state = "pending" =>
                        deciding[o].row.created <= erow'[deciding[o].id].created
        <4>1. deciding[o].id \in ElevationIds BY <3>2, OnItsWay
        <4> QED BY <2>1, <2>2, <3>2, <4>1 DEF RowsInOrder
      <3> QED BY <3>1, <3>2 DEF RowsInOrder
    <2>5. ExpiredIsOver' BY <2>1 DEF ExpiredIsOver
    <2>6. OneVerdict' BY <2>1, <2>2 DEF OneVerdict
    <2> QED BY <2>3, <2>4, <2>5, <2>6
  <1>3. CASE TimePasses
    <2> USE <1>3 DEF TimePasses
    <2>1. ElevationType' BY DEF ElevationType
    <2>2. \A x \in ElevationIds : erow[x].created \in Int BY DEF ElevationType, Row
    <2>3. \A o \in Operators : deciding[o].row.created \in Int
      BY DEF ElevationType, Row, Waiting, NoRow
    <2>4. now' = now + 1 /\ now \in Nat BY DEF ElevationType
    <2>5. RowsInOrder' BY <2>2, <2>3, <2>4 DEF RowsInOrder
    <2>6. ExpiredIsOver' BY <2>2, <2>3, <2>4 DEF ExpiredIsOver
    <2>7. OneVerdict' BY DEF OneVerdict
    <2> QED BY <2>1, <2>5, <2>6, <2>7
  <1>4. CASE Lifecycle \/ UNCHANGED elevationVars
    BY <1>4 DEF Lifecycle, elevationVars, ElevationType, RowsInOrder, ExpiredIsOver, OneVerdict
  <1> QED BY <1>1, <1>2, <1>3, <1>4

\* A poll that grants was never preceded by one that said "expired".
LEMMA GrantIsTimely ==
    ASSUME ElevationInv, ElevationNext, NEW id \in ElevationIds,
           "granted" \in answered'[id] \ answered[id]
    PROVE  "expired" \notin answered[id]
  <1>1. PICK x \in ElevationIds : handleElevationPoll(x)
    BY DEF ElevationNext, handleElevationRaise, DecideRead, DecidePut, DecideLost,
           DeleteElevationBefore, TimePasses, Lifecycle
  <1>2. x = id /\ elevationAnswer(Poll(id)) = "granted"
    BY <1>1 DEF handleElevationPoll, ElevationInv, ElevationType
  <1>3. erow[id] \in Row({"none", "pending", "approved", "denied"}) /\ erow[id] # NoRow
    BY <1>1, <1>2 DEF handleElevationPoll, ElevationInv, ElevationType
  <1>4. now - erow[id].created < TTL
    BY <1>2, <1>3 DEF elevationAnswer, Poll, ResolveRequest, Grants, Row
  <1> QED BY <1>3, <1>4, ElevationAssumption DEF ElevationInv, ExpiredIsOver, ElevationType, Row

\* For any number of requests and operators and any window: what a device was
\* told stands (ElevationService.Decide, Request.Grants, handleElevationPoll).
THEOREM VerdictsStand == ElevationSpec => VerdictStands
  <1>1. ElevationInv /\ [ElevationNext]_elevationVars => ElevationInv'
    BY RaiseKeeps, PollKeeps, ReadKeeps, PutKeeps, ElevationQuiet DEF ElevationNext
  <1>2. ElevationInv /\ ElevationInv' /\ [ElevationNext]_elevationVars =>
        [ \A id \in ElevationIds :
            /\ "granted" \in answered'[id] \ answered[id] => "expired" \notin answered[id]
            /\ {"granted", "denied"} \subseteq answered'[id] => id \in overlapped' ]_elevationVars
    BY GrantIsTimely DEF ElevationInv, OneVerdict
  <1> QED BY ElevationStarts, <1>1, <1>2, PTL DEF ElevationSpec, VerdictStands

(***************************************************************************)
(* Access: RightsExpire and DeletedGroupsDie for every set of groups,      *)
(* tokens and calls and for every lifetime.  Three clocks run one inside   *)
(* the other: what a session remembers, what a token took over from it,    *)
(* and what a call took over from the token while it waits for the         *)
(* directory.  AgeInv bounds the age of each by the one outside it.        *)
(***************************************************************************)
GroupNames == IdPGroups \cup UNION {m.groups : m \in MintRequests}
Ceilings   == {m.cap : m \in MintRequests}
Actors     == {"me", "svc", "svc:api"}

Tokens  == [kind : {"personal", "service"}, of : Actors, groups : SUBSET GroupNames,
            cap : Ceilings, exp : Int]
Users   == [kind : {"personal", "service"}, of : Actors, groups : SUBSET GroupNames, cap : Ceilings]
Browse  == [kind |-> "browse"]
Replies == [err : {"ok", "timeout", "refused"}, groups : SUBSET IdPGroups]

Dialling == [stage : {"dialling"}, for : Users \cup {Browse}, start : Int]
Answered == [stage : {"answered"}, for : Users \cup {Browse}, start : Int, a : Replies]
Inside   == [stage : {"in"}, kind : {"personal", "service"},
             who : [of : Actors, bearer : {TRUE}, service : {FALSE},
                    cap : Ceilings, groups : SUBSET GroupNames]]
CallStates == {NoCall} \cup Dialling \cup Answered \cup Inside

\* The shape of the state.
AccessType ==
    /\ hour \in Nat /\ lastDown \in Int
    /\ left \in [IdPGroups -> Int] /\ deleted \in [IdPGroups -> Int]
    /\ sess \in [groups : SUBSET IdPGroups, exp : Int]
    /\ toks \in [TokenIds -> Tokens \cup {NoToken}]
    /\ calls \in [Calls -> CallStates]

\* What a session, a token and a call under way still name was not left before
\* the session they go back to was opened.
SessionAge(s) ==
    /\ s.exp <= hour + SessionTTL
    /\ \A g \in s.groups : left[g] = -1 \/ left[g] >= s.exp - SessionTTL

TokenAge(t) ==
    t.kind = "personal" =>
        /\ t.exp <= hour + TokenTTL
        /\ t.groups \subseteq IdPGroups
        /\ \A g \in t.groups : left[g] = -1 \/ left[g] >= t.exp - SessionTTL - TokenTTL

CallAge(c) ==
    c.stage \in {"dialling", "answered"} =>
        /\ c.start <= hour /\ hour <= c.start + DialTimeout
        /\ c.for.kind = "personal" =>
            /\ TokenTTL > 0
            /\ c.for.groups \subseteq IdPGroups
            /\ \A g \in c.for.groups : left[g] = -1 \/ left[g] > c.start - SessionTTL - TokenTTL

AgeInv ==
    /\ SessionAge(sess)
    /\ \A id \in TokenIds : TokenAge(toks[id])
    /\ \A q \in Calls : CallAge(calls[q])

\* What an answer of the directory lists was there when it was read, and one that
\* refuses is remembered.
TrueSince(a, from) ==
    /\ a.err = "ok" => \A g \in a.groups : deleted[g] = -1 \/ deleted[g] >= from
    /\ a.err = "refused" => lastDown # -1 /\ lastDown >= from

CallAnswer(c) == c.stage = "answered" => TrueSince(c.a, c.start)

Warmed == [err : {"ok", "timeout", "refused"}, groups : SUBSET IdPGroups, sent : Int]
WarmAnswer ==
    warm # NoAnswer =>
        /\ warm \in Warmed
        /\ warm.sent <= hour /\ hour <= warm.sent + DialTimeout
        /\ TrueSince(warm, warm.sent)

\* An entry of the cache is at most one query older than its stamp.
Entries == [err : {"ok", "refused"}, groups : SUBSET IdPGroups, at : Int]
CacheAnswer ==
    dcache # NoEntry =>
        /\ dcache \in Entries
        /\ dcache.at <= hour
        /\ hour - dcache.at < CacheTTL => TrueSince(dcache, dcache.at - DialTimeout)

AnswerInv == (\A q \in Calls : CallAnswer(calls[q])) /\ WarmAnswer /\ CacheAnswer

AccessInv == AccessType /\ AgeInv /\ AnswerInv

\* Nobody has left anything, at most one token is there, no query is out.
LEMMA AccessStarts == AccessInit => AccessInv
  <1> SUFFICES ASSUME AccessInit PROVE AccessInv OBVIOUS
  <1>0. /\ SessionTTL \in Nat /\ TokenTTL \in Nat
        /\ \A m \in MintRequests : m.ttl \in Nat /\ m.ttl <= TokenTTL
    BY AccessAssumption
  <1>1. /\ hour = 0 /\ lastDown = -1 /\ dcache = NoEntry /\ warm = NoAnswer
        /\ left = [g \in IdPGroups |-> -1] /\ deleted = [g \in IdPGroups |-> -1]
        /\ calls = [q \in Calls |-> NoCall]
    BY DEF AccessInit
  <1>2. /\ sess \in [groups : SUBSET IdPGroups, exp : Int]
        /\ sess.exp <= SessionTTL
    BY <1>0 DEF AccessInit, NoSession, FreshSession
  <1>3. /\ toks \in [TokenIds -> Tokens \cup {NoToken}]
        /\ \A id \in TokenIds : toks[id].kind = "personal" =>
             toks[id].groups = IdPGroups /\ toks[id].exp <= TokenTTL
    <2>1. CASE toks = [id \in TokenIds |-> NoToken] BY <2>1 DEF NoToken
    <2>2. ASSUME NEW m \in MintRequests, m.kind = "personal",
                 toks = [id \in TokenIds |-> IF id # m.id THEN NoToken ELSE
                            [kind |-> m.kind, of |-> "me", groups |-> IdPGroups, cap |-> m.cap, exp |-> m.ttl]]
          PROVE  /\ toks \in [TokenIds -> Tokens \cup {NoToken}]
                 /\ \A id \in TokenIds : toks[id].kind = "personal" =>
                      toks[id].groups = IdPGroups /\ toks[id].exp <= TokenTTL
      <3> DEFINE t == [kind |-> m.kind, of |-> "me", groups |-> IdPGroups, cap |-> m.cap, exp |-> m.ttl]
      <3>1. t \in Tokens /\ t.groups = IdPGroups /\ t.exp = m.ttl
        BY <1>0, <2>2 DEF Tokens, Actors, GroupNames, Ceilings
      <3>2. toks = [id \in TokenIds |-> IF id # m.id THEN NoToken ELSE t] BY <2>2
      <3> HIDE DEF t
      <3> QED BY <1>0, <3>1, <3>2 DEF NoToken
    <2> QED BY <2>1, <2>2 DEF AccessInit
  <1>4. AccessType BY <1>1, <1>2, <1>3 DEF AccessType, CallStates
  <1>5. AgeInv
    <2>1. SessionAge(sess) BY <1>0, <1>1, <1>2 DEF SessionAge
    <2>2. ASSUME NEW id \in TokenIds PROVE TokenAge(toks[id])
      <3> SUFFICES ASSUME toks[id].kind = "personal" PROVE TokenAge(toks[id]) BY DEF TokenAge
      <3>1. toks[id] \in Tokens BY <1>3 DEF NoToken
      <3>2. toks[id].exp \in Int BY <3>1 DEF Tokens
      <3> QED BY <1>0, <1>1, <1>3, <3>2 DEF TokenAge
    <2>3. \A q \in Calls : CallAge(calls[q]) BY <1>1 DEF CallAge, NoCall
    <2> QED BY <2>1, <2>2, <2>3 DEF AgeInv
  <1>6. AnswerInv BY <1>1 DEF AnswerInv, CallAnswer, WarmAnswer, CacheAnswer, NoCall
  <1> QED BY <1>4, <1>5, <1>6 DEF AccessInv

\* The shapes of a call.
LEMMA CallShapes ==
    ASSUME NEW c \in CallStates
    PROVE  /\ c.stage \in {"idle", "dialling", "answered", "in"}
           /\ c.stage = "idle" => c = NoCall
           /\ c.stage = "dialling" => c \in Dialling
           /\ c.stage = "answered" => c \in Answered /\ c.a \in Replies
           /\ c.stage \in {"dialling", "answered"} => c.start \in Int /\ c.for \in Users \cup {Browse}
           /\ c.stage = "in" => c \in Inside
  <1>1. CASE c = NoCall BY <1>1 DEF NoCall
  <1>2. CASE c \in Dialling BY <1>2 DEF Dialling
  <1>3. CASE c \in Answered BY <1>3 DEF Answered
  <1>4. CASE c \in Inside BY <1>4 DEF Inside
  <1> QED BY <1>1, <1>2, <1>3, <1>4 DEF CallStates

\* The person leaves a group, or the directory loses one.
LEMMA LossKeeps ==
    ASSUME AccessInv, NEW g \in IdPGroups, LeaveGroup(g) \/ DeleteGroup(g)
    PROVE  AccessInv'
  <1>0. AccessType /\ AgeInv /\ AnswerInv BY DEF AccessInv
  <1>a. SessionTTL \in Nat /\ TokenTTL \in Nat /\ DialTimeout \in Nat BY AccessAssumption
  <1>1. UNCHANGED <<lastDown, sess, toks, dcache, warm, calls, hour>>
    BY DEF LeaveGroup, DeleteGroup
  <1>2. /\ left' \in [IdPGroups -> Int] /\ deleted' \in [IdPGroups -> Int]
        /\ \A x \in IdPGroups : left'[x] \in {left[x], hour} /\ deleted'[x] \in {deleted[x], hour}
        /\ \A x \in IdPGroups : left'[x] # left[x] => left[x] = -1
        /\ \A x \in IdPGroups : deleted'[x] # deleted[x] => deleted[x] = -1
    BY <1>0 DEF AccessType, LeaveGroup, DeleteGroup
  <1>t. AccessType' BY <1>0, <1>1, <1>2 DEF AccessType
  <1>h. hour \in Nat BY <1>0 DEF AccessType
  <1>3. SessionAge(sess)'
    <2>1. sess.exp \in Int /\ sess.groups \subseteq IdPGroups BY <1>0 DEF AccessType
    <2>2. SessionAge(sess) BY <1>0 DEF AgeInv
    <2> QED BY <1>a, <1>h, <1>1, <1>2, <2>1, <2>2 DEF SessionAge
  <1>4. ASSUME NEW id \in TokenIds PROVE TokenAge(toks[id])'
    <2> SUFFICES ASSUME toks[id].kind = "personal" PROVE TokenAge(toks[id])' BY <1>1 DEF TokenAge
    <2>1. toks[id] \in Tokens BY <1>0 DEF AccessType, NoToken
    <2>2. toks[id].exp \in Int BY <2>1 DEF Tokens
    <2>3. TokenAge(toks[id]) BY <1>0 DEF AgeInv
    <2> QED BY <1>a, <1>h, <1>1, <1>2, <2>2, <2>3 DEF TokenAge
  <1>5. ASSUME NEW q \in Calls PROVE CallAge(calls[q])' /\ CallAnswer(calls[q])'
    <2> SUFFICES ASSUME calls[q].stage \in {"dialling", "answered"}
                 PROVE  CallAge(calls[q])' /\ CallAnswer(calls[q])'
      BY <1>1 DEF CallAge, CallAnswer
    <2>1. calls[q] \in CallStates BY <1>0 DEF AccessType
    <2>2. calls[q].start \in Int BY <2>1, CallShapes
    <2>3. CallAge(calls[q]) /\ CallAnswer(calls[q]) BY <1>0 DEF AgeInv, AnswerInv
    <2>4. CallAge(calls[q])'
      <3>1. /\ calls[q].start <= hour /\ hour <= calls[q].start + DialTimeout BY <2>3 DEF CallAge
      <3>2. ASSUME calls[q].for.kind = "personal"
            PROVE  /\ calls[q].for.groups \subseteq IdPGroups /\ TokenTTL > 0
                   /\ \A x \in calls[q].for.groups :
                        left'[x] = -1 \/ left'[x] > calls[q].start - SessionTTL - TokenTTL
        <4>1. /\ calls[q].for.groups \subseteq IdPGroups /\ TokenTTL > 0
              /\ \A x \in calls[q].for.groups :
                    left[x] = -1 \/ left[x] > calls[q].start - SessionTTL - TokenTTL
          BY <2>3, <3>2 DEF CallAge
        <4> QED BY <1>a, <1>h, <1>2, <2>2, <3>1, <4>1
      <3> QED BY <1>1, <3>1, <3>2 DEF CallAge
    <2>5. CallAnswer(calls[q])'
      <3> SUFFICES ASSUME calls[q].stage = "answered" PROVE CallAnswer(calls[q])' BY <1>1 DEF CallAnswer
      <3>1. calls[q].a \in Replies BY <2>1, CallShapes
      <3>2. calls[q].a.groups \subseteq IdPGroups BY <3>1 DEF Replies
      <3>3. calls[q].start <= hour BY <2>3 DEF CallAge
      <3> QED BY <1>h, <1>1, <1>2, <2>2, <2>3, <3>2, <3>3 DEF CallAnswer, TrueSince
    <2> QED BY <2>4, <2>5
  <1>6. WarmAnswer'
    <2> SUFFICES ASSUME warm # NoAnswer PROVE WarmAnswer' BY <1>1 DEF WarmAnswer
    <2>1. WarmAnswer /\ warm \in Warmed BY <1>0 DEF AnswerInv, WarmAnswer
    <2>2. warm.sent \in Int /\ warm.groups \subseteq IdPGroups BY <2>1 DEF Warmed
    <2> QED BY <1>h, <1>1, <1>2, <2>1, <2>2 DEF WarmAnswer, TrueSince
  <1>7. CacheAnswer'
    <2> SUFFICES ASSUME dcache # NoEntry PROVE CacheAnswer' BY <1>1 DEF CacheAnswer
    <2>1. CacheAnswer /\ dcache \in Entries BY <1>0 DEF AnswerInv, CacheAnswer
    <2>2. dcache.at \in Int /\ dcache.groups \subseteq IdPGroups BY <2>1 DEF Entries
    <2> QED BY <1>a, <1>h, <1>1, <1>2, <2>1, <2>2 DEF CacheAnswer, TrueSince
  <1> QED BY <1>t, <1>3, <1>4, <1>5, <1>6, <1>7 DEF AccessInv, AgeInv, AnswerInv

\* Nothing but the session, the access list and a login under way changes.
LEMMA SessionKeeps ==
    ASSUME AccessInv, UNCHANGED <<dirVars, toks, dcache, warm, calls, hour>>,
           sess' \in [groups : SUBSET IdPGroups, exp : Int], SessionAge(sess)'
    PROVE  AccessInv'
  <1>0. AccessType /\ AgeInv /\ AnswerInv BY DEF AccessInv
  <1>1. /\ left' = left /\ deleted' = deleted /\ lastDown' = lastDown /\ toks' = toks
        /\ dcache' = dcache /\ warm' = warm /\ calls' = calls /\ hour' = hour
    BY DEF dirVars
  <1>2. AccessType' BY <1>0, <1>1 DEF AccessType
  <1>3. AgeInv' BY <1>0, <1>1 DEF AgeInv, TokenAge, CallAge
  <1>4. \A q \in Calls : CallAnswer(calls[q])'
    BY <1>0, <1>1 DEF AnswerInv, CallAnswer, TrueSince
  <1>5. WarmAnswer' BY <1>0, <1>1 DEF AnswerInv, WarmAnswer, TrueSince
  <1>6. CacheAnswer' BY <1>0, <1>1 DEF AnswerInv, CacheAnswer, TrueSince
  <1> QED BY <1>2, <1>3, <1>4, <1>5, <1>6 DEF AccessInv, AnswerInv

\* A row of the token table is written or deleted; the call that did it ends.
LEMMA TokensKeep ==
    ASSUME AccessInv, UNCHANGED <<dirVars, sess, dcache, warm, hour>>,
           NEW id \in TokenIds, NEW t \in Tokens \cup {NoToken}, TokenAge(t),
           toks' = [toks EXCEPT ![id] = t],
           calls' \in [Calls -> CallStates], \A q \in Calls : calls'[q] \in {calls[q], NoCall}
    PROVE  AccessInv'
  <1>0. AccessType /\ AgeInv /\ AnswerInv BY DEF AccessInv
  <1>1. /\ left' = left /\ deleted' = deleted /\ lastDown' = lastDown
        /\ dcache' = dcache /\ warm' = warm /\ sess' = sess /\ hour' = hour
    BY DEF dirVars
  <1>2. AccessType' BY <1>0, <1>1 DEF AccessType
  <1>3. SessionAge(sess)' BY <1>0, <1>1 DEF AgeInv, SessionAge
  <1>4. ASSUME NEW i \in TokenIds PROVE TokenAge(toks[i])'
    <2>1. CASE i = id
      <3>1. toks'[i] = t BY <1>0, <2>1 DEF AccessType
      <3> QED BY <1>1, <3>1 DEF TokenAge
    <2>2. CASE i # id
      <3>1. toks'[i] = toks[i] BY <1>0, <2>2 DEF AccessType
      <3>2. TokenAge(toks[i]) BY <1>0 DEF AgeInv
      <3> QED BY <1>1, <3>1, <3>2 DEF TokenAge
    <2> QED BY <2>1, <2>2
  <1>5. ASSUME NEW q \in Calls PROVE CallAge(calls[q])' /\ CallAnswer(calls[q])'
    <2>1. CASE calls'[q] = NoCall BY <2>1 DEF CallAge, CallAnswer, NoCall
    <2>2. CASE calls'[q] = calls[q]
      <3>1. CallAge(calls[q]) /\ CallAnswer(calls[q]) BY <1>0 DEF AgeInv, AnswerInv
      <3> QED BY <1>1, <2>2, <3>1 DEF CallAge, CallAnswer, TrueSince
    <2> QED BY <2>1, <2>2
  <1>6. WarmAnswer' BY <1>0, <1>1 DEF AnswerInv, WarmAnswer, TrueSince
  <1>7. CacheAnswer' BY <1>0, <1>1 DEF AnswerInv, CacheAnswer, TrueSince
  <1> QED BY <1>2, <1>3, <1>4, <1>5, <1>6, <1>7 DEF AccessInv, AgeInv, AnswerInv

\* A step of a call or of the warmer: what it changes is as it must be.
LEMMA DirectoryKeeps ==
    ASSUME AccessInv, UNCHANGED <<left, deleted, sess, toks, hour>>,
           lastDown' \in {lastDown, hour}, calls' \in [Calls -> CallStates],
           \A q \in Calls : calls'[q] = calls[q] \/ (CallAge(calls[q])' /\ CallAnswer(calls[q])'),
           warm' = warm \/ WarmAnswer', dcache' = dcache \/ CacheAnswer'
    PROVE  AccessInv'
  <1>0. AccessType /\ AgeInv /\ AnswerInv BY DEF AccessInv
  <1>a. DialTimeout \in Nat /\ CacheTTL \in Nat BY AccessAssumption
  <1>h. hour \in Nat /\ lastDown \in Int BY <1>0 DEF AccessType
  <1>1. AccessType' BY <1>0, <1>h DEF AccessType
  <1>2. SessionAge(sess)' BY <1>0 DEF AgeInv, SessionAge
  <1>3. \A id \in TokenIds : TokenAge(toks[id])' BY <1>0 DEF AgeInv, TokenAge
  <1>4. ASSUME NEW q \in Calls PROVE CallAge(calls[q])' /\ CallAnswer(calls[q])'
    <2> SUFFICES ASSUME calls'[q] = calls[q] PROVE CallAge(calls[q])' /\ CallAnswer(calls[q])'
      OBVIOUS
    <2>1. CallAge(calls[q]) /\ CallAnswer(calls[q]) BY <1>0 DEF AgeInv, AnswerInv
    <2>2. CallAge(calls[q])' BY <2>1 DEF CallAge
    <2>3. CallAnswer(calls[q])'
      <3> SUFFICES ASSUME calls[q].stage = "answered" PROVE CallAnswer(calls[q])' BY DEF CallAnswer
      <3>1. calls[q].start \in Int BY <1>0, CallShapes DEF AccessType
      <3>2. calls[q].start <= hour BY <2>1 DEF CallAge
      <3> QED BY <1>h, <2>1, <3>1, <3>2 DEF CallAnswer, TrueSince
    <2> QED BY <2>2, <2>3
  <1>5. WarmAnswer'
    <2> SUFFICES ASSUME warm' = warm, warm # NoAnswer PROVE WarmAnswer' BY DEF WarmAnswer
    <2>1. WarmAnswer /\ warm \in Warmed BY <1>0 DEF AnswerInv, WarmAnswer
    <2>2. warm.sent \in Int BY <2>1 DEF Warmed
    <2> QED BY <1>h, <2>1, <2>2 DEF WarmAnswer, TrueSince
  <1>6. CacheAnswer'
    <2> SUFFICES ASSUME dcache' = dcache, dcache # NoEntry PROVE CacheAnswer' BY DEF CacheAnswer
    <2>1. CacheAnswer /\ dcache \in Entries BY <1>0 DEF AnswerInv, CacheAnswer
    <2>2. dcache.at \in Int BY <2>1 DEF Entries
    <2> QED BY <1>a, <1>h, <2>1, <2>2 DEF CacheAnswer, TrueSince
  <1> QED BY <1>1, <1>2, <1>3, <1>4, <1>5, <1>6 DEF AccessInv, AgeInv, AnswerInv

\* The login, the logout, edits of the access list, and nothing at all.
LEMMA LoginKeeps ==
    ASSUME AccessInv, AccessEdited \/ Login \/ Callback \/ Logout \/ UNCHANGED accessVars
    PROVE  AccessInv'
  <1>0. AccessType /\ AgeInv /\ SessionAge(sess) /\ hour \in Nat /\ SessionTTL \in Nat
    BY AccessAssumption DEF AccessInv, AccessType, AgeInv
  <1>1. UNCHANGED <<dirVars, toks, dcache, warm, calls, hour>>
    BY DEF AccessEdited, Login, Callback, Logout, accessVars
  <1>l. left' = left /\ hour' = hour BY <1>1 DEF dirVars
  <1>2. /\ sess' \in [groups : SUBSET IdPGroups, exp : Int]
        /\ SessionAge(sess)'
    <2>1. CASE sess' = sess BY <1>0, <1>l, <2>1 DEF AccessType, SessionAge
    <2>2. CASE sess' = NoSession BY <1>0, <1>l, <2>2 DEF NoSession, SessionAge
    <2>3. ASSUME NEW groups \in SUBSET Memberships, sess' = FreshSession(groups, hour)
          PROVE  /\ sess' \in [groups : SUBSET IdPGroups, exp : Int]
                 /\ SessionAge(sess)'
      <3>1. groups \subseteq IdPGroups /\ \A g \in groups : left[g] = -1 BY DEF Memberships
      <3>2. sess' = [groups |-> groups, exp |-> hour + SessionTTL] BY <2>3 DEF FreshSession
      <3> QED BY <1>0, <1>l, <3>1, <3>2 DEF SessionAge
    <2>4. CASE Callback
      <3>1. CASE UNCHANGED sess BY <2>1, <3>1
      <3>2. CASE sess' # sess
        <4>1. PICK claims \in [{"groups", "roles"} -> {{}, Memberships}], overage \in BOOLEAN :
                LET ask    == groupsFromClaims(claims) = {} /\ overage
                    groups == IF ask THEN Memberships ELSE groupsFromClaims(claims)
                IN  sess' = FreshSession(groups, hour)
          BY <2>4, <3>2 DEF Callback
        <4>2. groupsFromClaims(claims) \in SUBSET Memberships
          <5>1. claims["groups"] \in {{}, Memberships} /\ claims["roles"] \in {{}, Memberships}
            BY <4>1
          <5> QED BY <5>1 DEF groupsFromClaims
        <4>3. PICK groups \in SUBSET Memberships : sess' = FreshSession(groups, hour)
          BY <4>1, <4>2
        <4> QED BY <2>3, <4>3
      <3> QED BY <3>1, <3>2
    <2> QED BY <2>1, <2>2, <2>4 DEF AccessEdited, Login, Logout, accessVars
  <1> QED BY <1>1, <1>2, SessionKeeps

\* Who may mint a personal token: the person through a session that holds, or
\* break-glass, which is in no group.
Minter(p) ==
    /\ p.of \in Actors
    /\ p.groups \subseteq IdPGroups
    /\ \A g \in p.groups : left[g] = -1 \/ left[g] >= hour - SessionTTL

LEMMA MintersAreFresh ==
    ASSUME AccessInv
    PROVE  Minter(Glass) /\ (SessionUser => Minter(Human))
  <1>0. /\ AccessType /\ SessionAge(sess) /\ SessionTTL \in Nat /\ hour \in Nat
        /\ sess.exp \in Int /\ sess.groups \subseteq IdPGroups
        /\ left \in [IdPGroups -> Int]
    BY AccessAssumption DEF AccessInv, AccessType, AgeInv
  <1>1. Minter(Glass) BY DEF Minter, Glass, Actors
  <1>2. ASSUME SessionUser PROVE Minter(Human)
    <2>1. hour <= sess.exp BY <1>2 DEF SessionUser
    <2>2. Human.of = "me" /\ Human.groups = sess.groups BY DEF Human
    <2>3. \A g \in sess.groups : left[g] = -1 \/ left[g] >= hour - SessionTTL
      BY <1>0, <2>1 DEF SessionAge
    <2> QED BY <1>0, <2>2, <2>3 DEF Minter, Actors
  <1> QED BY <1>1, <1>2

\* A token takes over what its minter has.
LEMMA MintKeeps ==
    ASSUME AccessInv, NEW m \in MintRequests, NEW tok, Mint(m, tok),
           \/ \E p : Minter(p) /\ tok = Personal(p, m.cap)
           \/ \E groups \in SUBSET m.groups : tok = ServiceToken(groups, m.cap),
           calls' \in [Calls -> CallStates], \A q \in Calls : calls'[q] \in {calls[q], NoCall}
    PROVE  AccessInv'
  <1>0. /\ AccessType /\ SessionTTL \in Nat /\ TokenTTL \in Nat /\ hour \in Nat
        /\ m.ttl \in Nat /\ m.ttl <= TokenTTL /\ left \in [IdPGroups -> Int]
    BY AccessAssumption DEF AccessInv, AccessType
  <1> DEFINE t == [tok EXCEPT !.exp = hour + m.ttl]
  <1>1. /\ toks' = [toks EXCEPT ![m.id] = t]
        /\ UNCHANGED <<dirVars, sess, dcache, warm, hour>>
    BY DEF Mint
  <1>2. m.id \in TokenIds BY DEF TokenIds
  <1>c. m.cap \in Ceilings BY DEF Ceilings
  <1>3. t \in Tokens /\ TokenAge(t)
    <2>1. ASSUME NEW p, Minter(p), tok = Personal(p, m.cap)
          PROVE  t \in Tokens /\ TokenAge(t)
      <3>1. t = [kind |-> "personal", of |-> p.of, groups |-> p.groups, cap |-> m.cap, exp |-> hour + m.ttl]
        BY <2>1 DEF Personal
      <3>2. p.of \in Actors /\ p.groups \subseteq IdPGroups BY <2>1 DEF Minter
      <3>3. t \in Tokens BY <1>0, <1>c, <3>1, <3>2 DEF Tokens, GroupNames
      <3>4. \A g \in p.groups : left[g] = -1 \/ left[g] >= hour + m.ttl - SessionTTL - TokenTTL
        BY <1>0, <2>1, <3>2 DEF Minter
      <3>5. t.kind = "personal" /\ t.groups = p.groups /\ t.exp = hour + m.ttl BY <3>1
      <3> HIDE DEF t
      <3>6. TokenAge(t) BY <1>0, <3>2, <3>4, <3>5 DEF TokenAge
      <3> QED BY <3>3, <3>6
    <2>2. ASSUME NEW groups \in SUBSET m.groups, tok = ServiceToken(groups, m.cap)
          PROVE  t \in Tokens /\ TokenAge(t)
      <3>1. t = [kind |-> "service", of |-> "svc", groups |-> groups, cap |-> m.cap, exp |-> hour + m.ttl]
        BY <2>2 DEF ServiceToken
      <3>2. groups \subseteq GroupNames BY DEF GroupNames
      <3> QED BY <1>0, <1>c, <3>1, <3>2 DEF Tokens, Actors, TokenAge
    <2> QED BY <2>1, <2>2
  <1> HIDE DEF t
  <1> QED BY <1>1, <1>2, <1>3, TokensKeep

\* A deleted row is no token.
LEMMA DropKeeps ==
    ASSUME AccessInv, NEW id \in TokenIds, Drop(id),
           calls' \in [Calls -> CallStates], \A q \in Calls : calls'[q] \in {calls[q], NoCall}
    PROVE  AccessInv'
  <1>1. TokenAge(NoToken) BY DEF TokenAge, NoToken
  <1> QED BY <1>1, TokensKeep DEF Drop

\* The console's forms.
LEMMA FormsKeep ==
    ASSUME AccessInv,
           \/ \E m \in MintRequests : postProfileTokenMint(m) \/ postServiceAccountMint(m)
           \/ \E id \in TokenIds : postProfileTokenRevoke(id) \/ postServiceAccountRevoke(id)
    PROVE  AccessInv'
  <1>0. calls \in [Calls -> CallStates] BY DEF AccessInv, AccessType
  <1>1. ASSUME NEW m \in MintRequests, postProfileTokenMint(m) PROVE AccessInv'
    <2>1. Minter(Human) BY <1>1, MintersAreFresh DEF postProfileTokenMint, authed
    <2>2. Mint(m, Personal(Human, m.cap)) /\ calls' = calls BY <1>1 DEF postProfileTokenMint
    <2> QED BY <1>0, <2>1, <2>2, MintKeeps
  <1>2. ASSUME NEW m \in MintRequests, postServiceAccountMint(m) PROVE AccessInv'
    <2> DEFINE gs == m.groups \cap {b.who : b \in adoc.access}
    <2>1. Mint(m, ServiceToken(gs, m.cap)) /\ calls' = calls BY <1>2 DEF postServiceAccountMint
    <2>2. gs \in SUBSET m.groups OBVIOUS
    <2> HIDE DEF gs
    <2> QED BY <1>0, <2>1, <2>2, MintKeeps
  <1>3. ASSUME NEW id \in TokenIds, postProfileTokenRevoke(id) \/ postServiceAccountRevoke(id)
        PROVE  AccessInv'
    <2>1. Drop(id) /\ calls' = calls BY <1>3 DEF postProfileTokenRevoke, postServiceAccountRevoke
    <2> QED BY <1>0, <2>1, DropKeeps
  <1> QED BY <1>1, <1>2, <1>3

\* The API's handlers: a caller that came in with a token mints nothing.
LEMMA RequestsKeep ==
    ASSUME AccessInv, NEW q \in Calls, NEW m \in MintRequests, Handle(q, m)
    PROVE  AccessInv'
  <1>0. calls \in [Calls -> CallStates] BY DEF AccessInv, AccessType
  <1>1. ASSUME NEW p \in authenticate(q),
               calls' = [calls EXCEPT ![q] = IF p.bearer /\ ~p.service THEN NoCall ELSE @],
               postToken(p, m) \/ deleteToken(p, m.id)
        PROVE  AccessInv'
    <2>1. calls' \in [Calls -> CallStates] /\ \A x \in Calls : calls'[x] \in {calls[x], NoCall}
      BY <1>0, <1>1 DEF CallStates
    <2>2. CASE deleteToken(p, m.id)
      <3>1. Drop(m.id) /\ m.id \in TokenIds BY <2>2 DEF deleteToken, TokenIds
      <3> QED BY <2>1, <3>1, DropKeeps
    <2>3. CASE postToken(p, m)
      <3>1. ~p.bearer \/ p.service BY <2>3 DEF postToken
      <3>2. Minter(p)
        <4>1. CASE p = Glass BY <4>1, MintersAreFresh
        <4>2. CASE SessionUser /\ p = Human BY <4>2, MintersAreFresh
        <4>3. CASE calls[q].stage = "in" /\ p = calls[q].who
          <5>1. calls[q] \in Inside BY <1>0, <4>3, CallShapes
          <5>2. p.bearer = TRUE /\ p.service = FALSE BY <4>3, <5>1 DEF Inside
          <5> QED BY <3>1, <5>2
        <4> QED BY <4>1, <4>2, <4>3 DEF authenticate
      <3>3. CASE Mint(m, Personal(p, m.cap)) BY <2>1, <3>2, <3>3, MintKeeps
      <3>4. CASE Mint(m, ServiceToken(m.groups, m.cap))
        <4>1. m.groups \in SUBSET m.groups OBVIOUS
        <4> QED BY <2>1, <3>4, <4>1, MintKeeps
      <3> QED BY <2>3, <3>3, <3>4 DEF postToken
    <2> QED BY <1>1, <2>2, <2>3
  <1> QED BY <1>1 DEF Handle

\* A call with the list, or the error, is let in with what the list leaves of its
\* token's groups; the browser's is over.
LEMMA ListedLetsIn ==
    ASSUME calls \in [Calls -> CallStates], NEW q \in Calls,
           NEW ask \in Users \cup {Browse}, NEW a, Listed(q, ask, a)
    PROVE  /\ calls' \in [Calls -> CallStates]
           /\ \A x \in Calls : x # q => calls'[x] = calls[x]
           /\ calls'[q].stage \in {"idle", "in"}
           /\ calls'[q].stage = "in" =>
                /\ ask \in Users /\ calls'[q].kind = ask.kind
                /\ calls'[q].who.groups = IF a.err = "ok" THEN ask.groups \cap a.groups ELSE ask.groups
  <1> DEFINE gs == IF a.err = "ok" THEN ask.groups \cap a.groups ELSE ask.groups
             w  == [of |-> ask.of, bearer |-> TRUE, service |-> FALSE, cap |-> ask.cap, groups |-> gs]
             in == [stage |-> "in", kind |-> ask.kind, who |-> w]
  <1>1. calls' = [calls EXCEPT ![q] = IF ask.kind = "browse" THEN NoCall ELSE in] BY DEF Listed
  <1>2. in.stage = "in" /\ in.kind = ask.kind /\ in.who.groups = gs OBVIOUS
  <1>3. CASE ask.kind = "browse" BY <1>1, <1>3 DEF CallStates, NoCall
  <1>4. CASE ask.kind # "browse"
    <2>1. ask \in Users BY <1>4 DEF Browse
    <2>2. /\ ask.kind \in {"personal", "service"} /\ ask.of \in Actors /\ ask.cap \in Ceilings
          /\ gs \in SUBSET GroupNames
      BY <2>1 DEF Users
    <2>3. in \in Inside BY <2>2 DEF Inside
    <2>4. calls' = [calls EXCEPT ![q] = in] BY <1>1, <1>4
    <2> HIDE DEF gs, in
    <2>5. calls'[q] = in /\ calls' \in [Calls -> CallStates] BY <2>3, <2>4 DEF CallStates
    <2>6. \A x \in Calls : x # q => calls'[x] = calls[x] BY <2>4
    <2> QED BY <1>2, <2>1, <2>5, <2>6 DEF gs
  <1> QED BY <1>3, <1>4

\* A token that verifies names nothing left longer ago than a session and a token
\* last.
LEMMA VerifiedIsRecent ==
    ASSUME AccessInv, NEW id \in TokenIds, Verified(id)
    PROVE  /\ TokenUser(id) \in Users
           /\ TokenUser(id).kind = "personal" =>
                /\ TokenTTL > 0
                /\ TokenUser(id).groups \subseteq IdPGroups
                /\ \A g \in TokenUser(id).groups : left[g] = -1 \/ left[g] > hour - SessionTTL - TokenTTL
  <1>0. /\ SessionTTL \in Nat /\ TokenTTL \in Nat /\ hour \in Nat /\ left \in [IdPGroups -> Int]
        /\ toks[id] \in Tokens /\ TokenAge(toks[id])
    BY AccessAssumption DEF AccessInv, AccessType, AgeInv, Verified
  <1>1. toks[id].exp \in Int /\ hour < toks[id].exp BY <1>0 DEF Tokens, Verified
  <1>2. TokenUser(id) \in Users BY <1>0 DEF TokenUser, Users, Tokens
  <1>3. TokenUser(id).kind = toks[id].kind /\ TokenUser(id).groups = toks[id].groups BY DEF TokenUser
  <1>4. ASSUME toks[id].kind = "personal"
        PROVE  /\ TokenTTL > 0
               /\ toks[id].groups \subseteq IdPGroups
               /\ \A g \in toks[id].groups : left[g] = -1 \/ left[g] > hour - SessionTTL - TokenTTL
    BY <1>0, <1>1, <1>4 DEF TokenAge
  <1> QED BY <1>2, <1>3, <1>4

\* A query goes out, at once, for a caller whose groups are recent.
LEMMA DialsAreRecent ==
    ASSUME AccessInv, NEW q \in Calls, NEW ask \in Users \cup {Browse}, hour' = hour, left' = left,
           ask.kind = "personal" =>
                /\ TokenTTL > 0
                /\ ask.groups \subseteq IdPGroups
                /\ \A g \in ask.groups : left[g] = -1 \/ left[g] > hour - SessionTTL - TokenTTL,
           calls' = [calls EXCEPT ![q] = [stage |-> "dialling", for |-> ask, start |-> hour]]
    PROVE  /\ calls' \in [Calls -> CallStates]
           /\ \A x \in Calls : x # q => calls'[x] = calls[x]
           /\ CallAge(calls[q])' /\ CallAnswer(calls[q])' /\ calls'[q].stage = "dialling"
  <1> DEFINE c == [stage |-> "dialling", for |-> ask, start |-> hour]
  <1>0. hour \in Nat /\ DialTimeout \in Nat /\ calls \in [Calls -> CallStates]
    BY AccessAssumption DEF AccessInv, AccessType
  <1>1. c \in Dialling BY <1>0 DEF Dialling
  <1>2. c.stage = "dialling" /\ c.for = ask /\ c.start = hour OBVIOUS
  <1>3. calls' = [calls EXCEPT ![q] = c] OBVIOUS
  <1> HIDE DEF c
  <1>4. /\ calls' \in [Calls -> CallStates] /\ calls'[q] = c
        /\ \A x \in Calls : x # q => calls'[x] = calls[x]
    BY <1>0, <1>1, <1>3 DEF CallStates
  <1>5. CallAge(calls[q])' BY <1>0, <1>2, <1>4 DEF CallAge
  <1>6. CallAnswer(calls[q])' BY <1>2, <1>4 DEF CallAnswer
  <1> QED BY <1>2, <1>4, <1>5, <1>6

\* A call asks for the list: a fresh entry answers it, or its query goes out.
LEMMA AsksKeep ==
    ASSUME AccessInv, NEW q \in Calls,
           getDirectoryGroups(q) \/ HandleOther(q) \/ \E id \in TokenIds : Authenticate(q, id)
    PROVE  AccessInv'
  <1>0. calls \in [Calls -> CallStates] BY DEF AccessInv, AccessType
  <1>1. /\ left' = left /\ deleted' = deleted /\ lastDown' = lastDown /\ hour' = hour
        /\ sess' = sess /\ toks' = toks /\ dcache' = dcache /\ warm' = warm
    BY DEF getDirectoryGroups, HandleOther, Authenticate, dirVars
  <1>2. ASSUME calls' \in [Calls -> CallStates], \A x \in Calls : x # q => calls'[x] = calls[x],
               CallAge(calls[q])' /\ CallAnswer(calls[q])'
        PROVE  AccessInv'
    BY <1>1, <1>2, DirectoryKeeps
  <1>3. ASSUME calls' \in [Calls -> CallStates], \A x \in Calls : x # q => calls'[x] = calls[x],
               calls'[q].stage \in {"idle", "in"}
        PROVE  AccessInv'
    <2>1. CallAge(calls[q])' /\ CallAnswer(calls[q])' BY <1>3 DEF CallAge, CallAnswer
    <2> QED BY <1>2, <1>3, <2>1
  <1>4. ASSUME NEW ask \in Users \cup {Browse}, ListGroups(q, ask),
               ask.kind = "personal" =>
                 /\ TokenTTL > 0
                 /\ ask.groups \subseteq IdPGroups
                 /\ \A g \in ask.groups : left[g] = -1 \/ left[g] > hour - SessionTTL - TokenTTL
        PROVE  AccessInv'
    <2>1. CASE Listed(q, ask, dcache) BY <1>0, <1>3, <1>4, <2>1, ListedLetsIn
    <2>2. CASE calls' = [calls EXCEPT ![q] = [stage |-> "dialling", for |-> ask, start |-> hour]]
      BY <1>1, <1>2, <1>4, <2>2, DialsAreRecent
    <2> QED BY <1>4, <2>1, <2>2 DEF ListGroups
  <1>5. CASE getDirectoryGroups(q)
    <2>1. ListGroups(q, Browse) BY <1>5 DEF getDirectoryGroups, Browse
    <2>2. Browse.kind # "personal" BY DEF Browse
    <2> QED BY <1>4, <2>1, <2>2
  <1>6. CASE HandleOther(q)
    <2>1. calls' = [calls EXCEPT ![q] = NoCall] BY <1>6 DEF HandleOther
    <2>2. calls' \in [Calls -> CallStates] /\ calls'[q] = NoCall BY <1>0, <2>1 DEF CallStates
    <2>3. \A x \in Calls : x # q => calls'[x] = calls[x] BY <1>0, <2>1
    <2> QED BY <1>3, <2>2, <2>3 DEF NoCall
  <1>7. ASSUME NEW id \in TokenIds, Authenticate(q, id) PROVE AccessInv'
    <2>1. Verified(id) BY <1>7 DEF Authenticate
    <2>2. CASE Listed(q, TokenUser(id), NoAnswer)
      BY <1>0, <1>3, <2>1, <2>2, VerifiedIsRecent, ListedLetsIn
    <2>3. CASE ListGroups(q, TokenUser(id)) BY <1>4, <2>1, <2>3, VerifiedIsRecent
    <2> QED BY <1>7, <2>2, <2>3 DEF Authenticate
  <1> QED BY <1>5, <1>6, <1>7

\* What a query reads is there now, and a refusal is noted.
LEMMA AnswersAreCurrent ==
    ASSUME AccessInv, NEW a \in Answers, Refusal(a), hour' = hour, deleted' = deleted
    PROVE  /\ a \in Replies /\ lastDown' \in {lastDown, hour}
           /\ a.err = "ok" => \A g \in a.groups : deleted[g] = -1
           /\ a.err = "refused" => lastDown' = hour
  <1>1. CASE a \in {[err |-> e, groups |-> {}] : e \in {"timeout", "refused"}}
    BY <1>1 DEF Replies, Refusal
  <1>2. ASSUME NEW s \in Listing, a = [err |-> "ok", groups |-> s]
        PROVE  /\ a \in Replies /\ lastDown' \in {lastDown, hour}
               /\ a.err = "ok" => \A g \in a.groups : deleted[g] = -1
               /\ a.err = "refused" => lastDown' = hour
    <2>1. s \subseteq {g \in IdPGroups : deleted[g] = -1} BY DEF Listing
    <2> QED BY <1>2, <2>1 DEF Replies, Refusal
  <1> QED BY <1>1, <1>2 DEF Answers

\* The directory answers a call: what it lists was there after the query went out.
LEMMA DialAnswerKeeps ==
    ASSUME AccessInv, NEW q \in Calls, DialAnswer(q)
    PROVE  AccessInv'
  <1>0. /\ calls \in [Calls -> CallStates] /\ hour \in Nat /\ lastDown \in Int
        /\ deleted \in [IdPGroups -> Int] /\ CallAge(calls[q])
    BY DEF AccessInv, AccessType, AgeInv
  <1>1. /\ left' = left /\ deleted' = deleted /\ hour' = hour
        /\ sess' = sess /\ toks' = toks /\ dcache' = dcache /\ warm' = warm
        /\ calls[q].stage = "dialling"
    BY DEF DialAnswer
  <1>2. PICK a \in Answers :
            /\ Refusal(a)
            /\ calls' = [calls EXCEPT ![q] =
                 [stage |-> "answered", for |-> calls[q].for, start |-> calls[q].start, a |-> a]]
    BY DEF DialAnswer
  <1>3. /\ a \in Replies /\ lastDown' \in {lastDown, hour}
        /\ a.err = "ok" => \A g \in a.groups : deleted[g] = -1
        /\ a.err = "refused" => lastDown' = hour
    BY <1>1, <1>2, AnswersAreCurrent
  <1> DEFINE c == [stage |-> "answered", for |-> calls[q].for, start |-> calls[q].start, a |-> a]
  <1>4. /\ calls[q].start \in Int /\ calls[q].for \in Users \cup {Browse}
        /\ calls[q].start <= hour
    BY <1>0, <1>1, CallShapes DEF CallAge
  <1>5. c \in Answered BY <1>3, <1>4 DEF Answered
  <1>6. c.stage = "answered" /\ c.for = calls[q].for /\ c.start = calls[q].start /\ c.a = a OBVIOUS
  <1>7. calls' = [calls EXCEPT ![q] = c] BY <1>2
  <1> HIDE DEF c
  <1>8. /\ calls' \in [Calls -> CallStates] /\ calls'[q] = c
        /\ \A x \in Calls : x # q => calls'[x] = calls[x]
    BY <1>0, <1>5, <1>7 DEF CallStates
  <1>9. CallAge(calls[q])' BY <1>0, <1>1, <1>6, <1>8 DEF CallAge
  <1>10. CallAnswer(calls[q])'
    <2>1. TrueSince(a, calls[q].start)' BY <1>0, <1>1, <1>3, <1>4, <1>6, <1>8 DEF TrueSince
    <2> QED BY <1>6, <1>8, <2>1 DEF CallAnswer
  <1> QED BY <1>1, <1>3, <1>8, <1>9, <1>10, DirectoryKeeps

\* An answer enters the cache, unless the query ran out of time, under a stamp
\* that is at most one query younger than what was read.
LEMMA KeptIsTrue ==
    ASSUME AccessInv, UNCHANGED <<deleted, lastDown, hour>>,
           NEW a, a.err \in {"ok", "timeout", "refused"}, a.groups \in SUBSET IdPGroups,
           NEW at \in Int, NEW from \in Int, at <= hour, at - DialTimeout <= from,
           TrueSince(a, from), dcache' = Kept(a, at)
    PROVE  dcache' = dcache \/ CacheAnswer'
  <1>0. /\ DialTimeout \in Nat /\ CacheTTL \in Nat /\ hour \in Nat /\ lastDown \in Int
        /\ deleted \in [IdPGroups -> Int]
    BY AccessAssumption DEF AccessInv, AccessType
  <1> SUFFICES ASSUME a.err # "timeout" PROVE CacheAnswer' BY DEF Kept
  <1> DEFINE n == [err |-> a.err, groups |-> a.groups, at |-> at]
  <1>1. dcache' = n BY DEF Kept
  <1>2. n \in Entries /\ n.err = a.err /\ n.groups = a.groups /\ n.at = at BY DEF Entries
  <1> HIDE DEF n
  <1>3. a.err = "ok" => \A g \in a.groups : deleted[g] = -1 \/ deleted[g] >= at - DialTimeout
    BY <1>0 DEF TrueSince
  <1>4. a.err = "refused" => lastDown # -1 /\ lastDown >= at - DialTimeout
    BY <1>0 DEF TrueSince
  <1> QED BY <1>1, <1>2, <1>3, <1>4 DEF CacheAnswer, TrueSince

\* A query returns and the call with it.
LEMMA DialReturnKeeps ==
    ASSUME AccessInv, NEW q \in Calls, DialReturn(q)
    PROVE  AccessInv'
  <1>0. /\ calls \in [Calls -> CallStates] /\ DialTimeout \in Nat /\ hour \in Nat
        /\ CallAge(calls[q]) /\ CallAnswer(calls[q])
    BY AccessAssumption DEF AccessInv, AccessType, AgeInv, AnswerInv
  <1>1. /\ left' = left /\ deleted' = deleted /\ lastDown' = lastDown /\ hour' = hour
        /\ sess' = sess /\ toks' = toks /\ warm' = warm
        /\ calls[q].stage = "answered"
        /\ dcache' = Kept(calls[q].a, calls[q].start)
        /\ Listed(q, calls[q].for, calls[q].a)
    BY DEF DialReturn, dirVars
  <1>2. /\ calls[q].start \in Int /\ calls[q].for \in Users \cup {Browse} /\ calls[q].a \in Replies
    BY <1>0, <1>1, CallShapes
  <1>3. /\ calls[q].start <= hour /\ TrueSince(calls[q].a, calls[q].start)
    BY <1>0, <1>1 DEF CallAge, CallAnswer
  <1>4. calls[q].a.err \in {"ok", "timeout", "refused"} /\ calls[q].a.groups \in SUBSET IdPGroups
    BY <1>2 DEF Replies
  <1>5. calls[q].start - DialTimeout <= calls[q].start BY <1>0, <1>2
  <1>6. dcache' = dcache \/ CacheAnswer' BY <1>1, <1>2, <1>3, <1>4, <1>5, KeptIsTrue
  <1>7. /\ calls' \in [Calls -> CallStates] /\ \A x \in Calls : x # q => calls'[x] = calls[x]
        /\ calls'[q].stage \in {"idle", "in"}
    BY <1>0, <1>1, <1>2, ListedLetsIn
  <1>8. CallAge(calls[q])' /\ CallAnswer(calls[q])' BY <1>7 DEF CallAge, CallAnswer
  <1> QED BY <1>1, <1>6, <1>7, <1>8, DirectoryKeeps

\* The warmer reads, and later stores under the time of storing.
LEMMA WarmKeeps ==
    ASSUME AccessInv, WarmRead \/ WarmStore
    PROVE  AccessInv'
  <1>0. /\ calls \in [Calls -> CallStates] /\ DialTimeout \in Nat /\ hour \in Nat
        /\ lastDown \in Int /\ deleted \in [IdPGroups -> Int] /\ WarmAnswer
    BY AccessAssumption DEF AccessInv, AccessType, AnswerInv
  <1>1. /\ left' = left /\ deleted' = deleted /\ hour' = hour
        /\ sess' = sess /\ toks' = toks /\ calls' = calls
    BY DEF WarmRead, WarmStore, dirVars
  <1>2. CASE WarmRead
    <2>1. PICK a \in Answers : warm' = [err |-> a.err, groups |-> a.groups, sent |-> hour] /\ Refusal(a)
      BY <1>2 DEF WarmRead
    <2>2. dcache' = dcache BY <1>2 DEF WarmRead
    <2>3. /\ a \in Replies /\ lastDown' \in {lastDown, hour}
          /\ a.err = "ok" => \A g \in a.groups : deleted[g] = -1
          /\ a.err = "refused" => lastDown' = hour
      BY <1>1, <2>1, AnswersAreCurrent
    <2>4. /\ warm' \in Warmed /\ warm'.err = a.err /\ warm'.groups = a.groups /\ warm'.sent = hour
      BY <1>0, <2>1, <2>3 DEF Warmed, Replies
    <2>5. WarmAnswer' BY <1>0, <1>1, <2>3, <2>4 DEF WarmAnswer, TrueSince
    <2> QED BY <1>0, <1>1, <2>2, <2>3, <2>5, DirectoryKeeps
  <1>3. CASE WarmStore
    <2>1. warm # NoAnswer /\ warm' = NoAnswer /\ dcache' = Kept(warm, hour) /\ lastDown' = lastDown
      BY <1>3 DEF WarmStore, dirVars
    <2>2. /\ warm \in Warmed /\ warm.sent <= hour /\ hour <= warm.sent + DialTimeout
          /\ TrueSince(warm, warm.sent)
      BY <1>0, <2>1 DEF WarmAnswer
    <2>3. warm.err \in {"ok", "timeout", "refused"} /\ warm.groups \in SUBSET IdPGroups /\ warm.sent \in Int
      BY <2>2 DEF Warmed
    <2>4. hour \in Int /\ hour <= hour /\ hour - DialTimeout <= warm.sent BY <1>0, <2>2, <2>3
    <2>5. dcache' = dcache \/ CacheAnswer' BY <1>1, <2>1, <2>2, <2>3, <2>4, KeptIsTrue
    <2>6. WarmAnswer' BY <2>1 DEF WarmAnswer
    <2> QED BY <1>0, <1>1, <2>1, <2>5, <2>6, DirectoryKeeps
  <1> QED BY <1>2, <1>3

\* No query outlives its deadline, and a refusal is remembered for as long as an
\* entry that holds it may answer.
LEMMA HourKeeps ==
    ASSUME AccessInv, HourPasses
    PROVE  AccessInv'
  <1>0. AccessType /\ AgeInv /\ AnswerInv BY DEF AccessInv
  <1>a. /\ SessionTTL \in Nat /\ TokenTTL \in Nat /\ DialTimeout \in Nat /\ CacheTTL \in Nat
        /\ hour \in Nat /\ lastDown \in Int
    BY <1>0, AccessAssumption DEF AccessType
  <1>1. /\ left' = left /\ deleted' = deleted /\ toks' = toks /\ warm' = warm /\ calls' = calls
        /\ hour' = hour + 1
        /\ sess' = IF hour' > sess.exp THEN NoSession ELSE sess
        /\ dcache' = IF hour' - dcache.at >= CacheTTL THEN NoEntry ELSE dcache
        /\ lastDown' = IF hour' - lastDown > CacheTTL + DialTimeout THEN -1 ELSE lastDown
    BY DEF HourPasses
  <1>2. AccessType'
    <2>1. sess' \in [groups : SUBSET IdPGroups, exp : Int] BY <1>0, <1>1 DEF AccessType, NoSession
    <2>2. hour' \in Nat /\ lastDown' \in Int BY <1>a, <1>1
    <2> QED BY <1>0, <1>1, <2>1, <2>2 DEF AccessType
  <1>3. SessionAge(sess)'
    <2>1. CASE sess' = NoSession BY <1>a, <1>1, <2>1 DEF SessionAge, NoSession
    <2>2. CASE sess' = sess
      <3>1. sess.exp \in Int /\ SessionAge(sess) BY <1>0 DEF AccessType, AgeInv
      <3> QED BY <1>a, <1>1, <2>2, <3>1 DEF SessionAge
    <2> QED BY <1>1, <2>1, <2>2
  <1>4. ASSUME NEW id \in TokenIds PROVE TokenAge(toks[id])'
    <2> SUFFICES ASSUME toks[id].kind = "personal" PROVE TokenAge(toks[id])' BY <1>1 DEF TokenAge
    <2>1. toks[id] \in Tokens BY <1>0 DEF AccessType, NoToken
    <2>2. toks[id].exp \in Int BY <2>1 DEF Tokens
    <2>3. TokenAge(toks[id]) BY <1>0 DEF AgeInv
    <2> QED BY <1>a, <1>1, <2>2, <2>3 DEF TokenAge
  <1>5. ASSUME NEW q \in Calls PROVE CallAge(calls[q])' /\ CallAnswer(calls[q])'
    <2> SUFFICES ASSUME calls[q].stage \in {"dialling", "answered"}
                 PROVE  CallAge(calls[q])' /\ CallAnswer(calls[q])'
      BY <1>1 DEF CallAge, CallAnswer
    <2>1. calls[q].start \in Int BY <1>0, CallShapes DEF AccessType
    <2>2. CallAge(calls[q]) /\ CallAnswer(calls[q]) BY <1>0 DEF AgeInv, AnswerInv
    <2>3. hour < calls[q].start + DialTimeout BY DEF HourPasses
    <2>4. CallAge(calls[q])' BY <1>a, <1>1, <2>1, <2>2, <2>3 DEF CallAge
    <2>5. calls[q].start <= lastDown => lastDown' = lastDown BY <1>a, <1>1, <2>1, <2>3
    <2>6. CallAnswer(calls[q])' BY <1>1, <2>2, <2>5 DEF CallAnswer, TrueSince
    <2> QED BY <2>4, <2>6
  <1>6. WarmAnswer'
    <2> SUFFICES ASSUME warm # NoAnswer PROVE WarmAnswer' BY <1>1 DEF WarmAnswer
    <2>1. WarmAnswer /\ warm \in Warmed BY <1>0 DEF AnswerInv, WarmAnswer
    <2>2. warm.sent \in Int /\ hour < warm.sent + DialTimeout BY <2>1 DEF Warmed, HourPasses
    <2>3. warm.sent <= lastDown => lastDown' = lastDown BY <1>a, <1>1, <2>2
    <2>4. TrueSince(warm, warm.sent)' BY <1>1, <2>1, <2>3 DEF WarmAnswer, TrueSince
    <2>5. warm.sent <= hour' /\ hour' <= warm.sent + DialTimeout
      BY <1>a, <1>1, <2>1, <2>2 DEF WarmAnswer
    <2> QED BY <1>1, <2>1, <2>4, <2>5 DEF WarmAnswer
  <1>7. CacheAnswer'
    <2> SUFFICES ASSUME dcache' = dcache, dcache # NoEntry, hour' - dcache.at < CacheTTL PROVE CacheAnswer'
      <3>1. CASE dcache' = NoEntry BY <3>1 DEF CacheAnswer
      <3>2. CASE dcache' = dcache /\ dcache # NoEntry /\ ~(hour' - dcache.at >= CacheTTL)
        <4>1. dcache.at \in Int BY <1>0, <3>2 DEF AnswerInv, CacheAnswer, Entries
        <4> QED BY <1>a, <1>1, <3>2, <4>1
      <3> QED BY <1>1, <3>1, <3>2
    <2>1. CacheAnswer /\ dcache \in Entries BY <1>0 DEF AnswerInv, CacheAnswer
    <2>2. dcache.at \in Int BY <2>1 DEF Entries
    <2>3. hour - dcache.at < CacheTTL BY <1>a, <1>1, <2>2
    <2>4. dcache.at - DialTimeout <= lastDown => lastDown' = lastDown BY <1>a, <1>1, <2>2
    <2>5. TrueSince(dcache, dcache.at - DialTimeout) BY <2>1, <2>3 DEF CacheAnswer
    <2>6. TrueSince(dcache, dcache.at - DialTimeout)' BY <1>1, <2>4, <2>5 DEF TrueSince
    <2>7. dcache.at <= hour' BY <1>a, <1>1, <2>1, <2>2 DEF CacheAnswer
    <2> QED BY <2>1, <2>6, <2>7 DEF CacheAnswer
  <1> QED BY <1>2, <1>3, <1>4, <1>5, <1>6, <1>7 DEF AccessInv, AgeInv, AnswerInv

\* Every step keeps the invariant.
LEMMA AccessKeeps == AccessInv /\ [AccessNext]_accessVars => AccessInv'
  <1> SUFFICES ASSUME AccessInv, [AccessNext]_accessVars PROVE AccessInv' OBVIOUS
  <1>1. CASE \E g \in IdPGroups : LeaveGroup(g) \/ DeleteGroup(g) BY <1>1, LossKeeps
  <1>2. CASE AccessEdited \/ Login \/ Callback \/ Logout \/ UNCHANGED accessVars BY <1>2, LoginKeeps
  <1>3. CASE \/ \E m \in MintRequests : postProfileTokenMint(m) \/ postServiceAccountMint(m)
             \/ \E id \in TokenIds : postProfileTokenRevoke(id) \/ postServiceAccountRevoke(id)
    BY <1>3, FormsKeep
  <1>4. CASE \E m \in MintRequests, q \in Calls : Handle(q, m) BY <1>4, RequestsKeep
  <1>5. CASE \E q \in Calls : \/ getDirectoryGroups(q) \/ HandleOther(q)
                              \/ \E id \in TokenIds : Authenticate(q, id)
    BY <1>5, AsksKeep
  <1>6. CASE \E q \in Calls : DialAnswer(q) BY <1>6, DialAnswerKeeps
  <1>7. CASE \E q \in Calls : DialReturn(q) BY <1>7, DialReturnKeeps
  <1>8. CASE WarmRead \/ WarmStore BY <1>8, WarmKeeps
  <1>9. CASE HourPasses BY <1>9, HourKeeps
  <1> QED BY <1>1, <1>2, <1>3, <1>4, <1>5, <1>6, <1>7, <1>8, <1>9 DEF AccessNext

\* A call is let in by its own Authenticate, or when its query returns.
LEMMA LetInByItsOwn ==
    ASSUME AccessInv, [AccessNext]_accessVars, NEW q \in Calls, LetIn(q)
    PROVE  DialReturn(q) \/ \E id \in TokenIds : Authenticate(q, id)
  <1>0. calls \in [Calls -> CallStates] BY DEF AccessInv, AccessType
  <1>1. calls[q].stage # "in" /\ calls'[q].stage = "in" BY DEF LetIn
  <1>2. calls' # calls BY <1>1
  <1>3. ~(\E g \in IdPGroups : LeaveGroup(g) \/ DeleteGroup(g)) BY <1>2 DEF LeaveGroup, DeleteGroup
  <1>4. ~(AccessEdited \/ Login \/ Callback \/ Logout \/ UNCHANGED accessVars)
    BY <1>2 DEF AccessEdited, Login, Callback, Logout, accessVars
  <1>5. ~(\E m \in MintRequests : postProfileTokenMint(m) \/ postServiceAccountMint(m))
    BY <1>2 DEF postProfileTokenMint, postServiceAccountMint
  <1>6. ~(\E id \in TokenIds : postProfileTokenRevoke(id) \/ postServiceAccountRevoke(id))
    BY <1>2 DEF postProfileTokenRevoke, postServiceAccountRevoke
  <1>7. ~(WarmRead \/ WarmStore \/ HourPasses) BY <1>2 DEF WarmRead, WarmStore, HourPasses
  <1>8. ASSUME NEW x \in Calls, NEW m \in MintRequests, Handle(x, m) PROVE FALSE
    <2>1. calls' \in {calls, [calls EXCEPT ![x] = NoCall]} BY <1>0, <1>8 DEF Handle
    <2>2. calls'[q] \in {calls[q], NoCall} BY <1>0, <2>1
    <2> QED BY <1>1, <2>2 DEF NoCall
  <1>9. ASSUME NEW x \in Calls, HandleOther(x) PROVE FALSE
    <2>1. calls'[q] \in {calls[q], NoCall} BY <1>0, <1>9 DEF HandleOther
    <2> QED BY <1>1, <2>1 DEF NoCall
  <1>10. ASSUME NEW x \in Calls, DialAnswer(x) PROVE FALSE
    <2>1. PICK a \in Answers :
            calls' = [calls EXCEPT ![x] =
                 [stage |-> "answered", for |-> calls[x].for, start |-> calls[x].start, a |-> a]]
      BY <1>10 DEF DialAnswer
    <2>2. calls'[q] = calls[q] \/ calls'[q].stage = "answered" BY <1>0, <2>1
    <2> QED BY <1>1, <2>2
  <1>11. ASSUME NEW x \in Calls, getDirectoryGroups(x) PROVE FALSE
    <2>1. ListGroups(x, Browse) BY <1>11 DEF getDirectoryGroups, Browse
    <2>2. CASE Listed(x, Browse, dcache)
      <3>1. Browse.kind = "browse" BY DEF Browse
      <3>2. calls' = [calls EXCEPT ![x] = NoCall] BY <2>2, <3>1 DEF Listed
      <3> QED BY <1>0, <1>1, <3>2 DEF NoCall
    <2>3. CASE calls' = [calls EXCEPT ![x] = [stage |-> "dialling", for |-> Browse, start |-> hour]]
      <3>1. calls'[q] = calls[q] \/ calls'[q].stage = "dialling" BY <1>0, <2>3
      <3> QED BY <1>1, <3>1
    <2> QED BY <2>1, <2>2, <2>3 DEF ListGroups
  <1>12. ASSUME NEW x \in Calls, NEW id \in TokenIds, Authenticate(x, id) PROVE x = q
    <2> SUFFICES ASSUME x # q PROVE FALSE OBVIOUS
    <2>1. Verified(id) BY <1>12 DEF Authenticate
    <2>2. TokenUser(id) \in Users BY <2>1, VerifiedIsRecent
    <2>3. CASE \E a : Listed(x, TokenUser(id), a)
      <3>1. calls'[q] = calls[q] BY <1>0, <2>2, <2>3, ListedLetsIn
      <3> QED BY <1>1, <3>1
    <2>4. CASE calls' = [calls EXCEPT ![x] = [stage |-> "dialling", for |-> TokenUser(id), start |-> hour]]
      <3>1. calls'[q] = calls[q] BY <1>0, <2>4
      <3> QED BY <1>1, <3>1
    <2> QED BY <1>12, <2>3, <2>4 DEF Authenticate, ListGroups
  <1>13. ASSUME NEW x \in Calls, DialReturn(x) PROVE x = q
    <2> SUFFICES ASSUME x # q PROVE FALSE OBVIOUS
    <2>1. calls[x].stage = "answered" /\ Listed(x, calls[x].for, calls[x].a) BY <1>13 DEF DialReturn
    <2>2. calls[x].for \in Users \cup {Browse} BY <1>0, <2>1, CallShapes
    <2>3. calls'[q] = calls[q] BY <1>0, <2>1, <2>2, ListedLetsIn
    <2> QED BY <1>1, <2>3
  <1> QED BY <1>3, <1>4, <1>5, <1>6, <1>7, <1>8, <1>9, <1>10, <1>11, <1>12, <1>13 DEF AccessNext

\* What a call that is let in still names was left recently and, unless the
\* directory could not be asked, was there recently.
LEMMA LetInIsRecent ==
    ASSUME AccessInv, [AccessNext]_accessVars, NEW q \in Calls, LetIn(q), NEW g \in calls'[q].who.groups
    PROVE  /\ calls'[q].kind = "personal" =>
                left[g] = -1 \/ hour - left[g] < SessionTTL + TokenTTL + DialTimeout
           /\ \/ deleted[g] = -1
              \/ hour - deleted[g] <= CacheTTL + DialTimeout
              \/ lastDown # -1
              \/ calls[q].stage = "answered" /\ calls[q].a.err = "timeout"
  <1>0. /\ calls \in [Calls -> CallStates] /\ hour \in Nat /\ lastDown \in Int
        /\ left \in [IdPGroups -> Int] /\ deleted \in [IdPGroups -> Int]
        /\ SessionTTL \in Nat /\ TokenTTL \in Nat /\ DialTimeout \in Nat /\ CacheTTL \in Nat
    BY AccessAssumption DEF AccessInv, AccessType
  <1>1. calls'[q].stage = "in" BY DEF LetIn
  <1>2. ASSUME NEW ask \in Users \cup {Browse}, NEW a, Listed(q, ask, a)
        PROVE  /\ calls'[q].kind = ask.kind /\ g \in ask.groups
               /\ a.err = "ok" => g \in a.groups
    <2>1. calls \in [Calls -> CallStates] BY <1>0
    <2>2. /\ calls'[q].kind = ask.kind
          /\ calls'[q].who.groups = IF a.err = "ok" THEN ask.groups \cap a.groups ELSE ask.groups
      BY <1>1, <1>2, <2>1, ListedLetsIn
    <2> QED BY <2>2
  <1>3. ASSUME NEW id \in TokenIds, Authenticate(q, id)
        PROVE  /\ calls'[q].kind = "personal" =>
                    left[g] = -1 \/ hour - left[g] < SessionTTL + TokenTTL + DialTimeout
               /\ \/ deleted[g] = -1
                  \/ hour - deleted[g] <= CacheTTL + DialTimeout
                  \/ lastDown # -1
    <2>1. Verified(id) BY <1>3 DEF Authenticate
    <2>2. /\ TokenUser(id) \in Users /\ TokenUser(id).groups = toks[id].groups
          /\ TokenUser(id).kind = "personal" =>
                /\ TokenUser(id).groups \subseteq IdPGroups
                /\ \A x \in TokenUser(id).groups : left[x] = -1 \/ left[x] > hour - SessionTTL - TokenTTL
      BY <2>1, VerifiedIsRecent DEF TokenUser
    <2>3. ASSUME NEW a, Listed(q, TokenUser(id), a)
          PROVE  /\ g \in toks[id].groups /\ (a.err = "ok" => g \in a.groups)
                 /\ calls'[q].kind = "personal" =>
                      left[g] = -1 \/ hour - left[g] < SessionTTL + TokenTTL + DialTimeout
      <3>1. TokenUser(id) \in Users \cup {Browse} BY <2>2
      <3>2. /\ calls'[q].kind = TokenUser(id).kind /\ g \in TokenUser(id).groups
            /\ a.err = "ok" => g \in a.groups
        BY <1>2, <2>3, <3>1
      <3>3. ASSUME TokenUser(id).kind = "personal"
            PROVE  left[g] = -1 \/ hour - left[g] < SessionTTL + TokenTTL + DialTimeout
        <4>1. left[g] \in Int /\ (left[g] = -1 \/ left[g] > hour - SessionTTL - TokenTTL)
          BY <1>0, <2>2, <3>2, <3>3
        <4> QED BY <1>0, <4>1
      <3> QED BY <2>2, <3>2, <3>3
    <2>4. ~Listed(q, TokenUser(id), NoAnswer) \/ toks[id].groups # {} BY <2>3
    <2>5. ListGroups(q, TokenUser(id)) BY <1>3, <2>4 DEF Authenticate
    <2>6. ~(calls' = [calls EXCEPT ![q] = [stage |-> "dialling", for |-> TokenUser(id), start |-> hour]])
      BY <1>0, <1>1
    <2>7. FreshEntry /\ Listed(q, TokenUser(id), dcache) BY <2>5, <2>6 DEF ListGroups
    <2>8. /\ dcache \in Entries /\ hour - dcache.at < CacheTTL
          /\ TrueSince(dcache, dcache.at - DialTimeout)
      BY <2>7 DEF FreshEntry, AccessInv, AnswerInv, CacheAnswer
    <2>9. dcache.at \in Int /\ dcache.err \in {"ok", "refused"} /\ dcache.groups \subseteq IdPGroups
      BY <2>8 DEF Entries
    <2>10. CASE dcache.err = "ok"
      <3>1. g \in dcache.groups BY <2>3, <2>7, <2>10
      <3>2. deleted[g] \in Int /\ (deleted[g] = -1 \/ deleted[g] >= dcache.at - DialTimeout)
        BY <1>0, <2>8, <2>9, <2>10, <3>1 DEF TrueSince
      <3>3. deleted[g] = -1 \/ hour - deleted[g] <= CacheTTL + DialTimeout BY <1>0, <2>8, <2>9, <3>2
      <3> QED BY <2>3, <2>7, <3>3
    <2>11. CASE dcache.err = "refused"
      <3>1. lastDown # -1 BY <2>8, <2>11 DEF TrueSince
      <3> QED BY <2>3, <2>7, <3>1
    <2> QED BY <2>9, <2>10, <2>11
  <1>4. ASSUME DialReturn(q)
        PROVE  /\ calls'[q].kind = "personal" =>
                    left[g] = -1 \/ hour - left[g] < SessionTTL + TokenTTL + DialTimeout
               /\ \/ deleted[g] = -1
                  \/ hour - deleted[g] <= CacheTTL + DialTimeout
                  \/ lastDown # -1
                  \/ calls[q].stage = "answered" /\ calls[q].a.err = "timeout"
    <2> DEFINE c == calls[q]
    <2>1. c.stage = "answered" /\ Listed(q, c.for, c.a) BY <1>4 DEF DialReturn
    <2>2. c.for \in Users \cup {Browse} /\ c.start \in Int /\ c.a \in Replies
      BY <1>0, <2>1, CallShapes
    <2>3. calls'[q].kind = c.for.kind /\ g \in c.for.groups /\ (c.a.err = "ok" => g \in c.a.groups)
      BY <1>2, <2>1, <2>2
    <2>5. CallAge(c) /\ CallAnswer(c) BY DEF AccessInv, AgeInv, AnswerInv
    <2>6. hour <= c.start + DialTimeout BY <2>1, <2>5 DEF CallAge
    <2>7. ASSUME calls'[q].kind = "personal"
          PROVE  left[g] = -1 \/ hour - left[g] < SessionTTL + TokenTTL + DialTimeout
      <3>1. left[g] \in Int /\ (left[g] = -1 \/ left[g] > c.start - SessionTTL - TokenTTL)
        BY <1>0, <2>1, <2>3, <2>5, <2>7 DEF CallAge
      <3> HIDE DEF c
      <3> QED BY <1>0, <2>2, <2>6, <3>1
    <2>8. c.a.err \in {"ok", "timeout", "refused"} /\ c.a.groups \subseteq IdPGroups BY <2>2 DEF Replies
    <2>9. TrueSince(c.a, c.start) BY <2>1, <2>5 DEF CallAnswer
    <2>10. CASE c.a.err = "ok"
      <3>1. deleted[g] \in Int /\ (deleted[g] = -1 \/ deleted[g] >= c.start)
        BY <1>0, <2>3, <2>8, <2>9, <2>10 DEF TrueSince
      <3> HIDE DEF c
      <3>2. deleted[g] = -1 \/ hour - deleted[g] <= CacheTTL + DialTimeout BY <1>0, <2>2, <2>6, <3>1
      <3> QED BY <2>7, <3>2
    <2>11. CASE c.a.err = "refused"
      <3>1. lastDown # -1 BY <2>9, <2>11 DEF TrueSince
      <3> QED BY <2>7, <3>1
    <2>12. CASE c.a.err = "timeout" BY <2>1, <2>7, <2>12
    <2> QED BY <2>8, <2>10, <2>11, <2>12
  <1> QED BY <1>3, <1>4, LetInByItsOwn

\* For any groups, tokens, calls and lifetimes, and however logins, mints, edits
\* and directory queries interleave: rights the identity provider took away are
\* gone after a session, a token and a query (postToken, Authenticate).
THEOREM RightsAlwaysExpire == AccessSpec => RightsExpire
  <1>1. AccessInv /\ [AccessNext]_accessVars =>
        [ \A q \in Calls : LetIn(q) /\ calls'[q].kind = "personal" =>
            \A g \in calls'[q].who.groups :
                left[g] = -1 \/ hour - left[g] < SessionTTL + TokenTTL + DialTimeout ]_accessVars
    BY LetInIsRecent
  <1> QED BY AccessStarts, AccessKeeps, <1>1, PTL DEF AccessSpec, RightsExpire

\* For any cache lifetime and query deadline: a deleted group's rights outlive it
\* by an entry of the cache and the query that filled it, unless the directory
\* could not be asked (Authenticate, CachedDirectory.ListGroups and refresh).
THEOREM DeletedGroupsAlwaysDie == AccessSpec => DeletedGroupsDie
  <1>1. AccessInv /\ [AccessNext]_accessVars =>
        [ \A q \in Calls : LetIn(q) =>
            \A g \in calls'[q].who.groups :
                \/ deleted[g] = -1
                \/ hour - deleted[g] <= CacheTTL + DialTimeout
                \/ lastDown # -1
                \/ calls[q].stage = "answered" /\ calls[q].a.err = "timeout" ]_accessVars
    BY LetInIsRecent
  <1> QED BY AccessStarts, AccessKeeps, <1>1, PTL DEF AccessSpec, DeletedGroupsDie
=============================================================================
