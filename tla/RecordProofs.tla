---------------------------- MODULE RecordProofs ----------------------------
(***************************************************************************)
(* Proofs about what the console says of people and of devices, for every  *)
(* set of devices, check-ins and faults: the report of an erasure          *)
(* (PersonalData), the notifications of check-ins and the compliance page  *)
(* (Compliance).                                                           *)
(***************************************************************************)
EXTENDS PersonalData, Compliance, FiniteSetTheorems, TLAPS

(***************************************************************************)
(* The erasure: types.                                                     *)
(***************************************************************************)
Ids   == {"subject", "username"}
Names == {"", "subject", "username", "other"}

Previews ==
    {NoReport} \cup [pc : {"counted"}, before : BOOLEAN, ids : SUBSET Ids,
                     counted : SUBSET (Searched \ {"reads"}), cleared : SUBSET Assignable]

Erasures ==
    [pc : {"rows", "clear"}, ids : SUBSET Ids, removed : SUBSET Tables, cleared : SUBSET Assignable,
     left : SUBSET Assignable, read : Previews, todo : SUBSET (1..5)]

PersonType ==
    /\ rows \in [Tables -> SUBSET Ages]
    /\ assigned \in [Assignable -> Names]
    /\ erasure \in {NoErasure} \cup Erasures
    /\ previewed \in Previews

\* Every table that is searched has its statement, and one only.
LEMMA OrderFacts ==
    /\ DOMAIN EraseOrder = 1..5
    /\ \A i \in 1..5 : EraseOrder[i] \in Searched
    /\ \A i, j \in 1..5 : EraseOrder[i] = EraseOrder[j] => i = j
    /\ \A t \in Searched : \E i \in 1..5 : EraseOrder[i] = t
<1>1. /\ DOMAIN EraseOrder = 1..5
      /\ EraseOrder[1] = "reads" /\ EraseOrder[2] = "notifications" /\ EraseOrder[3] = "prefs"
      /\ EraseOrder[4] = "seen" /\ EraseOrder[5] = "elevation"
    BY DEF EraseOrder
<1>2. \A i \in 1..5 : i = 1 \/ i = 2 \/ i = 3 \/ i = 4 \/ i = 5
    OBVIOUS
<1>3. 1 \in 1..5 /\ 2 \in 1..5 /\ 3 \in 1..5 /\ 4 \in 1..5 /\ 5 \in 1..5
    OBVIOUS
<1>4. \A i \in 1..5 : EraseOrder[i] \in Searched
    BY <1>1, <1>2 DEF Searched
<1>5. \A i, j \in 1..5 : EraseOrder[i] = EraseOrder[j] => i = j
    BY <1>1, <1>2
<1>6. \A t \in Searched : \E i \in 1..5 : EraseOrder[i] = t
    BY <1>1, <1>3 DEF Searched
<1> QED BY <1>1, <1>4, <1>5, <1>6

\* A decision is looked up by an identifier its row does not hold.
LEMMA DecisionsMissed == AskedBy("decided") # IdOf("decided") /\ Searched \subseteq Tables
BY DEF AskedBy, IdOf, Searched, Tables

\* Either no erasure runs, or it is in one of its two phases.
LEMMA TwoPhases ==
    ASSUME PersonType
    PROVE  /\ erasure = NoErasure => erasure.pc = "idle"
           /\ erasure # NoErasure => erasure \in Erasures /\ erasure.pc \in {"rows", "clear"}
BY DEF PersonType, NoErasure, Erasures

\* Every step keeps the types.
LEMMA PersonTypeStep ==
    ASSUME PersonType, [PersonNext]_personVars
    PROVE  PersonType'
<1>a. PersonType
    OBVIOUS
<1>u. ASSUME UNCHANGED <<rows, assigned, erasure, previewed>>
      PROVE  PersonType'
    BY <1>a, <1>u DEF PersonType
<1>n. NoReport \in Previews /\ NoErasure \in {NoErasure} \cup Erasures
    BY DEF Previews
<1>1. ASSUME NEW t \in Tables, Written(t)
      PROVE  PersonType'
    BY <1>a, <1>n, <1>1 DEF Written, PersonType, Ages
<1>2. ASSUME NEW d \in Assignable, NEW who \in {"subject", "username", "other"}, AssignUser(d, who)
      PROVE  PersonType'
    BY <1>a, <1>n, <1>2 DEF AssignUser, PersonType, Names
<1>3. CASE SweepStarts
    BY <1>3, <1>u DEF SweepStarts
<1>4. CASE Sweep
  <2>1. rows' \in [Tables -> SUBSET Ages]
    BY <1>a, <1>4 DEF Sweep, PersonType
  <2> QED BY <1>a, <1>n, <1>4, <2>1 DEF Sweep, PersonType
<1>5. ASSUME NEW ids \in SUBSET Ids, Preview(ids)
      PROVE  PersonType'
  <2> DEFINE b == erasure = NoErasure
             k == CountPersonalData(ids)
             cl == {d \in Assignable : NamedBy(assigned[d], ids)}
  <2>1. previewed' = [pc |-> "counted", before |-> b, ids |-> ids, counted |-> k, cleared |-> cl]
    BY <1>5 DEF Preview
  <2>2. b \in BOOLEAN /\ cl \in SUBSET Assignable
    OBVIOUS
  <2>3. k \in SUBSET (Searched \ {"reads"})
    BY DecisionsMissed DEF CountPersonalData, Held
  <2> HIDE DEF b, k, cl
  <2>4. previewed' \in Previews
    BY <2>1, <2>2, <2>3 DEF Previews
  <2> QED BY <1>a, <1>5, <2>4 DEF Preview, PersonType
<1>6. ASSUME NEW ids \in SUBSET Ids, Erase(ids)
      PROVE  PersonType'
  <2> DEFINE todo == {i \in DOMAIN EraseOrder : AskedBy(EraseOrder[i]) \in ids}
  <2>1. erasure' = [pc |-> "rows", ids |-> ids, removed |-> {}, cleared |-> {}, left |-> {},
                    read |-> previewed, todo |-> todo]
    BY <1>6 DEF Erase
  <2>2. todo \in SUBSET (1..5) /\ previewed \in Previews
    BY <1>a, OrderFacts DEF PersonType
  <2> HIDE DEF todo
  <2>3. erasure' \in Erasures
    BY <2>1, <2>2 DEF Erasures
  <2> QED BY <1>a, <1>6, <2>3 DEF Erase, PersonType
<1>7. CASE EraseFails
    BY <1>a, <1>n, <1>7 DEF EraseFails, PersonType
<1>8. CASE ErasePersonalData
  <2>1. PICK i \in erasure.todo :
            /\ rows' = [rows EXCEPT ![EraseOrder[i]] = {}]
            /\ erasure' = [erasure EXCEPT !.todo = @ \ {i},
                            !.removed = @ \cup ({EraseOrder[i]} \cap (Held \ {"reads"}))]
    BY <1>8 DEF ErasePersonalData
  <2>2. erasure \in Erasures
    BY <1>8, TwoPhases DEF ErasePersonalData
  <2> DEFINE gone == {EraseOrder[i]} \cap (Held \ {"reads"})
  <2>3. gone \in SUBSET Tables
    BY DEF Held
  <2> HIDE DEF gone
  <2>4. erasure' = [erasure EXCEPT !.todo = @ \ {i}, !.removed = @ \cup gone]
    BY <2>1 DEF gone
  <2>5. erasure' \in Erasures
    BY <2>2, <2>3, <2>4 DEF Erasures
  <2>6. rows' \in [Tables -> SUBSET Ages]
    BY <1>a, <2>1 DEF PersonType
  <2> QED BY <1>a, <1>8, <2>5, <2>6 DEF ErasePersonalData, PersonType
<1>9. CASE FindAssigned
  <2> DEFINE mine == {d \in Assignable : NamedBy(assigned[d], erasure.ids)}
  <2>1. erasure' = [erasure EXCEPT !.pc = "clear", !.cleared = mine, !.left = mine]
    BY <1>9 DEF FindAssigned
  <2>2. erasure \in Erasures /\ mine \in SUBSET Assignable
    BY <1>9, TwoPhases DEF FindAssigned
  <2> HIDE DEF mine
  <2>3. erasure' \in Erasures
    BY <2>1, <2>2 DEF Erasures
  <2> QED BY <1>a, <1>9, <2>3 DEF FindAssigned, PersonType
<1>10. ASSUME NEW d \in Assignable, ClearAssigned(d)
       PROVE  PersonType'
  <2>1. erasure \in Erasures
    BY <1>10, TwoPhases DEF ClearAssigned
  <2>2. erasure' \in Erasures
    BY <1>10, <2>1 DEF ClearAssigned, Erasures
  <2>3. assigned' \in [Assignable -> Names]
    BY <1>a, <1>10 DEF ClearAssigned, PersonType, Names
  <2> QED BY <1>a, <1>10, <2>2, <2>3 DEF ClearAssigned, PersonType
<1>11. CASE EraseReports
    BY <1>a, <1>n, <1>11 DEF EraseReports, PersonType
<1>12. CASE UNCHANGED personVars
    BY <1>12, <1>u DEF personVars
<1>13. \A t \in {"seen", "prefs", "notifications", "reads", "elevation", "decided", "tokens", "secrets", "forge"} : t \in Tables
    BY DEF Tables, Searched, PassedOver
<1> QED BY <1>1, <1>2, <1>3, <1>4, <1>5, <1>6, <1>7, <1>8, <1>9, <1>10, <1>11, <1>12, <1>13
        DEF PersonNext, RecordUser, PutPrefs, Add, MarkRead, PutRequest, PutDecision,
            PutToken, MarkRevealed, PutForgeIdentity, Ids

(***************************************************************************)
(* The erasure: what it has passed, and what was foreseen.                 *)
(***************************************************************************)
Todo == {EraseOrder[i] : i \in erasure.todo}

\* A table the erasure has passed is empty or was written since; a device it has
\* looked at names the person only if it still waits to be cleared or was assigned
\* since.
Passed ==
    erasure # NoErasure =>
        /\ \A t \in Searched :
                AskedBy(t) \in erasure.ids => t \in Todo \/ rows[t] = {} \/ t \in since
        /\ erasure.pc = "clear" =>
            /\ erasure.todo = {}
            /\ \A d \in Assignable : assigned[d] \in erasure.ids => d \in erasure.left \/ d \in since

\* What a preview that was taken before the erasure counted is removed already or
\* still there to be removed, for as long as nobody else writes.
Foreseen ==
    previewed.pc = "counted" /\ previewed.before =>
        /\ erasure = NoErasure =>
            /\ previewed.counted = CountPersonalData(previewed.ids)
            /\ previewed.cleared = {d \in Assignable : NamedBy(assigned[d], previewed.ids)}
        /\ erasure # NoErasure /\ previewed.ids = erasure.ids =>
            /\ \A t \in previewed.counted :
                    t \in erasure.removed \/ (t \in Todo /\ rows[t] # {})
            /\ erasure.pc = "rows" => \A d \in previewed.cleared : assigned[d] \in erasure.ids
            /\ erasure.pc = "clear" => previewed.cleared \subseteq erasure.cleared

\* A report is on show only while no erasure runs.
Reported == report.pc = "done" => erasure = NoErasure

PersonInv == PersonType /\ Passed /\ Foreseen /\ Reported /\ ErasureIsHonest

\* Neither a write nor the sweep undoes what the erasure has passed unseen.
LEMMA PassedStep ==
    ASSUME PersonInv, [PersonNext]_personVars
    PROVE  Passed'
<1>a. PersonType /\ Passed
    BY DEF PersonInv
<1>o. \A t \in Tables : t \notin Assignable
    BY PersonAssumption
<1>u. ASSUME UNCHANGED <<rows, assigned, erasure, since>>
      PROVE  Passed'
    BY <1>a, <1>u DEF Passed, Todo
<1>f. ASSUME erasure' = NoErasure
      PROVE  Passed'
    BY <1>f DEF Passed
<1>1. ASSUME NEW t \in Tables, Written(t)
      PROVE  Passed'
    BY <1>a, <1>1 DEF Written, PersonType, Passed, Todo
<1>2. ASSUME NEW d \in Assignable, NEW who \in {"subject", "username", "other"}, AssignUser(d, who)
      PROVE  Passed'
    BY <1>a, <1>2 DEF AssignUser, PersonType, Passed, Todo
<1>4. CASE Sweep
  <2>1. \A t \in Tables : rows[t] = {} => rows'[t] = {}
    BY <1>a, <1>4 DEF Sweep, PersonType
  <2> QED BY DecisionsMissed, <1>a, <1>4, <2>1 DEF Sweep, Passed, Todo
<1>6. ASSUME NEW ids \in SUBSET Ids, Erase(ids)
      PROVE  Passed'
  <2>1. erasure'.ids = ids /\ erasure'.pc = "rows"
        /\ erasure'.todo = {i \in DOMAIN EraseOrder : AskedBy(EraseOrder[i]) \in ids}
    BY <1>6 DEF Erase
  <2>2. \A t \in Searched : AskedBy(t) \in ids => t \in Todo'
    BY <2>1, OrderFacts DEF Todo
  <2> QED BY <2>1, <2>2 DEF Passed
<1>8. CASE ErasePersonalData
  <2>1. PICK i \in erasure.todo :
            /\ rows' = [rows EXCEPT ![EraseOrder[i]] = {}]
            /\ erasure' = [erasure EXCEPT !.todo = @ \ {i},
                            !.removed = @ \cup ({EraseOrder[i]} \cap (Held \ {"reads"}))]
            /\ since' = since \ {EraseOrder[i]}
            /\ UNCHANGED assigned
    BY <1>8 DEF ErasePersonalData
  <2>2. erasure \in Erasures /\ erasure.pc = "rows" /\ i \in 1..5
    BY <1>8, <1>a, TwoPhases DEF ErasePersonalData, Erasures
  <2>3. erasure'.pc = "rows" /\ erasure'.ids = erasure.ids /\ erasure'.todo = erasure.todo \ {i}
    BY <2>1, <2>2 DEF Erasures
  <2>4. EraseOrder[i] \in Tables /\ \A t \in Todo : t = EraseOrder[i] \/ t \in Todo'
    BY DecisionsMissed, <2>2, <2>3, OrderFacts DEF Todo
  <2>5. erasure # NoErasure
    BY <2>2 DEF NoErasure
  <2> QED BY <1>a, <2>1, <2>3, <2>4, <2>5 DEF Passed, PersonType
<1>9. CASE FindAssigned
  <2> DEFINE mine == {d \in Assignable : NamedBy(assigned[d], erasure.ids)}
  <2>1. erasure' = [erasure EXCEPT !.pc = "clear", !.cleared = mine, !.left = mine]
        /\ erasure.pc = "rows" /\ erasure.todo = {} /\ since' = since \ Assignable
        /\ UNCHANGED <<rows, assigned>>
    BY <1>9 DEF FindAssigned
  <2>2. erasure \in Erasures /\ erasure # NoErasure
    BY <2>1, <1>a, TwoPhases DEF NoErasure
  <2>3. /\ erasure'.pc = "clear" /\ erasure'.ids = erasure.ids
        /\ erasure'.todo = erasure.todo /\ erasure'.left = mine
    BY <2>1, <2>2 DEF Erasures
  <2>4. \A d \in Assignable : assigned[d] \in erasure.ids => d \in mine
    BY DEF NamedBy
  <2> HIDE DEF mine
  <2> QED BY DecisionsMissed, <1>a, <1>o, <2>1, <2>2, <2>3, <2>4 DEF Passed, Todo
<1>10. ASSUME NEW d \in Assignable, ClearAssigned(d)
       PROVE  Passed'
  <2>1. erasure \in Erasures /\ erasure # NoErasure /\ erasure.pc = "clear"
    BY <1>10, <1>a, TwoPhases DEF ClearAssigned, NoErasure
  <2>2. /\ erasure'.pc = "clear" /\ erasure'.ids = erasure.ids
        /\ erasure'.todo = erasure.todo /\ erasure'.left = erasure.left \ {d}
        /\ UNCHANGED <<rows, since>>
    BY <1>10, <2>1 DEF ClearAssigned, Erasures
  <2>3. erasure.ids \subseteq {"subject", "username"}
    BY <2>1 DEF Erasures, Ids
  <2>4. "" \notin erasure.ids
    BY <2>3
  <2>5. \A x \in Assignable : assigned'[x] = IF x = d THEN "" ELSE assigned[x]
    BY <1>a, <1>10 DEF ClearAssigned, PersonType
  <2> QED BY <1>a, <2>1, <2>2, <2>4, <2>5 DEF Passed, Todo
<1>11. CASE EraseFails \/ EraseReports
    BY <1>11, <1>f DEF EraseFails, EraseReports
<1>12. CASE UNCHANGED personVars \/ SweepStarts \/ \E ids \in SUBSET Ids : Preview(ids)
    BY <1>12, <1>u DEF personVars, SweepStarts, Preview
<1>13. \A t \in {"seen", "prefs", "notifications", "reads", "elevation", "decided", "tokens", "secrets", "forge"} : t \in Tables
    BY DEF Tables, Searched, PassedOver
<1> QED BY <1>1, <1>2, <1>4, <1>6, <1>8, <1>9, <1>10, <1>11, <1>12, <1>13
        DEF PersonNext, RecordUser, PutPrefs, Add, MarkRead, PutRequest, PutDecision,
            PutToken, MarkRevealed, PutForgeIdentity, Ids

\* A preview is forgotten as soon as somebody else writes, so what it counted is
\* what the erasure finds.
LEMMA ForeseenStep ==
    ASSUME PersonInv, [PersonNext]_personVars
    PROVE  Foreseen'
<1>a. PersonType /\ Foreseen
    BY DEF PersonInv
<1>u. ASSUME UNCHANGED <<rows, assigned, erasure, previewed>>
      PROVE  Foreseen'
    BY <1>a, <1>u DEF Foreseen, Todo, CountPersonalData, Held
<1>f. ASSUME previewed' = NoReport
      PROVE  Foreseen'
    BY <1>f DEF Foreseen, NoReport
<1>1. ASSUME NEW t \in Tables, Written(t)
      PROVE  Foreseen'
    BY <1>1, <1>f DEF Written
<1>2. ASSUME NEW d \in Assignable, NEW who \in {"subject", "username", "other"}, AssignUser(d, who)
      PROVE  Foreseen'
    BY <1>2, <1>f DEF AssignUser
<1>3. CASE Sweep \/ EraseFails \/ EraseReports
    BY <1>3, <1>f DEF Sweep, EraseFails, EraseReports
<1>4. CASE UNCHANGED personVars \/ SweepStarts
    BY <1>4, <1>u DEF personVars, SweepStarts
<1>5. ASSUME NEW ids \in SUBSET Ids, Preview(ids)
      PROVE  Foreseen'
  <2>1. UNCHANGED <<rows, assigned, erasure>>
    BY <1>5 DEF Preview
  <2>2. /\ previewed'.before => erasure = NoErasure
        /\ previewed'.ids = ids
        /\ previewed'.counted = CountPersonalData(ids)
        /\ previewed'.cleared = {d \in Assignable : NamedBy(assigned[d], ids)}
    BY <1>5 DEF Preview
  <2>3. CountPersonalData(ids)' = CountPersonalData(ids)
    BY <2>1 DEF CountPersonalData, Held
  <2> QED BY <2>1, <2>2, <2>3 DEF Foreseen, CountPersonalData, Held
<1>6. ASSUME NEW ids \in SUBSET Ids, Erase(ids)
      PROVE  Foreseen'
  <2>1. /\ erasure'.ids = ids /\ erasure'.pc = "rows" /\ erasure = NoErasure
        /\ erasure'.todo = {i \in DOMAIN EraseOrder : AskedBy(EraseOrder[i]) \in ids}
        /\ UNCHANGED <<rows, assigned, previewed>>
    BY <1>6 DEF Erase
  <2>2. erasure' # NoErasure
    BY <2>1 DEF NoErasure
  <2>3. SUFFICES ASSUME previewed.pc = "counted", previewed.before, previewed.ids = ids
                 PROVE  /\ \A t \in previewed.counted : t \in Todo' /\ rows[t] # {}
                        /\ \A d \in previewed.cleared : assigned[d] \in ids
    BY <2>1, <2>2 DEF Foreseen
  <2>4. /\ previewed.counted = CountPersonalData(ids)
        /\ previewed.cleared = {d \in Assignable : NamedBy(assigned[d], ids)}
    BY <1>a, <2>1, <2>3 DEF Foreseen
  <2>5. \A t \in previewed.counted :
            t \in Searched /\ AskedBy(t) \in ids /\ rows[t] # {}
    BY <2>4, DecisionsMissed DEF CountPersonalData, Held
  <2>6. \A t \in Searched : AskedBy(t) \in ids => t \in Todo'
    BY <2>1, OrderFacts DEF Todo
  <2>7. \A d \in previewed.cleared : assigned[d] \in ids
    BY <2>4 DEF NamedBy
  <2> QED BY <2>5, <2>6, <2>7
<1>7. CASE ErasePersonalData
  <2>1. PICK i \in erasure.todo :
            /\ rows' = [rows EXCEPT ![EraseOrder[i]] = {}]
            /\ erasure' = [erasure EXCEPT !.todo = @ \ {i},
                            !.removed = @ \cup ({EraseOrder[i]} \cap (Held \ {"reads"}))]
            /\ UNCHANGED <<assigned, previewed>>
    BY <1>7 DEF ErasePersonalData
  <2>2. erasure \in Erasures /\ erasure.pc = "rows" /\ i \in 1..5
    BY <1>7, <1>a, TwoPhases DEF ErasePersonalData, Erasures
  <2> DEFINE gone == {EraseOrder[i]} \cap (Held \ {"reads"})
  <2>3. /\ erasure'.pc = "rows" /\ erasure'.ids = erasure.ids /\ erasure'.todo = erasure.todo \ {i}
        /\ erasure'.removed = erasure.removed \cup gone
    BY <2>1, <2>2 DEF Erasures
  <2>4. EraseOrder[i] \in Tables /\ \A t \in Todo : t = EraseOrder[i] \/ t \in Todo'
    BY DecisionsMissed, <2>2, <2>3, OrderFacts DEF Todo
  <2>5. erasure # NoErasure /\ erasure' # NoErasure
    BY <2>2, <2>3 DEF NoErasure
  <2>6. SUFFICES ASSUME previewed.pc = "counted", previewed.before, previewed.ids = erasure.ids
                 PROVE  /\ \A t \in previewed.counted :
                                t \in erasure'.removed \/ (t \in Todo' /\ rows'[t] # {})
                        /\ \A d \in previewed.cleared : assigned[d] \in erasure.ids
    BY <2>1, <2>3, <2>5 DEF Foreseen
  <2>7. /\ \A t \in previewed.counted :
                t \in erasure.removed \/ (t \in Todo /\ rows[t] # {})
        /\ \A d \in previewed.cleared : assigned[d] \in erasure.ids
    BY <1>a, <2>2, <2>5, <2>6 DEF Foreseen
  <2>8. previewed.counted \subseteq Searched \ {"reads"}
    BY <1>a, <2>6 DEF PersonType, Previews, NoReport
  <2>9. \A t \in previewed.counted : t = EraseOrder[i] /\ rows[t] # {} => t \in gone
    BY <2>4, <2>8 DEF Held
  <2>10. \A t \in Tables : t # EraseOrder[i] => rows'[t] = rows[t]
    BY <1>a, <2>1 DEF PersonType
  <2> HIDE DEF gone
  <2> QED BY DecisionsMissed, <2>3, <2>4, <2>7, <2>8, <2>9, <2>10
<1>8. CASE FindAssigned
  <2> DEFINE mine == {d \in Assignable : NamedBy(assigned[d], erasure.ids)}
  <2>1. erasure' = [erasure EXCEPT !.pc = "clear", !.cleared = mine, !.left = mine]
        /\ erasure.pc = "rows" /\ UNCHANGED <<rows, assigned, previewed>>
    BY <1>8 DEF FindAssigned
  <2>2. erasure \in Erasures /\ erasure # NoErasure
    BY <2>1, <1>a, TwoPhases DEF NoErasure
  <2>3. /\ erasure'.pc = "clear" /\ erasure'.ids = erasure.ids /\ erasure'.todo = erasure.todo
        /\ erasure'.removed = erasure.removed /\ erasure'.cleared = mine
    BY <2>1, <2>2 DEF Erasures
  <2>4. \A d \in Assignable : assigned[d] \in erasure.ids => d \in mine
    BY DEF NamedBy
  <2>5. previewed.pc = "counted" => previewed.cleared \subseteq Assignable
    BY <1>a DEF PersonType, Previews, NoReport
  <2>6. erasure' # NoErasure /\ Todo' = Todo
    BY <2>3 DEF NoErasure, Todo
  <2> HIDE DEF mine
  <2> QED BY <1>a, <2>1, <2>2, <2>3, <2>4, <2>5, <2>6 DEF Foreseen
<1>9. ASSUME NEW d \in Assignable, ClearAssigned(d)
      PROVE  Foreseen'
  <2>1. erasure \in Erasures /\ erasure # NoErasure /\ erasure.pc = "clear"
    BY <1>9, <1>a, TwoPhases DEF ClearAssigned, NoErasure
  <2>2. /\ erasure'.pc = "clear" /\ erasure'.ids = erasure.ids /\ erasure'.todo = erasure.todo
        /\ erasure'.removed = erasure.removed /\ erasure'.cleared = erasure.cleared
        /\ UNCHANGED <<rows, previewed>>
    BY <1>9, <2>1 DEF ClearAssigned, Erasures
  <2>3. erasure' # NoErasure /\ Todo' = Todo
    BY <2>2 DEF NoErasure, Todo
  <2> QED BY <1>a, <2>1, <2>2, <2>3 DEF Foreseen
<1>13. \A t \in {"seen", "prefs", "notifications", "reads", "elevation", "decided", "tokens", "secrets", "forge"} : t \in Tables
    BY DEF Tables, Searched, PassedOver
<1> QED BY <1>1, <1>2, <1>3, <1>4, <1>5, <1>6, <1>7, <1>8, <1>9, <1>13
        DEF PersonNext, RecordUser, PutPrefs, Add, MarkRead, PutRequest, PutDecision,
            PutToken, MarkRevealed, PutForgeIdentity, Ids

\* A report that is on show stays true: it was true when it was made, and what
\* comes to name the person afterwards was written afterwards.
LEMMA HonestStep ==
    ASSUME PersonInv, [PersonNext]_personVars
    PROVE  Reported' /\ ErasureIsHonest'
<1>a. PersonType /\ Passed /\ Foreseen /\ Reported /\ ErasureIsHonest
    BY DEF PersonInv
<1>s. ASSUME report' = report, erasure' = erasure,
             \A t \in Tables : rows'[t] # {} => rows[t] # {} \/ t \in since',
             \A d \in Assignable : assigned'[d] = assigned[d] \/ d \in since',
             since \subseteq since'
      PROVE  Reported' /\ ErasureIsHonest'
    BY <1>a, <1>s DEF Reported, ErasureIsHonest, Held
<1>n. ASSUME report'.pc # "done"
      PROVE  Reported' /\ ErasureIsHonest'
    BY <1>n DEF Reported, ErasureIsHonest
<1>w. ASSUME erasure # NoErasure, report' = report
      PROVE  Reported' /\ ErasureIsHonest'
    BY <1>a, <1>w, <1>n DEF Reported
<1>1. ASSUME NEW t \in Tables, Written(t)
      PROVE  Reported' /\ ErasureIsHonest'
    BY <1>a, <1>1, <1>s DEF Written, PersonType
<1>2. ASSUME NEW d \in Assignable, NEW who \in {"subject", "username", "other"}, AssignUser(d, who)
      PROVE  Reported' /\ ErasureIsHonest'
    BY <1>a, <1>2, <1>s DEF AssignUser, PersonType
<1>3. CASE Sweep
  <2>1. \A t \in Tables : rows'[t] # {} => rows[t] # {}
    BY <1>a, <1>3 DEF Sweep, PersonType
  <2> QED BY <1>3, <1>s, <2>1 DEF Sweep
<1>4. CASE UNCHANGED personVars \/ SweepStarts \/ \E ids \in SUBSET Ids : Preview(ids)
    BY <1>4, <1>s DEF personVars, SweepStarts, Preview
<1>5. ASSUME NEW ids \in SUBSET Ids, Erase(ids)
      PROVE  Reported' /\ ErasureIsHonest'
    BY <1>5, <1>n DEF Erase, NoReport
<1>6. CASE EraseFails \/ ErasePersonalData \/ FindAssigned \/ \E d \in Assignable : ClearAssigned(d)
  <2>1. erasure.pc \in {"rows", "clear"} /\ report' = report
    BY <1>6 DEF EraseFails, ErasePersonalData, FindAssigned, ClearAssigned
  <2> QED BY <1>a, <1>w, <2>1, TwoPhases
<1>7. CASE EraseReports
  <2>1. erasure.pc = "clear" /\ erasure.left = {} /\ UNCHANGED <<rows, assigned, since>>
    BY <1>7 DEF EraseReports
  <2>2. erasure \in Erasures /\ erasure # NoErasure
    BY <1>a, <2>1, TwoPhases DEF NoErasure
  <2>3. /\ report'.ids = erasure.ids /\ report'.removed = erasure.removed
        /\ report'.cleared = erasure.cleared
        /\ report'.held \in {previewed, NoReport}
        /\ report'.remaining = remaining(erasure.ids, erasure.removed)
        /\ erasure' = NoErasure
    BY <1>7 DEF EraseReports
  <2>4. Todo = {}
    BY <1>a, <2>1, <2>2 DEF Passed, Todo
  <2>5. \A t \in Searched : AskedBy(t) \in erasure.ids => rows[t] = {} \/ t \in since
    BY <1>a, <2>2, <2>4 DEF Passed
  <2>6. Held' \ PassedOver \subseteq since' \cup report'.remaining
    BY <2>1, <2>3, <2>5 DEF Held, remaining, Tables
  <2>7. \A d \in Assignable : assigned[d] \in erasure.ids => d \in since
    BY <1>a, <2>1, <2>2 DEF Passed
  <2>8. previewed.pc = "counted" /\ previewed.before /\ previewed.ids = erasure.ids =>
            /\ previewed.counted \subseteq erasure.removed
            /\ previewed.cleared \subseteq erasure.cleared
    BY <1>a, <2>1, <2>2, <2>4 DEF Foreseen
  <2>9. NoReport.pc # "counted"
    BY DEF NoReport
  <2> QED BY <2>1, <2>3, <2>6, <2>7, <2>8, <2>9 DEF Reported, ErasureIsHonest
<1>8. \A t \in {"seen", "prefs", "notifications", "reads", "elevation", "decided", "tokens", "secrets", "forge"} : t \in Tables
    BY DEF Tables, Searched, PassedOver
<1> QED BY <1>1, <1>2, <1>3, <1>4, <1>5, <1>6, <1>7, <1>8
        DEF PersonNext, RecordUser, PutPrefs, Add, MarkRead, PutRequest, PutDecision,
            PutToken, MarkRevealed, PutForgeIdentity, Ids

\* A reported erasure is honest about the tables it searches and the fleet document,
\* for every fleet, however often the sweep, the person and other operators write in
\* between and whatever fails.
THEOREM ErasureAlwaysHonest == PersonSpec => []ErasureIsHonest
<1>1. PersonInit => PersonInv
  <2>1. SUFFICES ASSUME PersonInit PROVE PersonInv
    OBVIOUS
  <2>2. erasure = NoErasure /\ previewed = NoReport /\ report = NoReport
    BY <2>1 DEF PersonInit
  <2>3. PersonType
    BY <2>1, <2>2 DEF PersonInit, PersonType, Previews, Ages, Names
  <2>4. previewed.pc = "none" /\ report.pc = "none"
    BY <2>2 DEF NoReport
  <2> QED BY <2>2, <2>3, <2>4 DEF PersonInv, Passed, Foreseen, Reported, ErasureIsHonest
<1>2. PersonInv /\ [PersonNext]_personVars => PersonInv'
    BY PersonTypeStep, PassedStep, ForeseenStep, HonestStep DEF PersonInv
<1>3. PersonInv => ErasureIsHonest
    BY DEF PersonInv
<1> QED BY <1>1, <1>2, <1>3, PTL DEF PersonSpec

(***************************************************************************)
(* Check-ins: a wipe outcome is told of at most once.                      *)
(***************************************************************************)
\* The check-ins that have stored a change and not told of it yet.
Untold == {b \in Beats : beat[b].pc = "stored" /\ beat[b].news}

TellType ==
    /\ DOMAIN beat = Beats /\ beat = [b \in Beats |-> beat[b]]
    /\ wipesTold \in Nat /\ turns \in Nat /\ overlaps \in Nat

\* Every notification that was raised, or is still to be, has its own cause.
TellInv == TellType /\ wipesTold + Cardinality(Untold) <= turns + overlaps

\* Few enough to be counted.
LEMMA UntoldFinite == IsFiniteSet(Untold) /\ Cardinality(Untold) \in Nat
<1>1. Untold \subseteq Beats
    BY DEF Untold
<1>2. IsFiniteSet(Untold)
    BY <1>1, BeatsAssumption, FS_Subset
<1> QED BY <1>2, FS_CardinalityType

\* A statement that reports a change found the row with another outcome, or the
\* row had moved on since its snapshot.
LEMMA NewsHasCause ==
    ASSUME NEW c, NEW prev, News(c, prev)
    PROVE  isWipeAck(c.ack) /\ (status.ack # c.ack \/ prev # status.ack)
BY DEF News, Merged, isWipeAck

\* The steps of a check-in keep the balance of causes and notifications.
LEMMA TellStep ==
    ASSUME TellInv, [ComplianceNext]_boardVars
    PROVE  TellInv'
<1>a. TellType /\ wipesTold + Cardinality(Untold) <= turns + overlaps
    BY DEF TellInv
<1>u. ASSUME beat' = beat, UNCHANGED mailVars
      PROVE  TellInv'
  <2>1. Untold' = Untold
    BY <1>u DEF Untold
  <2> QED BY <1>a, <1>u, <2>1 DEF TellInv, TellType, mailVars
<1>1. ASSUME NEW b \in Beats, NEW c \in Reports, CheckInStarts(b, c)
      PROVE  TellInv'
  <2>1. beat' = [beat EXCEPT ![b] = [pc |-> "upsert", c |-> c, prev |-> status.ack]]
        /\ beat[b] = NoBeat /\ UNCHANGED mailVars
    BY <1>1 DEF CheckInStarts
  <2>2. Untold' = Untold
    BY <1>a, <2>1 DEF Untold, TellType, NoBeat
  <2>3. TellType'
    BY <1>a, <2>1 DEF TellType, mailVars
  <2> QED BY <1>a, <2>1, <2>2, <2>3 DEF TellInv, mailVars
<1>2. ASSUME NEW b \in Beats, Upsert(b)
      PROVE  TellInv'
  <2> DEFINE c == beat[b].c
             news == News(c, beat[b].prev)
  <2>1. /\ beat[b].pc = "upsert"
        /\ beat' = [beat EXCEPT ![b] = [pc |-> "stored", news |-> news]]
        /\ turns' = IF isWipeAck(c.ack) /\ status.ack # c.ack THEN turns + 1 ELSE turns
        /\ overlaps' = IF beat[b].prev # status.ack THEN overlaps + 1 ELSE overlaps
        /\ UNCHANGED wipesTold
    BY <1>2 DEF Upsert
  <2>2. news => turns' + overlaps' >= turns + overlaps + 1
    BY <1>a, <2>1, NewsHasCause DEF TellType
  <2>3. turns' + overlaps' >= turns + overlaps /\ turns' \in Nat /\ overlaps' \in Nat
    BY <1>a, <2>1 DEF TellType
  <2>4. news \in BOOLEAN
    BY DEF News
  <2> HIDE DEF c, news
  <2>5. b \notin Untold /\ Untold' = IF news THEN Untold \cup {b} ELSE Untold
    BY <1>a, <2>1, <2>4 DEF Untold, TellType
  <2>6. news => Cardinality(Untold') = Cardinality(Untold) + 1
    <3>1. Cardinality(Untold \cup {b}) = Cardinality(Untold) + 1
      BY <2>5, UntoldFinite, FS_AddElement
    <3> QED BY <2>5, <3>1
  <2>7. TellType'
    BY <1>a, <2>1, <2>3 DEF TellType
  <2>8. CASE news
    BY <1>a, <2>1, <2>2, <2>3, <2>6, <2>7, <2>8, UntoldFinite DEF TellInv, TellType
  <2>9. CASE ~news
    BY <1>a, <2>1, <2>3, <2>5, <2>7, <2>9, UntoldFinite DEF TellInv, TellType
  <2> QED BY <2>4, <2>8, <2>9
<1>3. ASSUME NEW b \in Beats, Recorded(b)
      PROVE  TellInv'
  <2>1. /\ beat[b].pc = "stored" /\ beat' = [beat EXCEPT ![b] = NoBeat]
        /\ UNCHANGED <<turns, overlaps>>
    BY <1>3 DEF Recorded
  <2>2. IF beat[b].news THEN wipesTold' \in {wipesTold, wipesTold + 1} ELSE wipesTold' = wipesTold
    BY <1>3 DEF Recorded, Emit
  <2>3. Untold' = Untold \ {b}
    BY <1>a, <2>1 DEF Untold, TellType, NoBeat
  <2>4. TellType'
    BY <1>a, <2>1, <2>2 DEF TellType
  <2>5. CASE b \in Untold
    <3>1. Cardinality(Untold') = Cardinality(Untold) - 1
      BY <2>3, <2>5, UntoldFinite, FS_RemoveElement
    <3> QED BY <1>a, <2>1, <2>2, <2>4, <3>1, UntoldFinite DEF TellInv, TellType
  <2>6. CASE b \notin Untold
    <3>1. Untold' = Untold /\ wipesTold' = wipesTold
      BY <2>1, <2>2, <2>3, <2>6 DEF Untold
    <3> QED BY <1>a, <2>1, <2>4, <3>1 DEF TellInv
  <2> QED BY <2>5, <2>6
<1>4. CASE MainGrows \/ Synced \/ CloneFails \/ WaveConverged \/ Retired
    BY <1>4, <1>u DEF MainGrows, Synced, CloneFails, WaveConverged, Retired
<1>5. ASSUME NEW g, Promoted(g)
      PROVE  TellInv'
    BY <1>5, <1>u DEF Promoted
<1>6. CASE StatusRead \/ StatusFails \/ HeadRead \/ FleetRead \/ Incidents \/ BoardDayPasses
    BY <1>6, <1>u DEF StatusRead, StatusFails, HeadRead, FleetRead, Incidents, BoardDayPasses
<1>7. CASE UNCHANGED boardVars
    BY <1>7, <1>u DEF boardVars, mailVars
<1> QED BY <1>1, <1>2, <1>3, <1>4, <1>5, <1>6, <1>7 DEF ComplianceNext

\* However many check-ins of a device run across each other, a wipe outcome is told
\* of at most once for each change into it and each overlapping statement.
THEOREM WipeAlwaysToldOnce == ComplianceSpec => []WipeToldOnce
<1>1. ComplianceInit => TellInv
  <2>1. SUFFICES ASSUME ComplianceInit PROVE TellInv
    OBVIOUS
  <2>2. TellType /\ wipesTold = 0
    BY <2>1 DEF ComplianceInit, TellType
  <2>3. Untold = {}
    BY <2>1 DEF ComplianceInit, Untold, NoBeat
  <2> QED BY <2>1, <2>2, <2>3, FS_EmptySet DEF TellInv, ComplianceInit
<1>2. TellInv /\ [ComplianceNext]_boardVars => TellInv'
    BY TellStep
<1>3. TellInv => WipeToldOnce
    BY UntoldFinite DEF TellInv, TellType, WipeToldOnce
<1> QED BY <1>1, <1>2, <1>3, PTL DEF ComplianceSpec

(***************************************************************************)
(* The compliance page: what an observation is reported as.                *)
(***************************************************************************)
KindsOf(incidents) == {i[1] : i \in incidents}

\* A rule reports its kind exactly when its condition holds.
LEMMA WhenKinds ==
    ASSUME NEW p \in BOOLEAN, NEW k, NEW s
    PROVE  KindsOf(When(p, k, s)) = IF p THEN {k} ELSE {}
<1>1. CASE p
  <2>1. When(p, k, s) = {<<k, s>>} /\ <<k, s>>[1] = k
    BY <1>1 DEF When
  <2>2. KindsOf({<<k, s>>}) = {<<k, s>>[1]}
    BY DEF KindsOf
  <2> QED BY <1>1, <2>1, <2>2
<1>2. CASE ~p
  <2>1. When(p, k, s) = {}
    BY <1>2 DEF When
  <2>2. KindsOf({}) = {}
    BY DEF KindsOf
  <2> QED BY <1>2, <2>1, <2>2
<1> QED BY <1>1, <1>2

OffTarget(o) == ~unknownConfig(o) /\ o.online /\ o.target # "" /\ o.rev \notin {"", o.target}
Absent(o, now) == o.seen # -1 /\ ~o.online /\ now - o.seen > InactiveWindow
OldCore(o) == o.core # "" /\ o.targetCore # "" /\ o.core # o.targetCore

\* What Detect says about revisions, presence and cores, condition by condition.
LEMMA DetectKinds ==
    ASSUME NEW o, NEW now
    PROVE  /\ "never-seen" \in KindsOf(Detect(o, now)) <=> o.seen = -1
           /\ "offline" \in KindsOf(Detect(o, now)) <=> Absent(o, now)
           /\ "unknown-config" \in KindsOf(Detect(o, now)) <=> unknownConfig(o)
           /\ "behind" \in KindsOf(Detect(o, now)) <=> OffTarget(o)
           /\ "core-outdated" \in KindsOf(Detect(o, now)) <=> OldCore(o)
<1> DEFINE s5 == IF o.targetCore \in DOMAIN CorePinned /\ now - CorePinned[o.targetCore] > CoreGrace
                 THEN "critical" ELSE "warning"
           s4 == IF Ahead(o) THEN "info" ELSE "warning"
           w1 == When(o.seen = -1, "never-seen", "warning")
           w2 == When(Absent(o, now), "offline", "warning")
           w3 == When(unknownConfig(o), "unknown-config", "warning")
           w4 == When(OffTarget(o), "behind", s4)
           w5 == When(OldCore(o), "core-outdated", s5)
           w6 == When(o.failed # {}, "policy-condition", "warning")
           w7 == When(o.err # "" /\ onTarget(o), "errored-stale", "warning")
           w8 == When(o.err # "" /\ ~onTarget(o), "errored", "critical")
           w9 == When(o.ack = "wipe-failed", "wipe-failed", "critical")
           w10 == When(o.ack = "wipe-refused", "wipe-refused", "warning")
<1>1. Detect(o, now) = w1 \cup w2 \cup w3 \cup w4 \cup w5 \cup w6 \cup w7 \cup w8 \cup w9 \cup w10
    BY DEF Detect, Absent, OffTarget, OldCore
<1>2. /\ KindsOf(w1) = IF o.seen = -1 THEN {"never-seen"} ELSE {}
      /\ KindsOf(w2) = IF Absent(o, now) THEN {"offline"} ELSE {}
      /\ KindsOf(w3) = IF unknownConfig(o) THEN {"unknown-config"} ELSE {}
      /\ KindsOf(w4) = IF OffTarget(o) THEN {"behind"} ELSE {}
      /\ KindsOf(w5) = IF OldCore(o) THEN {"core-outdated"} ELSE {}
  <2>1. Absent(o, now) \in BOOLEAN /\ unknownConfig(o) \in BOOLEAN /\ OffTarget(o) \in BOOLEAN /\ OldCore(o) \in BOOLEAN
    BY DEF Absent, unknownConfig, OffTarget, OldCore
  <2>2. (o.seen = -1) \in BOOLEAN
    OBVIOUS
  <2> HIDE DEF s4, s5
  <2>3. KindsOf(w1) = IF o.seen = -1 THEN {"never-seen"} ELSE {}
    BY <2>2, WhenKinds
  <2>4. KindsOf(w2) = IF Absent(o, now) THEN {"offline"} ELSE {}
    BY <2>1, WhenKinds
  <2>5. KindsOf(w3) = IF unknownConfig(o) THEN {"unknown-config"} ELSE {}
    BY <2>1, WhenKinds
  <2>6. KindsOf(w4) = IF OffTarget(o) THEN {"behind"} ELSE {}
    BY <2>1, WhenKinds
  <2>7. KindsOf(w5) = IF OldCore(o) THEN {"core-outdated"} ELSE {}
    BY <2>1, WhenKinds
  <2> QED BY <2>3, <2>4, <2>5, <2>6, <2>7
<1>3. /\ KindsOf(w6) \subseteq {"policy-condition"}
      /\ KindsOf(w7) \subseteq {"errored-stale"} /\ KindsOf(w8) \subseteq {"errored"}
      /\ KindsOf(w9) \subseteq {"wipe-failed"} /\ KindsOf(w10) \subseteq {"wipe-refused"}
  <2>1. ASSUME NEW p \in BOOLEAN, NEW k, NEW s
        PROVE  KindsOf(When(p, k, s)) \subseteq {k}
    BY WhenKinds
  <2> DEFINE p6 == o.failed # {}
             p7 == o.err # "" /\ onTarget(o)
             p8 == o.err # "" /\ ~onTarget(o)
             p9 == o.ack = "wipe-failed"
             p10 == o.ack = "wipe-refused"
  <2>2. p6 \in BOOLEAN /\ p7 \in BOOLEAN /\ p8 \in BOOLEAN /\ p9 \in BOOLEAN /\ p10 \in BOOLEAN
    OBVIOUS
  <2>3. w6 = When(p6, "policy-condition", "warning") /\ w7 = When(p7, "errored-stale", "warning")
        /\ w8 = When(p8, "errored", "critical") /\ w9 = When(p9, "wipe-failed", "critical")
        /\ w10 = When(p10, "wipe-refused", "warning")
    OBVIOUS
  <2> HIDE DEF p6, p7, p8, p9, p10, w6, w7, w8, w9, w10
  <2> QED BY <2>1, <2>2, <2>3
<1> HIDE DEF w1, w2, w3, w4, w5, w6, w7, w8, w9, w10
<1>4. KindsOf(Detect(o, now)) =
        KindsOf(w1) \cup KindsOf(w2) \cup KindsOf(w3) \cup KindsOf(w4) \cup KindsOf(w5)
        \cup KindsOf(w6) \cup KindsOf(w7) \cup KindsOf(w8) \cup KindsOf(w9) \cup KindsOf(w10)
    BY <1>1 DEF KindsOf
<1> QED BY <1>2, <1>3, <1>4

\* A row without incidents is the only one that is shown as fine.
LEMMA OkMeansNone ==
    ASSUME NEW incidents, rowStatus(incidents) = "ok"
    PROVE  incidents = {}
BY DEF rowStatus

\* A stalled wave is not about revisions, presence or cores.
LEMMA RunKinds ==
    ASSUME NEW now, NEW run \in runIncidents(now)
    PROVE  KindsOf(run) \subseteq {"rollout-stalled"}
<1> DEFINE p == StalledFor(now) >= StallWindow
<1>1. run = {} \/ run = When(p, "rollout-stalled", "warning")
    BY DEF runIncidents, DetectRollout
<1>2. p \in BOOLEAN
    OBVIOUS
<1> HIDE DEF p
<1>3. KindsOf(When(p, "rollout-stalled", "warning")) \subseteq {"rollout-stalled"}
    BY <1>2, WhenKinds
<1>4. KindsOf({}) = {}
    BY DEF KindsOf
<1> QED BY <1>1, <1>3, <1>4

\* Online is a shorter window than inactive.
LEMMA OnlineIsRecent ==
    ASSUME NEW now \in Nat, NEW s \in Int, now - s <= OnlineWindow
    PROVE  ~(now - s > InactiveWindow)
BY WindowAssumption

\* Of two kinds that exclude each other, exactly one row or none.
LEMMA OneKind ==
    ASSUME NEW K, ~("behind" \in K /\ "unknown-config" \in K)
    PROVE  Cardinality(K \cap {"behind", "unknown-config"}) = 1 <=> "behind" \in K \/ "unknown-config" \in K
<1>1. CASE "behind" \in K
  <2>1. K \cap {"behind", "unknown-config"} = {"behind"}
    BY <1>1
  <2> QED BY <1>1, <2>1, FS_Singleton
<1>2. CASE "unknown-config" \in K
  <2>1. K \cap {"behind", "unknown-config"} = {"unknown-config"}
    BY <1>2
  <2> QED BY <1>2, <2>1, FS_Singleton
<1>3. CASE "behind" \notin K /\ "unknown-config" \notin K
  <2>1. K \cap {"behind", "unknown-config"} = {}
    BY <1>3
  <2>2. Cardinality(K \cap {"behind", "unknown-config"}) = 0
    BY <2>1, FS_EmptySet
  <2> QED BY <1>3, <2>2
<1> QED BY <1>1, <1>2, <1>3

\* A page with these kinds of rows and this status, and the verdict of the device
\* list, say the same.
Agrees(f, o, now, kinds, shownAs) ==
    LET failures == BaselineVerdict(f, Laptop, o, now)
        off      == "behind ring revision" \in failures /\ o.online /\ o.rev # ""
        missing  == "no recent check-in" \in failures
    IN  /\ off <=> Cardinality(kinds \cap {"behind", "unknown-config"}) = 1
        /\ missing <=> kinds \cap {"never-seen", "offline"} # {}
        /\ o.seen # -1 /\ "behind ring revision" \notin failures =>
                kinds \cap {"behind", "unknown-config", "core-outdated"} = {}
        /\ shownAs = "ok" => ~off /\ ~missing

\* The page and the verdict of the device list agree on every observation whose
\* online mark was computed from the same row on the same day, and whose cores
\* come from one lookup.
LEMMA PageAgrees ==
    ASSUME NEW f, NEW o, NEW now \in Nat, NEW run \in runIncidents(now),
           f.devices[Laptop].state = "active",
           o.seen \in Int, o.online <=> Online(o, now),
           o.target = "" => o.targetCore = "", o.rev = o.target => o.core = o.targetCore
    PROVE  Agrees(f, o, now, KindsOf(Detect(o, now) \cup run), rowStatus(Detect(o, now)))
<1> DEFINE kinds    == KindsOf(Detect(o, now) \cup run)
           failures == BaselineVerdict(f, Laptop, o, now)
           off      == "behind ring revision" \in failures /\ o.online /\ o.rev # ""
           missing  == "no recent check-in" \in failures
           mine     == KindsOf(Detect(o, now))
<1>1. /\ "behind ring revision" \in failures <=> o.seen # -1 /\ o.target # "" /\ o.rev # o.target
      /\ missing <=> o.seen = -1 \/ now - o.seen > InactiveWindow
    BY DEF BaselineVerdict
<1>2. o.online <=> o.seen # -1 /\ now - o.seen <= OnlineWindow
    BY DEF Online
<1>3. \A k \in {"behind", "unknown-config", "never-seen", "offline", "core-outdated"} :
            k \in kinds <=> k \in mine
  <2>1. kinds = mine \cup KindsOf(run)
    BY DEF KindsOf
  <2>2. KindsOf(run) \subseteq {"rollout-stalled"}
    BY RunKinds
  <2> HIDE DEF kinds, mine
  <2> QED BY <2>1, <2>2
<1>4. /\ "never-seen" \in mine <=> o.seen = -1
      /\ "offline" \in mine <=> Absent(o, now)
      /\ "unknown-config" \in mine <=> unknownConfig(o)
      /\ "behind" \in mine <=> OffTarget(o)
      /\ "core-outdated" \in mine <=> OldCore(o)
    BY DetectKinds
<1> HIDE DEF failures, kinds, mine
<1>5. off <=> unknownConfig(o) \/ OffTarget(o)
    BY <1>1, <1>2 DEF unknownConfig, OffTarget
<1>6. ~(unknownConfig(o) /\ OffTarget(o))
    BY DEF OffTarget
<1>7. /\ "unknown-config" \in kinds <=> unknownConfig(o)
      /\ "behind" \in kinds <=> OffTarget(o)
    BY <1>3, <1>4
<1>8. off <=> Cardinality(kinds \cap {"behind", "unknown-config"}) = 1
    BY <1>5, <1>6, <1>7, OneKind
<1>9. missing <=> o.seen = -1 \/ Absent(o, now)
  <2>3. o.online => ~(now - o.seen > InactiveWindow)
    BY <1>2, OnlineIsRecent
  <2> HIDE DEF missing
  <2> QED BY <1>1, <1>2, <2>3 DEF Absent
<1>10. missing <=> kinds \cap {"never-seen", "offline"} # {}
    BY <1>3, <1>4, <1>9
<1>11. o.seen # -1 /\ "behind ring revision" \notin failures =>
            ~unknownConfig(o) /\ ~OffTarget(o) /\ ~OldCore(o)
    BY <1>1 DEF unknownConfig, OffTarget, OldCore
<1>12. o.seen # -1 /\ "behind ring revision" \notin failures =>
            kinds \cap {"behind", "unknown-config", "core-outdated"} = {}
    BY <1>3, <1>4, <1>11
<1>13. rowStatus(Detect(o, now)) = "ok" => ~off /\ ~missing
  <2>1. rowStatus(Detect(o, now)) = "ok" => mine = {}
    BY OkMeansNone DEF mine, KindsOf
  <2> QED BY <1>4, <1>5, <1>9, <2>1
<1> QED BY <1>8, <1>10, <1>12, <1>13 DEF kinds, failures, Agrees

(***************************************************************************)
(* The compliance page, read by read.                                      *)
(***************************************************************************)
ObservedFields ==
    {"rev", "err", "ack", "seen", "sb", "failed", "online", "head", "headRelease", "target", "release"}

\* The clone only ever trails main, and time is counted in days.
RepoInv ==
    /\ published \in DOMAIN Main /\ fetched \in 1..published /\ unreadable \in BOOLEAN
    /\ boardDay \in Nat /\ status.seen \in Int

\* "No revision" is never looked up.
NamedInv == "" \notin DOMAIN coreAtCache

\* What the reads so far have in common: one row, judged on the day it was read,
\* a revision that was held stays held, and a clone that gave its tip and did not
\* fail since can be asked.
PageInv ==
    /\ board.pc \in {"none", "head", "fleet", "target", "shown"}
    /\ board.pc \in {"head", "fleet"} =>
        /\ {"pc", "row", "held", "broke", "online"} \subseteq DOMAIN board
        /\ board.row.seen \in Int
        /\ board.online <=> Online(board.row, boardDay)
        /\ board.held => board.row.rev \in Committed(fetched)
    /\ board.pc = "fleet" =>
        /\ {"head", "headRelease"} \subseteq DOMAIN board
        /\ board.head # "" /\ ~board.broke => ~unreadable
    /\ board.pc = "target" =>
        /\ DOMAIN board = {"pc", "doc", "held", "broke", "o"}
        /\ DOMAIN board.o = ObservedFields
        /\ board.o.seen \in Int
        /\ board.o.online <=> Online(board.o, boardDay)
        /\ board.held /\ ~board.broke /\ board.o.head # "" => board.o.release # 0

BoardInv == RepoInv /\ NamedInv /\ PageInv /\ BoardIsTrue

\* The repository and the clock: main grows, the clone follows.
LEMMA RepoStep ==
    ASSUME RepoInv, [ComplianceNext]_boardVars
    PROVE  RepoInv' /\ Committed(fetched) \subseteq Committed(fetched')
<1>a. RepoInv
    OBVIOUS
<1>m. Len(Main) \in Nat /\ DOMAIN Main = 1..Len(Main)
    BY MainAssumption
<1>s. SUFFICES RepoInv' /\ fetched' >= fetched
  <2>1. ASSUME RepoInv', fetched' >= fetched
        PROVE  1..fetched \subseteq 1..fetched'
    BY <1>a, <1>m, <2>1 DEF RepoInv
  <2> QED BY <2>1 DEF Committed
<1>u. ASSUME UNCHANGED <<repoVars, status, boardDay>>
      PROVE  RepoInv' /\ fetched' >= fetched
    BY <1>a, <1>m, <1>u DEF RepoInv, repoVars
<1>1. ASSUME NEW b \in Beats, NEW c \in Reports, CheckInStarts(b, c)
      PROVE  RepoInv' /\ fetched' >= fetched
    BY <1>1, <1>u DEF CheckInStarts
<1>2. ASSUME NEW b \in Beats, Upsert(b)
      PROVE  RepoInv' /\ fetched' >= fetched
  <2>1. status'.seen = boardDay /\ UNCHANGED <<repoVars, boardDay>>
    BY <1>2 DEF Upsert, Merged
  <2> QED BY <1>a, <1>m, <2>1 DEF RepoInv, repoVars
<1>3. ASSUME NEW b \in Beats, Recorded(b)
      PROVE  RepoInv' /\ fetched' >= fetched
    BY <1>3, <1>u DEF Recorded
<1>4. CASE MainGrows
    BY <1>a, <1>m, <1>4 DEF MainGrows, RepoInv
<1>5. CASE Synced
    BY <1>a, <1>m, <1>5 DEF Synced, RepoInv
<1>6. CASE CloneFails
    BY <1>a, <1>m, <1>6 DEF CloneFails, RepoInv
<1>7. CASE WaveConverged \/ Retired \/ \E g \in DOMAIN bdoc.groups : Promoted(g)
    BY <1>7, <1>u DEF WaveConverged, Retired, Promoted
<1>8. CASE StatusRead \/ StatusFails \/ HeadRead \/ FleetRead \/ Incidents
    BY <1>8, <1>u DEF StatusRead, StatusFails, HeadRead, FleetRead, Incidents
<1>9. CASE BoardDayPasses
    BY <1>a, <1>m, <1>9 DEF BoardDayPasses, RepoInv, repoVars
<1>10. CASE UNCHANGED boardVars
    BY <1>10, <1>u DEF boardVars, repoVars
<1> QED BY <1>1, <1>2, <1>3, <1>4, <1>5, <1>6, <1>7, <1>8, <1>9, <1>10 DEF ComplianceNext

\* Lookups are made for revisions that have a name.
LEMMA NamedStep ==
    ASSUME NamedInv, [ComplianceNext]_boardVars
    PROVE  NamedInv'
<1>u. ASSUME UNCHANGED coreAtCache
      PROVE  NamedInv'
    BY <1>u DEF NamedInv
<1>1. CASE Incidents
  <2>1. PICK r : DOMAIN coreAtCache' = DOMAIN coreAtCache \cup (r \ {""})
    BY <1>1 DEF Incidents
  <2> QED BY <2>1 DEF NamedInv
<1>2. CASE \E b \in Beats : Upsert(b) \/ Recorded(b) \/ \E c \in Reports : CheckInStarts(b, c)
    BY <1>2, <1>u DEF Upsert, Recorded, CheckInStarts
<1>3. CASE MainGrows \/ Synced \/ CloneFails \/ WaveConverged \/ Retired \/ \E g \in DOMAIN bdoc.groups : Promoted(g)
    BY <1>3, <1>u DEF MainGrows, Synced, CloneFails, WaveConverged, Retired, Promoted
<1>4. CASE StatusRead \/ StatusFails \/ HeadRead \/ FleetRead \/ BoardDayPasses
    BY <1>4, <1>u DEF StatusRead, StatusFails, HeadRead, FleetRead, BoardDayPasses
<1>5. CASE UNCHANGED boardVars
    BY <1>5, <1>u DEF boardVars
<1> QED BY <1>1, <1>2, <1>3, <1>4, <1>5 DEF ComplianceNext

\* A revision the clone has, and can be asked for, has a number.
LEMMA HeldIsCounted ==
    ASSUME RepoInv, NEW rev \in Committed(fetched), ~unreadable
    PROVE  ReleaseNumber(rev) # 0
<1>1. PICK i \in 1..fetched : Main[i] = rev
    BY DEF Committed
<1>2. i \in DOMAIN Main
    BY MainAssumption DEF RepoInv
<1>3. ReleaseNumber(rev) = CHOOSE j \in DOMAIN Main : Main[j] = rev
    BY DEF ReleaseNumber, Readable
<1>4. (CHOOSE j \in DOMAIN Main : Main[j] = rev) \in DOMAIN Main
    BY <1>1, <1>2
<1>5. 0 \notin DOMAIN Main
    BY MainAssumption
<1> QED BY <1>3, <1>4, <1>5

\* Whatever moves while a page is assembled, its reads stay what they were.
LEMMA PageStep ==
    ASSUME BoardInv, [ComplianceNext]_boardVars
    PROVE  PageInv'
<1>a. RepoInv /\ PageInv /\ Committed(fetched) \subseteq Committed(fetched')
    BY RepoStep DEF BoardInv
<1>z. ASSUME board' = NoPage
      PROVE  PageInv'
    BY <1>z DEF PageInv, NoPage
<1>s. ASSUME board' = board, UNCHANGED <<boardDay, unreadable>>
      PROVE  PageInv'
    BY <1>a, <1>s DEF PageInv, Online
<1>p. ASSUME PageStays, UNCHANGED <<boardDay, unreadable>>
      PROVE  PageInv'
    BY <1>p, <1>s, <1>z DEF PageStays
<1>1. CASE \E b \in Beats : Upsert(b) \/ Recorded(b) \/ \E c \in Reports : CheckInStarts(b, c)
    BY <1>1, <1>p DEF Upsert, Recorded, CheckInStarts, repoVars
<1>2. CASE MainGrows \/ Synced \/ WaveConverged \/ Retired \/ \E g \in DOMAIN bdoc.groups : Promoted(g)
    BY <1>2, <1>p DEF MainGrows, Synced, WaveConverged, Retired, Promoted, repoVars
<1>3. CASE CloneFails
  <2>1. CASE board.pc \in {"none", "shown"}
    BY <1>3, <1>z, <2>1 DEF CloneFails
  <2>2. CASE board.pc \in {"head", "fleet", "target"}
    <3>1. /\ board' = [board EXCEPT !.broke = TRUE] /\ UNCHANGED <<boardDay, fetched>>
      BY <1>3, <2>2 DEF CloneFails
    <3>2. DOMAIN board' = DOMAIN board /\ \A f \in DOMAIN board : f # "broke" => board'[f] = board[f]
      BY <3>1
    <3>3. board'.broke = TRUE
      BY <1>a, <2>2, <3>1 DEF PageInv
    <3>4. CASE board.pc = "head"
      BY <1>a, <3>1, <3>2, <3>3, <3>4 DEF PageInv, Online
    <3>5. CASE board.pc = "fleet"
      BY <1>a, <3>1, <3>2, <3>3, <3>5 DEF PageInv, Online
    <3>6. CASE board.pc = "target"
      BY <1>a, <3>1, <3>2, <3>3, <3>6 DEF PageInv, Online
    <3> QED BY <2>2, <3>4, <3>5, <3>6
  <2> QED BY <1>a, <2>1, <2>2 DEF PageInv
<1>4. CASE StatusRead
  <2> DEFINE h == status.rev \in Committed(fetched)
             on == Online(status, boardDay)
  <2>1. board' = [pc |-> "head", row |-> status, held |-> h, broke |-> FALSE, online |-> on]
    BY <1>4 DEF StatusRead
  <2>2. status.seen \in Int /\ UNCHANGED <<status, boardDay, fetched>>
    BY <1>a, <1>4 DEF StatusRead, RepoInv, repoVars
  <2>3. /\ board'.pc = "head" /\ board'.row = status /\ board'.held = h /\ board'.online = on
        /\ DOMAIN board' = {"pc", "row", "held", "broke", "online"}
    BY <2>1
  <2> QED BY <2>2, <2>3 DEF PageInv, Online
<1>5. CASE StatusFails
  <2>1. board'.pc = "shown"
    BY <1>5 DEF StatusFails
  <2> QED BY <2>1 DEF PageInv
<1>6. CASE HeadRead
  <2> DEFINE head == IF unreadable THEN "" ELSE Main[fetched]
             n == ReleaseNumber(head)
  <2>1. /\ board' = [pc |-> "fleet", row |-> board.row, held |-> board.held, broke |-> board.broke,
                     online |-> board.online, head |-> head, headRelease |-> n]
        /\ board.pc = "head" /\ UNCHANGED <<boardDay, fetched, unreadable>>
    BY <1>6 DEF HeadRead, repoVars
  <2>2. head # "" => ~unreadable
    OBVIOUS
  <2> HIDE DEF head, n
  <2>3. /\ board'.pc = "fleet" /\ board'.row = board.row /\ board'.held = board.held
        /\ board'.online = board.online /\ board'.head = head
        /\ DOMAIN board' = {"pc", "row", "held", "broke", "online", "head", "headRelease"}
    BY <2>1
  <2> QED BY <1>a, <2>1, <2>2, <2>3 DEF PageInv, Online
<1>7. CASE FleetRead
  <2> DEFINE o == [rev |-> board.row.rev, err |-> board.row.err, ack |-> board.row.ack,
                   seen |-> board.row.seen, sb |-> board.row.sb,
                   failed |-> failedConditions(bdoc, Laptop, Metrics(board.row.usage)),
                   online |-> board.online, head |-> board.head, headRelease |-> board.headRelease,
                   target |-> TargetRevision(bdoc, Laptop),
                   release |-> ReleaseNumber(board.row.rev)]
  <2>1. /\ board' = [pc |-> "target", doc |-> bdoc, held |-> board.held, broke |-> board.broke, o |-> o]
        /\ board.pc = "fleet" /\ UNCHANGED <<boardDay, fetched, unreadable>>
    BY <1>7 DEF FleetRead, repoVars
  <2>2. /\ DOMAIN o = ObservedFields /\ o.rev = board.row.rev /\ o.seen = board.row.seen
        /\ o.online = board.online /\ o.head = board.head /\ o.release = ReleaseNumber(board.row.rev)
    BY DEF ObservedFields
  <2> HIDE DEF o
  <2>3. /\ board'.pc = "target" /\ board'.o = o /\ board'.held = board.held /\ board'.broke = board.broke
        /\ DOMAIN board' = {"pc", "doc", "held", "broke", "o"}
    BY <2>1
  <2>4. o.seen \in Int /\ (o.online <=> Online(o, boardDay))
    BY <1>a, <2>1, <2>2 DEF PageInv, Online
  <2>5. ASSUME board.held, ~board.broke, o.head # ""
        PROVE  o.release # 0
    <3>1. board.row.rev \in Committed(fetched) /\ ~unreadable
      BY <1>a, <2>1, <2>2, <2>5 DEF PageInv
    <3> QED BY <1>a, <2>2, <3>1, HeldIsCounted
  <2> QED BY <2>1, <2>2, <2>3, <2>4, <2>5 DEF PageInv, Online
<1>8. CASE Incidents
  <2>1. \E o, i, st : board' = [pc |-> "shown", doc |-> board.doc, held |-> board.held, broke |-> board.broke,
                               blind |-> FALSE, o |-> o, incidents |-> i, status |-> st]
    BY <1>8 DEF Incidents
  <2>2. board'.pc = "shown"
    BY <2>1
  <2> QED BY <2>2 DEF PageInv
<1>9. CASE BoardDayPasses
    BY <1>9, <1>z DEF BoardDayPasses
<1>10. CASE UNCHANGED boardVars
    BY <1>10, <1>s DEF boardVars, repoVars
<1> QED BY <1>1, <1>2, <1>3, <1>4, <1>5, <1>6, <1>7, <1>8, <1>9, <1>10 DEF ComplianceNext

\* Only a page that has just been assembled is on show, and it is true.
LEMMA TrueStep ==
    ASSUME BoardInv, [ComplianceNext]_boardVars
    PROVE  BoardIsTrue'
<1>a. RepoInv /\ NamedInv /\ PageInv /\ BoardIsTrue
    BY DEF BoardInv
<1>z. ASSUME board'.pc # "shown"
      PROVE  BoardIsTrue'
    BY <1>z DEF BoardIsTrue
<1>y. NoPage.pc # "shown"
    BY DEF NoPage
<1>p. ASSUME PageStays
      PROVE  BoardIsTrue'
    BY <1>p, <1>y, <1>z DEF PageStays
<1>1. CASE \E b \in Beats : Upsert(b) \/ Recorded(b) \/ \E c \in Reports : CheckInStarts(b, c)
    BY <1>1, <1>p DEF Upsert, Recorded, CheckInStarts
<1>2. CASE MainGrows \/ Synced \/ WaveConverged \/ Retired \/ \E g \in DOMAIN bdoc.groups : Promoted(g)
    BY <1>2, <1>p DEF MainGrows, Synced, WaveConverged, Retired, Promoted
<1>3. CASE CloneFails
  <2>1. CASE board.pc \in {"none", "shown"}
    BY <1>3, <1>y, <1>z, <2>1 DEF CloneFails
  <2>2. CASE board.pc \in {"head", "fleet", "target"}
    <3>1. board' = [board EXCEPT !.broke = TRUE] /\ "pc" \in DOMAIN board
      BY <1>a, <1>3, <2>2 DEF CloneFails, PageInv
    <3>2. board'.pc = board.pc
      BY <3>1
    <3> QED BY <1>z, <2>2, <3>2
  <2> QED BY <1>a, <2>1, <2>2 DEF PageInv
<1>4. CASE StatusRead \/ HeadRead \/ FleetRead
  <2>1. board'.pc \in {"head", "fleet", "target"}
    <3>1. CASE StatusRead
      BY <3>1 DEF StatusRead
    <3>2. CASE HeadRead
      BY <3>2 DEF HeadRead
    <3>3. CASE FleetRead
      BY <3>3 DEF FleetRead
    <3> QED BY <1>4, <3>1, <3>2, <3>3
  <2> QED BY <1>z, <2>1
<1>5. CASE StatusFails
  <2>1. board'.blind
    BY <1>5 DEF StatusFails
  <2> QED BY <2>1 DEF BoardIsTrue
<1>6. CASE BoardDayPasses
    BY <1>6, <1>y, <1>z DEF BoardDayPasses
<1>7. CASE UNCHANGED boardVars
    BY <1>a, <1>7 DEF boardVars, BoardIsTrue, Kinds
<1>8. CASE Incidents
  <2> DEFINE target == board.o.target
             rest == [targetRelease |-> ReleaseNumber(target),
                      core |-> CoreVersionAt(board.o.rev), targetCore |-> CoreVersionAt(target)]
             o == [f \in DOMAIN board.o \cup DOMAIN rest |->
                      IF f \in DOMAIN rest THEN rest[f] ELSE board.o[f]]
             mine == IF board.doc.devices[Laptop].state = "retired" THEN {} ELSE Detect(o, boardDay)
  <2>1. PICK run \in runIncidents(boardDay) :
            board' = [pc |-> "shown", doc |-> board.doc, held |-> board.held, broke |-> board.broke,
                      blind |-> FALSE, o |-> o, incidents |-> mine \cup run, status |-> rowStatus(mine)]
    BY <1>8 DEF Incidents
  <2>2. board.pc = "target" /\ boardDay' = boardDay
    BY <1>8 DEF Incidents
  <2>3. DOMAIN rest = {"targetRelease", "core", "targetCore"}
    OBVIOUS
  <2>4. /\ o.core = CoreVersionAt(board.o.rev) /\ o.targetCore = CoreVersionAt(target)
        /\ \A f \in ObservedFields : o[f] = board.o[f]
    <3>1. DOMAIN board.o = ObservedFields
      BY <1>a, <2>2 DEF PageInv
    <3>2. rest.core = CoreVersionAt(board.o.rev) /\ rest.targetCore = CoreVersionAt(target)
      OBVIOUS
    <3>3. \A f \in ObservedFields : f \notin DOMAIN rest
      BY <2>3 DEF ObservedFields
    <3> HIDE DEF rest
    <3> QED BY <2>3, <3>1, <3>2, <3>3
  <2> HIDE DEF rest, o
  <2>5. /\ o.rev = board.o.rev /\ o.target = target /\ o.seen = board.o.seen /\ o.online = board.o.online
        /\ o.head = board.o.head /\ o.release = board.o.release
    BY <2>4 DEF ObservedFields
  <2> HIDE DEF target
  <2>6. o.seen \in Int /\ (o.online <=> Online(o, boardDay))
    BY <1>a, <2>2, <2>5 DEF PageInv, Online
  <2>7. o.target = "" => o.targetCore = ""
    <3>1. "" \notin Committed(fetched)
      <4>1. 1..fetched \subseteq DOMAIN Main
        BY <1>a, MainAssumption DEF RepoInv
      <4> QED BY <4>1, NameAssumption DEF Committed
    <3> QED BY <1>a, <2>4, <2>5, <3>1 DEF CoreVersionAt, Readable, NamedInv
  <2>8. o.rev = o.target => o.core = o.targetCore
    BY <2>4, <2>5
  <2>9. board.held /\ ~board.broke => ~unknownConfig(o)
    BY <1>a, <2>2, <2>5 DEF PageInv, unknownConfig
  <2> DEFINE act == board.doc.devices[Laptop].state
             kinds == KindsOf(mine \cup run)
  <2>10. /\ board'.pc = "shown" /\ board'.doc = board.doc /\ board'.held = board.held
         /\ board'.broke = board.broke /\ board'.o = o /\ board'.status = rowStatus(mine)
         /\ board'.incidents = mine \cup run
    <3> HIDE DEF mine
    <3> QED BY <2>1
  <2>11. Kinds' = kinds
    BY <2>10 DEF Kinds, KindsOf
  <2>12. "unknown-config" \in kinds => unknownConfig(o)
    <3>1. "unknown-config" \notin KindsOf(run)
      BY RunKinds
    <3>2. "unknown-config" \in kinds => "unknown-config" \in KindsOf(mine)
      BY <3>1 DEF KindsOf
    <3>3. mine = {} \/ mine = Detect(o, boardDay)
      OBVIOUS
    <3>4. KindsOf({}) = {}
      BY DEF KindsOf
    <3> HIDE DEF mine, kinds
    <3> QED BY <3>2, <3>3, <3>4, DetectKinds
  <2>13. CASE act # "active"
    BY <2>9, <2>10, <2>11, <2>12, <2>13 DEF BoardIsTrue
  <2>14. CASE act = "active"
    <3>1. mine = Detect(o, boardDay)
      BY <2>14
    <3>2. boardDay \in Nat
      BY <1>a DEF RepoInv
    <3> HIDE DEF mine
    <3>3. Agrees(board.doc, o, boardDay, kinds, rowStatus(mine))
      BY <2>6, <2>7, <2>8, <2>14, <3>1, <3>2, PageAgrees
    <3> HIDE DEF kinds
    <3> QED BY <2>2, <2>9, <2>10, <2>11, <2>12, <3>3 DEF BoardIsTrue, Agrees
  <2> QED BY <2>13, <2>14
<1> QED BY <1>1, <1>2, <1>3, <1>4, <1>5, <1>6, <1>7, <1>8 DEF ComplianceNext

\* The compliance page is true for every history of main, every document and
\* every interleaving of check-ins, commits and failures of the clone.
THEOREM BoardAlwaysTrue == ComplianceSpec => []BoardIsTrue
<1>1. ComplianceInit => BoardInv
  <2>1. SUFFICES ASSUME ComplianceInit PROVE BoardInv
    OBVIOUS
  <2>2. board.pc = "none" /\ status.seen = -1
    <3>1. NoPage.pc = "none"
      BY DEF NoPage
    <3>2. NoStatus.seen = -1
      BY DEF NoStatus
    <3> QED BY <2>1, <3>1, <3>2 DEF ComplianceInit
  <2>3. RepoInv
    <3>1. published = FirstHeld /\ fetched = FirstHeld /\ unreadable = FALSE /\ boardDay = 0
      BY <2>1 DEF ComplianceInit
    <3>2. FirstHeld \in DOMAIN Main /\ FirstHeld \in 1..FirstHeld
      BY MainAssumption
    <3>3. unreadable \in BOOLEAN /\ published \in DOMAIN Main /\ fetched \in 1..published
      BY <3>1, <3>2
    <3>4. boardDay \in Nat
      BY <3>1
    <3>5. status.seen \in Int
      BY <2>2
    <3> QED BY <3>3, <3>4, <3>5 DEF RepoInv
  <2>4. NamedInv
    <3>1. DOMAIN <<>> = {}
      OBVIOUS
    <3> QED BY <2>1, <3>1 DEF ComplianceInit, NamedInv
  <2> QED BY <2>2, <2>3, <2>4 DEF BoardInv, PageInv, BoardIsTrue
<1>2. BoardInv /\ [ComplianceNext]_boardVars => BoardInv'
    BY RepoStep, NamedStep, PageStep, TrueStep DEF BoardInv
<1>3. BoardInv => BoardIsTrue
    BY DEF BoardInv
<1> QED BY <1>1, <1>2, <1>3, PTL DEF ComplianceSpec
=============================================================================
