--------------------------- MODULE EnrolmentRings ---------------------------
(***************************************************************************)
(* Enrolling a machine into a fleet whose rings trail the main branch: the *)
(* console's batch enrolment (src/internal/http/web/enroll.go), the guard  *)
(* that fast-forwards the covering ring branches to the enrolment commit   *)
(* (src/internal/app/enrolment_rings.go) and, beside them, operators who   *)
(* edit and a rollout that promotes.                                       *)
(*                                                                         *)
(* Nothing of this holds the rollout's lock.  A revision is its place in   *)
(* docs; a device's configuration shape is a number.                       *)
(***************************************************************************)
EXTENDS Integers, Sequences, FiniteSets

CONSTANTS
    Enrolments,     \* the handlers at work
    NameOf,         \* [Enrolments -> the tag the operator typed]
    Serials,        \* [Enrolments -> SUBSET serial]: which machine it may be
    OldDevices,     \* devices of the fleet so far
    Covering,       \* [tag -> SUBSET Rings]: groups of the device and their ancestors
    Rings,          \* 1..n, in the order of their names
    MaxDocs         \* bound: revisions of the document

VARIABLES
    docs,       \* Seq([devs, shape, pins, serial]): main, revision by revision
    ring,       \* [Rings -> revision]: the ring branches as pushed
    localRing,  \* the same refs in the console's clone
    enrol,      \* [Enrolments -> the handler]
    promoting   \* [Rings -> the target a promotion has pinned and not pushed, or 0]

enrolVars == <<docs, ring, localRing, enrol, promoting>>

AllTags == OldDevices \cup {NameOf[e] : e \in Enrolments}

\* A ring is a number in the order of the names; only rings cover a device.
ASSUME RingsAssumption == Rings \subseteq Nat /\ \A t \in AllTags : Covering[t] \subseteq Rings

headRev == Len(docs)
doc(rev) == docs[rev]

\* ConfigService.Apply, as far as this flow goes: one commit on main.
enrolApply(d) == headRev < MaxDocs /\ docs' = Append(docs, d)

\* Another writer came between what a handler read and what it does with it.
Disturb(when, g) ==
    [e \in Enrolments |->
        IF enrol[e].pc \in when /\ (g = 0 \/ g \in Covering[NameOf[e]])
        THEN [enrol[e] EXCEPT !.raced = TRUE] ELSE enrol[e]]

(***************************************************************************)
(* The guard.                                                              *)
(***************************************************************************)
\* Seeded fault: the device's own group only, not the groups above it.
coveringPinsDirect(tags, f, rev) ==
    {g \in Rings : \E t \in tags \cap f.devs :
        g \in Covering[t] /\ f.pins[g] \notin {0, rev} /\ \A h \in Covering[t] : g <= h}

\* Which rings cover the tags, with the pin each has in the snapshot.
coveringPins(tags, f, rev) ==
    {g \in Rings : \E t \in tags \cap f.devs : g \in Covering[t] /\ f.pins[g] \notin {0, rev}}

\* Seeded fault: the guard compares only what is outside every class key.
membersChangedGlobals(f, g, enrolling) ==
    LET old == doc(f.pins[g]) IN
    {t \in old.devs \ enrolling : g \in Covering[t] /\ old.globals # f.globals}

\* Members the pinned revision knows whose shape, or the part of the document
\* outside every shape, differs between it and the snapshot.
membersChangedBetween(f, g, enrolling) ==
    LET old == doc(f.pins[g]) IN
    {t \in old.devs \ enrolling :
        g \in Covering[t] /\ (old.globals # f.globals \/ old.shape[t] # f.shape[t])}

(***************************************************************************)
(* postEnrollBatch.                                                        *)
(***************************************************************************)
ProvisionalBySerial(f, s) == {t \in f.devs \ OldDevices : f.serial[t] = s}

\* The one gated commit of the batch: an unconfirmed record of the machine keeps
\* its tag, anything else is a new device; a name that is taken aborts.
enrolCommit(e) ==
    /\ enrol[e].pc = "new"
    /\ LET f == doc(headRev)
           s == enrol[e].serial
           prior == ProvisionalBySerial(f, s)
           tag == NameOf[e] IN
       IF prior # {}
       THEN \E t \in prior :
              /\ enrolApply(f)
              /\ enrol' = [Disturb({"snapshot"}, 0) EXCEPT ![e].pc = "head", ![e].kept = t]
       ELSE /\ tag \notin f.devs
            /\ enrolApply([f EXCEPT !.devs = @ \cup {tag}, !.serial[tag] = s])
            /\ enrol' = [Disturb({"snapshot"}, 0) EXCEPT ![e].pc = "head", ![e].kept = tag]
    /\ UNCHANGED <<ring, localRing, promoting>>

\* enrolRev: the head, which may be a later commit already.
readHead(e) ==
    /\ enrol[e].pc = "head"
    /\ enrol' = [enrol EXCEPT ![e].pc = "snapshot", ![e].rev = headRev]
    /\ UNCHANGED <<docs, ring, localRing, promoting>>

\* EnsureRingsContain takes its snapshot of the fleet and looks for pinned rings
\* that cover the tags it was given: the typed ones.
snapshotRings(e) ==
    /\ enrol[e].pc = "snapshot"
    /\ enrol' = [enrol EXCEPT ![e].pc = "rings", ![e].seen = headRev,
            ![e].raced = @ \/ \E g \in Covering[NameOf[e]] : promoting[g] # 0,
            ![e].todo = coveringPins({NameOf[e]}, doc(headRev), enrol[e].rev)]
    /\ UNCHANGED <<docs, ring, localRing, promoting>>

NextRing(e) == CHOOSE g \in enrol[e].todo : \A h \in enrol[e].todo : g <= h

\* Ring by ring: refuse when a member would change ...
refuseRing(e) ==
    /\ enrol[e].pc = "rings" /\ enrol[e].todo # {}
    /\ membersChangedBetween(doc(enrol[e].seen), NextRing(e), {NameOf[e]}) # {}
    /\ enrol' = [enrol EXCEPT ![e].pc = "refused"]
    /\ UNCHANGED <<docs, ring, localRing, promoting>>

\* ... otherwise move the branch in the clone ...
SetRef(e) ==
    /\ enrol[e].pc = "rings" /\ enrol[e].todo # {}
    /\ membersChangedBetween(doc(enrol[e].seen), NextRing(e), {NameOf[e]}) = {}
    /\ localRing' = [localRing EXCEPT ![NextRing(e)] = enrol[e].rev]
    /\ enrol' = [x \in Enrolments |->
            IF x = e THEN [enrol[e] EXCEPT !.pc = "push"]
            ELSE Disturb({"rings", "push"}, NextRing(e))[x]]
    /\ UNCHANGED <<docs, ring, promoting>>

\* ... and push it, with force.  A push that fails stops the batch.
PushRef(e) ==
    /\ enrol[e].pc = "push"
    /\ LET g == NextRing(e) IN
       \/ /\ ring' = [ring EXCEPT ![g] = localRing[g]]
          /\ enrol' = [x \in Enrolments |->
                IF x = e THEN [enrol[e] EXCEPT !.pc = "rings", !.todo = @ \ {g}]
                ELSE Disturb({"rings", "push"}, g)[x]]
       \/ enrol' = [enrol EXCEPT ![e].pc = "refused"] /\ UNCHANGED ring
    /\ UNCHANGED <<docs, localRing, promoting>>

\* Every covering ring contains the commit: dispatch the image job.
dispatchImage(e) ==
    /\ enrol[e].pc = "rings" /\ enrol[e].todo = {}
    /\ enrol' = [enrol EXCEPT ![e].pc = "dispatched"]
    /\ UNCHANGED <<docs, ring, localRing, promoting>>

(***************************************************************************)
(* The others.                                                             *)
(***************************************************************************)
\* An operator edits a device's configuration, or what no shape covers.
editConfig ==
    /\ LET f == doc(headRev) IN
       \/ \E t \in f.devs : enrolApply([f EXCEPT !.shape[t] = 1 - @])
       \/ enrolApply([f EXCEPT !.globals = 1 - @])
    /\ enrol' = Disturb({"snapshot"}, 0)
    /\ UNCHANGED <<ring, localRing, promoting>>

\* A rollout pins the group to its target, then moves the branch there.
pinRing(g) ==
    /\ promoting[g] = 0
    /\ \E target \in (doc(headRev).pins[g] + 1)..headRev :
        /\ enrolApply([doc(headRev) EXCEPT !.pins[g] = target])
        /\ promoting' = [promoting EXCEPT ![g] = target]
    /\ enrol' = Disturb({"snapshot"}, 0)
    /\ UNCHANGED <<ring, localRing>>

moveRingRef(g) ==
    /\ promoting[g] # 0
    /\ ring' = [ring EXCEPT ![g] = promoting[g]]
    /\ localRing' = [localRing EXCEPT ![g] = promoting[g]]
    /\ promoting' = [promoting EXCEPT ![g] = 0]
    /\ enrol' = Disturb({"rings", "push"}, g)
    /\ UNCHANGED docs

EnrolInit ==
    /\ docs = <<[devs |-> OldDevices, shape |-> [t \in AllTags |-> 0], globals |-> 0,
                 serial |-> [t \in AllTags |-> "none"], pins |-> [g \in Rings |-> 1]]>>
    /\ ring = [g \in Rings |-> 1] /\ localRing = ring
    /\ promoting = [g \in Rings |-> 0]
    /\ enrol \in {[e \in Enrolments |-> [pc |-> "new", serial |-> m[e], kept |-> "none", rev |-> 0,
                                         seen |-> 0, todo |-> {}, raced |-> FALSE]] :
                    m \in {m \in [Enrolments -> UNION {Serials[e] : e \in Enrolments}] :
                            \A e \in Enrolments : m[e] \in Serials[e]}}

EnrolNext ==
    \/ \E e \in Enrolments :
        \/ enrolCommit(e) \/ readHead(e) \/ snapshotRings(e)
        \/ refuseRing(e) \/ SetRef(e) \/ PushRef(e) \/ dispatchImage(e)
    \/ editConfig
    \/ \E g \in Rings : pinRing(g) \/ moveRingRef(g)

EnrolSpec == EnrolInit /\ [][EnrolNext]_enrolVars

(***************************************************************************)
(* Properties.                                                             *)
(***************************************************************************)
\* A ring an enrolment moves serves every member the pinned revision knew the
\* shape it had there, the revision that was soaked: nothing rides along without
\* its soak.  Exact up to the race the guard does not close: a promotion between
\* its pin and its push, or another enrolment, that moves the ring after the
\* snapshot, a commit between the head and the snapshot.  Devices enrolled since
\* the pin are outside the guard.
QuietAdvance ==
    [][\A e \in Enrolments : \A g \in Rings :
        enrol[e].pc = "push" /\ enrol'[e].pc = "rings" /\ ~enrol[e].raced /\ ring'[g] # ring[g] =>
            LET pinned == doc(doc(enrol[e].seen).pins[g]) IN
            \A t \in pinned.devs \ {NameOf[e]} :
                g \in Covering[t] =>
                    /\ doc(ring'[g]).shape[t] = pinned.shape[t]
                    /\ doc(ring'[g]).globals = pinned.globals]_enrolVars

\* When an image job is dispatched its device exists in the revision it is imaged
\* from and in every ring that covers it, so the first boot finds itself there.
\* Only a handler that was raced, and a batch that reused an earlier record under
\* another name, may dispatch without.
DispatchedIsKnown ==
    [][\A e \in Enrolments :
        enrol'[e].pc = "dispatched" /\ enrol[e].pc # "dispatched" /\ ~enrol[e].raced
                /\ enrol[e].kept = NameOf[e] =>
            /\ NameOf[e] \in doc(enrol[e].rev).devs
            /\ \A g \in Covering[NameOf[e]] :
                 doc(enrol[e].seen).pins[g] # 0 => NameOf[e] \in doc(ring[g]).devs]_enrolVars
=============================================================================
