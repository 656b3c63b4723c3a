---------------------------- MODULE DeviceProofs ----------------------------
(***************************************************************************)
(* Proofs about a machine on its way into the fleet and in it, for every   *)
(* set of intents, configurations, enrolments, window and number of        *)
(* faults, and about the replica that does the console's own work.         *)
(*                                                                         *)
(* Remote actions: what the root executor leaves on the device's disk for  *)
(* the console, the recovery key and the diagnostics bundle, is not lost   *)
(* between the two, except a bundle an upload crosses, and a reboot order  *)
(* reboots once.                                                           *)
(*                                                                         *)
(* Image jobs: a job's status is one a station's report has earned.        *)
(*                                                                         *)
(* Leadership: WorkersExclusive for any number of replicas and failures.   *)
(* Exclusion is the database's promise about a session; what the code has  *)
(* to add is that a worker never outlives the leadership it was started    *)
(* under unnoticed.                                                        *)
(*                                                                         *)
(* Enrolment: QuietAdvance and DispatchedIsKnown for any number of         *)
(* enrolments, rings and revisions.  What an enrolment read is still true  *)
(* when it moves a ring, unless another writer came between.               *)
(***************************************************************************)
EXTENDS RemoteActions, ImageJobs, Workers, EnrolmentRings, WellFoundedInduction, TLAPS

\* Intents and outcomes.
Words == {"none", "reboot", "lock", "wipe", "diagnostics", "rebooted", "wipe-refused",
          "wipe-failed", "diagnostics-failed", "tpm2-enrolled"}

\* The shape of the state.
BundleFiles == [no : Nat, whole : BOOLEAN]
Collections == [made : Nat, writing : BOOLEAN, kept : Nat, crossed : BOOLEAN]

AgentMemory ==
    [pc : {"idle", "collected", "upload", "send", "answered", "answeredSealed"},
     pending : Words, carried : Words, challenge : Nat, echo : Nat,
     key : {0, 1}, bundle : BundleFiles, reply : Words, ts : Nat]

StateDirectory ==
    [ack : Words, stamp : {"none", "this", "earlier"}, key : {0, 1}, bundle : BundleFiles,
     locked : BOOLEAN]

ActionTypeOK ==
    /\ armed \in Words
    /\ agent \in AgentMemory
    /\ disk \in StateDirectory
    /\ console \in [key : {0, 1}, bundle : BundleFiles]
    /\ bundles \in Collections /\ keys \in {0, 1}
    /\ clock \in Nat

\* Whatever key the beat carries is the minted one, and a beat answered as sealed
\* has left it with the console.
KeyTravels ==
    /\ disk.key # 0 => disk.key = keys
    /\ agent.key # 0 => agent.key = keys
    /\ agent.pc = "answeredSealed" => console.key = keys

\* Unless an upload crosses the collection, what the agent has read is what the
\* file holds and nothing is writing it, and a file being written is still there.
BundleTravels ==
    /\ bundles.kept # 0 => ~bundles.writing /\ bundles.kept = bundles.made
    /\ bundles.kept # 0 /\ ~bundles.crossed =>
            disk.bundle.no = 0 \/ disk.bundle = [no |-> bundles.kept, whole |-> TRUE]
    /\ ~bundles.crossed =>
        /\ agent.pc = "upload" /\ agent.bundle.no # 0 =>
                ~bundles.writing /\ agent.bundle = disk.bundle
        /\ bundles.writing => disk.bundle = [no |-> bundles.made, whole |-> FALSE]
                              /\ bundles.made # 0

ActionInv == ActionTypeOK /\ KeyTravels /\ BundleTravels /\ HandedOver

\* Nothing is armed, spooled, stored or minted.
LEMMA ActionInitial == ActionInit => ActionInv
<1> SUFFICES ASSUME ActionInit PROVE ActionInv
  OBVIOUS
<1>1. agent \in AgentMemory /\ armed \in Words
  BY DEF ActionInit, Quiet, NoBundle, BundleFiles, AgentMemory, Words
<1>2. disk \in StateDirectory
  BY DEF ActionInit, NoBundle, BundleFiles, StateDirectory, Words
<1>3. ActionTypeOK
  BY <1>1, <1>2 DEF ActionInit, NoBundle, BundleFiles, Collections, ActionTypeOK
<1>4. KeyTravels /\ BundleTravels /\ HandedOver
  BY DEF ActionInit, Quiet, NoBundle, KeyTravels, BundleTravels, HandedOver
<1> QED BY <1>3, <1>4 DEF ActionInv

\* The operator's side and the clock leave the device and the console alone.
LEMMA ActionsOutside ==
    ASSUME ActionInv, UNCHANGED <<agent, disk, console, bundles, keys>>,
           armed' \in Words, clock' \in Nat
    PROVE  ActionInv'
  BY DEF ActionInv, ActionTypeOK, AgentMemory, StateDirectory, KeyTravels, BundleTravels, HandedOver

\* A reboot empties the agent's memory and keeps the files it hands over.
LEMMA RebootKeeps ==
    ASSUME NEW d \in StateDirectory, NEW pace, rebootNow(d, pace)
    PROVE  /\ disk' \in StateDirectory /\ disk'.key = d.key /\ disk'.bundle = d.bundle
           /\ agent' \in AgentMemory /\ agent'.key = 0 /\ agent'.pc = "idle"
<1>1. disk' = [d EXCEPT !.stamp = IF @ = "none" THEN "none" ELSE "earlier"] /\ agent' = Quiet
  BY DEF rebootNow
<1>2. Quiet \in AgentMemory /\ Quiet.key = 0 /\ Quiet.pc = "idle"
  BY DEF Quiet, NoBundle, BundleFiles, AgentMemory, Words
<1> QED BY <1>1, <1>2 DEF StateDirectory

\* Every step of the operator, the agent, the console and the executor.
LEMMA ActionStep == ASSUME ActionInv, [ActionNext]_actionVars PROVE ActionInv'
<1> USE ActionAssumption
<1> USE DEF ActionInv
<1>1. ASSUME NEW i \in Intents, NEW force \in BOOLEAN, SetDeviceIntent(i, force) PROVE ActionInv'
  BY <1>1, ActionsOutside DEF SetDeviceIntent, ActionTypeOK, AgentMemory, StateDirectory, Words
<1>2. CASE ClearDeviceIntent
  BY <1>2, ActionsOutside DEF ClearDeviceIntent, ActionTypeOK, AgentMemory, StateDirectory, Words
<1>3. CASE executed_ack
  <2> DEFINE ack == IF disk.ack # "none" THEN disk.ack ELSE agent.pending
             echo == IF ack \in {"wipe", "wipe-refused", "wipe-failed"} THEN agent.challenge ELSE 0
  <2>1. ack \in Words /\ echo \in Nat /\ "none" \in Words
    BY DEF ActionTypeOK, AgentMemory, StateDirectory, Words
  <2>2. /\ agent' = [agent EXCEPT !.pc = "collected", !.pending = "none", !.carried = ack, !.echo = echo]
        /\ disk' = [disk EXCEPT !.ack = "none"]
        /\ UNCHANGED <<armed, console, bundles, keys, clock>>
    BY <1>3 DEF executed_ack
  <2> HIDE DEF ack, echo
  <2> QED BY <2>1, <2>2 DEF ActionTypeOK, AgentMemory, StateDirectory, KeyTravels, BundleTravels, HandedOver
<1>4. CASE pending_diagnostics
  <2>1. UNCHANGED <<armed, disk, console, keys, clock>> /\ agent.pc = "collected"
    BY <1>4 DEF pending_diagnostics
  <2>2. CASE /\ agent' = [agent EXCEPT !.pc = "upload", !.bundle = disk.bundle]
             /\ bundles' = [bundles EXCEPT !.crossed = @ \/ (bundles.writing /\ disk.bundle.no # 0)]
    <3>1. ActionTypeOK'
      BY <2>1, <2>2 DEF ActionTypeOK, AgentMemory, StateDirectory, BundleFiles, Collections
    <3>2. /\ bundles'.made = bundles.made /\ bundles'.kept = bundles.kept
          /\ bundles'.writing = bundles.writing
          /\ ~bundles'.crossed => ~bundles.crossed /\ ~(bundles.writing /\ disk.bundle.no # 0)
          /\ agent'.bundle = disk.bundle /\ agent'.key = agent.key /\ agent'.pc = "upload"
      BY <2>2 DEF ActionTypeOK, AgentMemory, StateDirectory, BundleFiles, Collections
    <3> QED BY <2>1, <3>1, <3>2 DEF KeyTravels, BundleTravels, HandedOver
  <2>3. CASE agent' = [agent EXCEPT !.pc = "upload", !.bundle = NoBundle] /\ UNCHANGED bundles
    <3>1. ActionTypeOK'
      BY <2>1, <2>3 DEF ActionTypeOK, AgentMemory, StateDirectory, BundleFiles, NoBundle
    <3>2. agent'.bundle.no = 0 /\ agent'.key = agent.key /\ agent'.pc = "upload"
      BY <2>3 DEF ActionTypeOK, AgentMemory, NoBundle
    <3> QED BY <2>1, <2>3, <3>1, <3>2 DEF KeyTravels, BundleTravels, HandedOver
  <2> QED BY <1>4, <2>2, <2>3 DEF pending_diagnostics
<1>5. CASE upload_diagnostics
  <2>1. /\ UNCHANGED <<armed, bundles, keys, clock>> /\ agent.pc = "upload"
        /\ agent' = [agent EXCEPT !.pc = "send", !.key = disk.key, !.bundle = NoBundle]
        /\ \/ agent.bundle.no # 0 /\ console' = [console EXCEPT !.bundle = agent.bundle]
              /\ disk' \in {disk, [disk EXCEPT !.bundle = NoBundle]}
           \/ UNCHANGED <<console, disk>>
    BY <1>5 DEF upload_diagnostics
  <2>2. ActionTypeOK'
    <3>1. NoBundle \in BundleFiles
      BY DEF NoBundle, BundleFiles
    <3>2. agent' \in AgentMemory
      BY <2>1, <3>1 DEF ActionTypeOK, AgentMemory, StateDirectory
    <3>3. disk' \in StateDirectory
      BY <2>1, <3>1 DEF ActionTypeOK, StateDirectory
    <3>4. console' \in [key : {0, 1}, bundle : BundleFiles]
      BY <2>1 DEF ActionTypeOK, AgentMemory
    <3> QED BY <2>1, <3>2, <3>3, <3>4 DEF ActionTypeOK
  <2>3. agent'.key = disk.key /\ agent'.pc = "send"
    BY <2>1 DEF ActionTypeOK, AgentMemory
  <2>4. disk'.key = disk.key /\ console'.key = console.key
    BY <2>1 DEF ActionTypeOK, StateDirectory
  <2>5. CASE agent.bundle.no # 0 /\ console'.bundle = agent.bundle
    <3>1. ~bundles.crossed => ~bundles.writing /\ agent.bundle = disk.bundle
      BY <2>1, <2>5 DEF BundleTravels
    <3>2. ~bundles'.crossed /\ bundles'.kept # 0 =>
            console'.bundle = [no |-> bundles'.kept, whole |-> TRUE]
      BY <2>1, <2>5, <3>1 DEF BundleTravels
    <3>3. disk'.bundle \in {disk.bundle, NoBundle} /\ NoBundle.no = 0
      BY <2>1 DEF ActionTypeOK, StateDirectory, NoBundle
    <3> QED BY <2>1, <2>2, <2>3, <2>4, <2>5, <3>1, <3>2, <3>3 DEF KeyTravels, BundleTravels, HandedOver
  <2>6. CASE UNCHANGED <<console, disk>>
    BY <2>1, <2>2, <2>3, <2>6 DEF KeyTravels, BundleTravels, HandedOver
  <2> QED BY <2>1, <2>5, <2>6 DEF ActionTypeOK
<1>6. CASE handleCheckin
  <2>1. PICK sealed \in BOOLEAN, committed \in BOOLEAN :
          /\ sealed => agent.key # 0
          /\ console' = [console EXCEPT !.key = IF sealed THEN agent.key ELSE @]
          /\ armed' = IF committed THEN "none" ELSE armed
          /\ agent' = [agent EXCEPT !.pc = IF sealed THEN "answeredSealed" ELSE "answered",
                                    !.reply = NextIntent(committed),
                                    !.ts = IF NextIntent(committed) = "wipe" THEN clock ELSE 0]
    BY <1>6 DEF handleCheckin
  <2>2. UNCHANGED <<disk, bundles, keys, clock>>
    BY <1>6 DEF handleCheckin
  <2>3. NextIntent(committed) \in Words /\ armed' \in Words
    BY <2>1 DEF NextIntent, ActionTypeOK, AgentMemory, StateDirectory, Words
  <2>4. ActionTypeOK'
    BY <2>1, <2>2, <2>3 DEF ActionTypeOK, AgentMemory, StateDirectory
  <2>5. sealed => console'.key = keys /\ keys # 0
    BY <2>1 DEF ActionTypeOK, AgentMemory, StateDirectory, KeyTravels
  <2>6. ~sealed => console'.key = console.key
    BY <2>1 DEF ActionTypeOK, AgentMemory, StateDirectory
  <2>7. console'.bundle = console.bundle /\ agent'.key = agent.key
        /\ (agent'.pc = "answeredSealed" => sealed) /\ agent'.pc # "upload"
    BY <2>1 DEF ActionTypeOK, AgentMemory, StateDirectory
  <2> QED BY <2>2, <2>4, <2>5, <2>6, <2>7 DEF KeyTravels, BundleTravels, HandedOver
<1>7. CASE Transient
  <2>1. /\ agent' = [Quiet EXCEPT !.pending = agent.carried, !.challenge = agent.challenge]
        /\ UNCHANGED <<armed, disk, console, bundles, keys, clock>>
    BY <1>7 DEF Transient
  <2>2. agent' \in AgentMemory /\ agent'.key = 0 /\ agent'.pc = "idle"
    BY <2>1 DEF Quiet, NoBundle, BundleFiles, ActionTypeOK, AgentMemory, Words
  <2> QED BY <2>1, <2>2 DEF ActionTypeOK, KeyTravels, BundleTravels, HandedOver
<1>8. CASE react
  <2> DEFINE fresh == agent.reply = "wipe" => wipe_is_fresh(agent.ts)
             c     == IF agent.reply = "wipe" /\ fresh THEN agent.ts
                      ELSE IF agent.carried \in {"wipe", "wipe-refused", "wipe-failed"} THEN 0
                      ELSE agent.challenge
  <2>1. c \in Nat
    BY DEF ActionTypeOK, AgentMemory, StateDirectory
  <2>2. /\ agent' = [Quiet EXCEPT !.challenge = c]
        /\ disk' = [disk EXCEPT !.key = IF agent.key # 0 /\ KeyConfirmed THEN 0 ELSE @,
                                !.locked = @ \/ agent.reply = "lock"]
        /\ UNCHANGED <<armed, console, bundles, keys, clock>>
    BY <1>8 DEF react
  <2> HIDE DEF c
  <2>3. ActionTypeOK'
    BY <2>1, <2>2 DEF ActionTypeOK, AgentMemory, StateDirectory, Quiet, NoBundle, BundleFiles, Words
  <2>4. disk'.key = disk.key \/ console.key = keys
    BY <2>2 DEF ActionTypeOK, AgentMemory, StateDirectory, KeyTravels, KeyConfirmed
  <2>5. disk'.key \in {0, disk.key} /\ disk'.bundle = disk.bundle
    BY <2>2 DEF ActionTypeOK, AgentMemory, StateDirectory
  <2>6. agent'.key = 0 /\ agent'.pc = "idle"
    BY <2>2 DEF Quiet
  <2> QED BY <2>2, <2>3, <2>4, <2>5, <2>6 DEF KeyTravels, BundleTravels, HandedOver
<1>9. CASE AgentRestart
  BY <1>9 DEF AgentRestart, Quiet, NoBundle, BundleFiles, ActionTypeOK, AgentMemory, StateDirectory, Words, KeyTravels, BundleTravels, HandedOver
<1>10. CASE actdLock
  BY <1>10 DEF actdLock, writeAck, ActionTypeOK, AgentMemory, StateDirectory, Words, KeyTravels, BundleTravels, HandedOver
<1>11. CASE actdReboot
  <2>1. UNCHANGED <<armed, console, bundles, keys, clock>>
    BY <1>11 DEF actdReboot
  <2>2. CASE disk.stamp = "earlier"
    <3>1. UNCHANGED agent /\ disk' = [disk EXCEPT !.ack = "rebooted", !.stamp = "none"]
      BY <1>11, <2>2 DEF actdReboot, writeAck, ActionTypeOK, StateDirectory
    <3>2. disk' \in StateDirectory /\ disk'.key = disk.key /\ disk'.bundle = disk.bundle
      BY <3>1 DEF ActionTypeOK, StateDirectory, Words
    <3> QED BY <2>1, <3>1, <3>2 DEF ActionTypeOK, KeyTravels, BundleTravels, HandedOver
  <2>3. CASE disk.stamp = "none"
    <3>1. rebootNow([disk EXCEPT !.stamp = "this"], Rebooted(round))
      BY <1>11, <2>3 DEF actdReboot
    <3>2. [disk EXCEPT !.stamp = "this"] \in StateDirectory
      BY DEF ActionTypeOK, StateDirectory
    <3>3. /\ disk' \in StateDirectory /\ disk'.key = disk.key /\ disk'.bundle = disk.bundle
      BY <3>1, <3>2, RebootKeeps DEF ActionTypeOK, StateDirectory
    <3> QED BY <2>1, <3>1, <3>2, <3>3, RebootKeeps DEF ActionTypeOK, KeyTravels, BundleTravels, HandedOver
  <2>4. CASE disk.stamp = "this"
    BY <1>11, <2>1, <2>4 DEF actdReboot, ActionTypeOK, AgentMemory, StateDirectory, KeyTravels, BundleTravels, HandedOver
  <2> QED BY <2>2, <2>3, <2>4 DEF ActionTypeOK, AgentMemory, StateDirectory
<1>12. CASE actdMint
  <2> DEFINE d == [writeAck("tpm2-enrolled") EXCEPT !.key = 1]
  <2>1. /\ keys' = 1 /\ rebootNow(d, Excused(disk.ack = "rebooted"))
        /\ keys = 0 /\ UNCHANGED <<armed, console, bundles, clock>>
    BY <1>12 DEF actdMint
  <2>2. d \in StateDirectory /\ d.key = 1 /\ d.bundle = disk.bundle
    BY DEF writeAck, ActionTypeOK, StateDirectory, Words
  <2> HIDE DEF d
  <2>3. /\ disk' \in StateDirectory /\ disk'.key = 1 /\ disk'.bundle = disk.bundle
        /\ agent' \in AgentMemory /\ agent'.key = 0 /\ agent'.pc = "idle"
    BY <2>1, <2>2, RebootKeeps
  <2> QED BY <2>1, <2>3 DEF ActionTypeOK, KeyTravels, BundleTravels, HandedOver
<1>13. CASE collectDiagnostics
  <2>1. /\ UNCHANGED <<armed, agent, console, keys, clock>>
        /\ disk' = [disk EXCEPT !.bundle = [no |-> bundles.made + 1, whole |-> FALSE]]
        /\ bundles' = [made |-> bundles.made + 1, writing |-> TRUE, kept |-> 0,
                       crossed |-> agent.pc = "upload" /\ agent.bundle.no # 0]
    BY <1>13 DEF collectDiagnostics
  <2>2. (agent.pc = "upload" /\ agent.bundle.no # 0) \in BOOLEAN
    OBVIOUS
  <2>3. bundles' \in Collections /\ bundles.made \in Nat /\ bundles'.made # 0
    BY <2>1, <2>2 DEF ActionTypeOK, Collections
  <2>4. disk' \in StateDirectory /\ disk'.key = disk.key /\ disk'.bundle = [no |-> bundles'.made, whole |-> FALSE]
    <3>1. [no |-> bundles.made + 1, whole |-> FALSE] \in BundleFiles
      BY <2>3 DEF BundleFiles
    <3>2. bundles'.made = bundles.made + 1
      BY <2>1
    <3> QED BY <2>1, <3>1, <3>2 DEF ActionTypeOK, StateDirectory
  <2>5. /\ bundles'.kept = 0 /\ bundles'.writing
        /\ ~bundles'.crossed => ~(agent.pc = "upload" /\ agent.bundle.no # 0)
    BY <2>1
  <2> QED BY <2>1, <2>3, <2>4, <2>5 DEF ActionTypeOK, KeyTravels, BundleTravels, HandedOver
<1>17. CASE actdDiagnostics
  <2>1. UNCHANGED <<armed, agent, console, keys, clock>> /\ bundles.writing
    BY <1>17 DEF actdDiagnostics
  <2>0. bundles.made \in Nat
    BY DEF ActionTypeOK, Collections
  <2>2. CASE /\ bundles' = [bundles EXCEPT !.writing = FALSE, !.kept = bundles.made]
             /\ disk' = [writeAck("diagnostics") EXCEPT
                    !.bundle = IF @.no = 0 THEN @ ELSE [no |-> bundles.made, whole |-> TRUE]]
    <3>1. /\ disk' \in StateDirectory /\ disk'.key = disk.key
          /\ disk'.bundle = IF disk.bundle.no = 0 THEN disk.bundle ELSE [no |-> bundles.made, whole |-> TRUE]
      BY <2>0, <2>2 DEF writeAck, ActionTypeOK, StateDirectory, BundleFiles, Words
    <3>2. /\ bundles' \in Collections /\ ~bundles'.writing /\ bundles'.kept = bundles.made
          /\ bundles'.made = bundles.made /\ bundles'.crossed = bundles.crossed
      BY <2>2 DEF ActionTypeOK, Collections
    <3>3. ~bundles.crossed => /\ disk'.bundle = [no |-> bundles.made, whole |-> TRUE]
                              /\ ~(agent.pc = "upload" /\ agent.bundle.no # 0)
      BY <2>1, <3>1 DEF BundleTravels
    <3> QED BY <2>1, <3>1, <3>2, <3>3 DEF ActionTypeOK, KeyTravels, BundleTravels, HandedOver
  <2>3. CASE bundles' = [bundles EXCEPT !.writing = FALSE] /\ disk' = writeAck("diagnostics-failed")
    <3>1. disk' \in StateDirectory /\ disk'.key = disk.key /\ disk'.bundle = disk.bundle
      BY <2>3 DEF writeAck, ActionTypeOK, StateDirectory, Words
    <3>2. /\ bundles' \in Collections /\ ~bundles'.writing /\ bundles'.kept = bundles.kept
          /\ bundles'.made = bundles.made /\ bundles'.crossed = bundles.crossed
      BY <2>3 DEF ActionTypeOK, Collections
    <3>3. bundles.kept = 0 /\ (~bundles.crossed => ~(agent.pc = "upload" /\ agent.bundle.no # 0))
      BY <2>1 DEF BundleTravels
    <3> QED BY <2>1, <3>1, <3>2, <3>3 DEF ActionTypeOK, KeyTravels, BundleTravels, HandedOver
  <2> QED BY <1>17, <2>2, <2>3 DEF actdDiagnostics
<1>14. CASE actdWipe
  <2>1. PICK a \in Words : disk' = writeAck(a)
    BY <1>14 DEF actdWipe, Words
  <2>2. UNCHANGED <<armed, agent, console, bundles, keys, clock>>
    BY <1>14 DEF actdWipe
  <2> QED BY <2>1, <2>2 DEF writeAck, ActionTypeOK, AgentMemory, StateDirectory, KeyTravels, BundleTravels, HandedOver
<1>15. CASE Tick
  BY <1>15, ActionsOutside DEF Tick, ActionTypeOK
<1>16. CASE UNCHANGED actionVars
  BY <1>16, ActionsOutside DEF actionVars, ActionTypeOK
<1> QED
  BY <1>1, <1>2, <1>3, <1>4, <1>5, <1>6, <1>7, <1>8, <1>9, <1>10, <1>11, <1>12, <1>13,
     <1>14, <1>15, <1>16, <1>17 DEF ActionNext

\* The minted recovery key is on the device or with the console at every moment,
\* through lost answers, failed uploads and seals, restarts of the agent and
\* reboots, and so is, whole, the bundle collected last, unless an upload crossed
\* its collection (agent/src/main.rs, api/checkin.go, actd.nix).
THEOREM NothingLostOnTheWay == ActionSpec => []HandedOver
<1>1. ActionInv => HandedOver
  BY DEF ActionInv
<1> QED
  BY <1>1, ActionInitial, ActionStep, PTL DEF ActionSpec

(***************************************************************************)
(* One reboot for one instruction.  The credit of a round counts the       *)
(* reboots still in order; with none left the device either has the stamp  *)
(* of a boot that is over, or its outcome is on the way and nothing can    *)
(* spool a reboot again before it is delivered.                            *)
(***************************************************************************)
Rounds == [clean : BOOLEAN, credit : Int]

\* The reboot has happened; the next run of the executor will find its stamp.
RebootDone ==
    /\ disk.stamp = "earlier"
    /\ armed = "reboot" => /\ spool \subseteq {"reboot"} /\ ActdFree
                           /\ agent.reply \in {"none", "reboot"}

\* The outcome is recorded, held for the next beat, or part of the one under way.
OutcomeHeld ==
    \/ agent.pc = "idle" /\ disk.ack = "rebooted"
    \/ agent.pc = "idle" /\ disk.ack = "none" /\ agent.pending = "rebooted"
    \/ agent.pc \in {"collected", "upload", "send"} /\ disk.ack = "none" /\ agent.carried = "rebooted"

RebootTold ==
    /\ disk.stamp = "none" /\ "reboot" \notin spool /\ agent.reply # "reboot"
    /\ armed = "reboot" => spool = {} /\ ActdFree /\ OutcomeHeld

\* No answer before the beat is sent; a boot of its own never sees its stamp as new.
BeatInv ==
    /\ agent.pc \in {"idle", "collected", "upload", "send"} => agent.reply = "none"
    /\ disk.stamp # "this"

RoundInv ==
    /\ round \in Rounds /\ BeatInv
    /\ round.clean => round.credit >= 0 /\ (round.credit = 0 => RebootDone \/ RebootTold)

\* An excuse never takes credit away.
LEMMA ExcuseAdds ==
    ASSUME NEW r \in Rounds, NEW b \in BOOLEAN
    PROVE  /\ Excuse(r, b) \in Rounds /\ Excuse(r, b).clean = r.clean
           /\ Excuse(r, b).credit >= r.credit
           /\ b /\ r.credit = 0 => Excuse(r, b).credit = 1
           /\ ~b => Excuse(r, b) = r
BY DEF Excuse, Rounds

\* A step that reboots nothing: only a round without credit has anything to show.
LEMMA RoundKeeps ==
    ASSUME RoundInv, BeatInv', round' \in Rounds, round'.clean = round.clean,
           round'.credit >= round.credit,
           round.clean /\ round.credit = 0 /\ round'.credit = 0 => RebootDone' \/ RebootTold'
    PROVE  RoundInv'
<1>1. round.credit \in Int /\ round'.credit \in Int
  BY DEF RoundInv, Rounds
<1> QED BY <1>1 DEF RoundInv

\* Nothing is armed; the round has not begun.
LEMMA RoundStarts == ActionInit => RoundInv
BY DEF ActionInit, RoundInv, Rounds, BeatInv, Quiet

\* The operator: a fresh reboot opens a round of its own.
LEMMA ArmKeeps ==
    ASSUME RoundInv, NEW i, NEW force, SetDeviceIntent(i, force) \/ ClearDeviceIntent
    PROVE  RoundInv'
<1>1. UNCHANGED <<agent, disk, spool>>
  BY DEF SetDeviceIntent, ClearDeviceIntent
<1>2. BeatInv' /\ round \in Rounds
  BY <1>1 DEF RoundInv, BeatInv
<1>3. CASE round' = [clean |-> NoRebootUnderWay, credit |-> 1]
  <2>1. NoRebootUnderWay \in BOOLEAN
    BY DEF NoRebootUnderWay
  <2>2. round' \in Rounds /\ round'.credit = 1
    BY <1>3, <2>1 DEF Rounds
  <2> QED BY <1>2, <2>2 DEF RoundInv
<1>4. CASE round' = round /\ armed' # "reboot"
  <2>1. RebootDone \/ RebootTold => RebootDone' \/ RebootTold'
    BY <1>1, <1>4 DEF RebootDone, RebootTold
  <2>2. round'.credit >= round.credit
    BY <1>2, <1>4 DEF Rounds
  <2> QED BY <1>2, <1>4, <2>1, <2>2, RoundKeeps DEF RoundInv
<1> QED BY <1>3, <1>4 DEF SetDeviceIntent, ClearDeviceIntent

\* The agent collects the outcome, uploads, and asks.
LEMMA BeatKeeps ==
    ASSUME ActionInv, RoundInv, executed_ack \/ pending_diagnostics \/ upload_diagnostics
    PROVE  RoundInv'
<1>0. agent \in AgentMemory /\ disk \in StateDirectory /\ BeatInv /\ round \in Rounds
  BY DEF ActionInv, ActionTypeOK, RoundInv
<1>w. ActdFree' = ActdFree
  BY DEF ActionInv, ActionTypeOK, Collections, ActdFree, executed_ack, pending_diagnostics, upload_diagnostics
<1>1. UNCHANGED <<armed, spool, round>>
  BY DEF executed_ack, pending_diagnostics, upload_diagnostics
<1>2. /\ agent'.reply = agent.reply /\ disk'.stamp = disk.stamp
      /\ \/ /\ agent.pc = "idle" /\ agent'.pc = "collected" /\ disk'.ack = "none"
            /\ agent'.carried = IF disk.ack # "none" THEN disk.ack ELSE agent.pending
         \/ /\ agent.pc \in {"collected", "upload"} /\ agent'.pc \in {"upload", "send"}
            /\ disk'.ack = disk.ack /\ agent'.carried = agent.carried
  <2>1. CASE executed_ack
    <3> DEFINE ack == IF disk.ack # "none" THEN disk.ack ELSE agent.pending
               echo == IF ack \in {"wipe", "wipe-refused", "wipe-failed"} THEN agent.challenge ELSE 0
    <3>1. /\ agent' = [agent EXCEPT !.pc = "collected", !.pending = "none", !.carried = ack, !.echo = echo]
          /\ disk' = [disk EXCEPT !.ack = "none"] /\ agent.pc = "idle"
      BY <2>1 DEF executed_ack
    <3> HIDE DEF ack, echo
    <3>2. /\ agent'.reply = agent.reply /\ agent'.pc = "collected" /\ agent'.carried = ack
          /\ disk'.stamp = disk.stamp /\ disk'.ack = "none"
      BY <1>0, <3>1 DEF AgentMemory, StateDirectory
    <3> QED BY <3>1, <3>2 DEF ack
  <2>2. CASE pending_diagnostics
    BY <1>0, <2>2 DEF pending_diagnostics, AgentMemory, StateDirectory
  <2>3. CASE upload_diagnostics
    BY <1>0, <2>3 DEF upload_diagnostics, AgentMemory, StateDirectory
  <2> QED BY <2>1, <2>2, <2>3
<1>3. BeatInv'
  BY <1>0, <1>2 DEF BeatInv
<1>4. RebootDone => RebootDone'
  BY <1>w, <1>1, <1>2 DEF RebootDone
<1>5. RebootTold => RebootTold'
  <2>1. OutcomeHeld => OutcomeHeld'
    BY <1>2 DEF OutcomeHeld
  <2> QED BY <1>w, <1>1, <1>2, <2>1 DEF RebootTold
<1>6. round' \in Rounds /\ round'.clean = round.clean /\ round'.credit >= round.credit
  BY <1>0, <1>1 DEF Rounds
<1> QED BY <1>3, <1>4, <1>5, <1>6, RoundKeeps DEF RoundInv

\* The console: an outcome that clears nothing earns the device another reboot.
LEMMA CheckinRound ==
    ASSUME ActionInv, RoundInv, handleCheckin
    PROVE  RoundInv'
<1>0. agent \in AgentMemory /\ disk \in StateDirectory /\ BeatInv /\ round \in Rounds
  BY DEF ActionInv, ActionTypeOK, RoundInv
<1>w. ActdFree' = ActdFree
  BY DEF ActdFree, handleCheckin
<1> DEFINE wipes == agent.carried \in {"wipe", "wipe-refused", "wipe-failed"} /\ ~verifyIntentNonce(agent.echo)
           ack == IF wipes THEN "none" ELSE agent.carried
<1>1. PICK sealed \in BOOLEAN, committed \in BOOLEAN :
        /\ committed => armed # "none" /\ Completes(ack) = armed
        /\ armed' = IF committed THEN "none" ELSE armed
        /\ round' = Excused(ack = "rebooted" /\ ~committed)
        /\ agent' = [agent EXCEPT !.pc = IF sealed THEN "answeredSealed" ELSE "answered",
                                  !.reply = NextIntent(committed),
                                  !.ts = IF NextIntent(committed) = "wipe" THEN clock ELSE 0]
  BY DEF handleCheckin
<1>2. agent.pc = "send" /\ UNCHANGED <<disk, spool>>
  BY DEF handleCheckin
<1>3. agent'.pc \in {"answered", "answeredSealed"} /\ agent'.reply = IF committed THEN "none" ELSE armed
  BY <1>0, <1>1 DEF AgentMemory, NextIntent
<1>4. BeatInv'
  BY <1>0, <1>2, <1>3 DEF BeatInv
<1>5. agent.carried = "rebooted" => ack = "rebooted"
  OBVIOUS
<1> HIDE DEF ack
<1> DEFINE b == ack = "rebooted" /\ ~committed
<1>6. /\ round' \in Rounds /\ round'.clean = round.clean /\ round'.credit >= round.credit
      /\ b /\ round.credit = 0 => round'.credit = 1
  BY <1>0, <1>1, ExcuseAdds DEF Excused
<1>7. RebootDone => RebootDone'
  BY <1>w, <1>1, <1>2, <1>3 DEF RebootDone
<1>8. ASSUME RebootTold, ~b PROVE RebootTold'
  <2>1. CASE armed = "reboot"
    <3>1. agent.carried = "rebooted" /\ spool = {}
      BY <1>2, <1>8, <2>1 DEF RebootTold, OutcomeHeld
    <3>2. committed
      BY <1>5, <1>8, <3>1
    <3> QED BY <1>1, <1>2, <1>3, <1>8, <3>1, <3>2 DEF RebootTold
  <2>2. CASE armed # "reboot"
    BY <1>w, <1>1, <1>2, <1>3, <1>8, <2>2 DEF RebootTold
  <2> QED BY <2>1, <2>2
<1>9. round.clean /\ round.credit = 0 /\ round'.credit = 0 => RebootDone' \/ RebootTold'
  BY <1>6, <1>7, <1>8 DEF RoundInv
<1> QED BY <1>4, <1>6, <1>9, RoundKeeps

\* The answer is lost or arrives; the agent restarts.
LEMMA AnswerKeeps ==
    ASSUME ActionInv, RoundInv, Transient \/ react \/ AgentRestart
    PROVE  RoundInv'
<1>0. agent \in AgentMemory /\ disk \in StateDirectory /\ BeatInv /\ round \in Rounds
  BY DEF ActionInv, ActionTypeOK, RoundInv
<1>w. ActdFree' = ActdFree
  BY DEF ActdFree, Transient, react, AgentRestart
<1>1. armed' = armed
  BY DEF Transient, react, AgentRestart
<1>2. CASE Transient
  <2>1. /\ agent' = [Quiet EXCEPT !.pending = agent.carried, !.challenge = agent.challenge]
        /\ UNCHANGED <<disk, spool, round>> /\ agent.pc \in {"send", "answered", "answeredSealed"}
    BY <1>2 DEF Transient
  <2>2. agent'.pc = "idle" /\ agent'.reply = "none" /\ agent'.pending = agent.carried
    BY <2>1 DEF Quiet
  <2>3. BeatInv' /\ (RebootDone => RebootDone') /\ (RebootTold => RebootTold')
    BY <1>w, <1>0, <1>1, <2>1, <2>2 DEF BeatInv, RebootDone, RebootTold, OutcomeHeld
  <2>4. round' \in Rounds /\ round'.clean = round.clean /\ round'.credit >= round.credit
    BY <1>0, <2>1 DEF Rounds
  <2> QED BY <2>3, <2>4, RoundKeeps DEF RoundInv
<1>3. CASE react
  <2> DEFINE fresh == agent.reply = "wipe" => wipe_is_fresh(agent.ts)
             c     == IF agent.reply = "wipe" /\ fresh THEN agent.ts
                      ELSE IF agent.carried \in {"wipe", "wipe-refused", "wipe-failed"} THEN 0
                      ELSE agent.challenge
  <2>1. /\ agent' = [Quiet EXCEPT !.challenge = c]
        /\ disk' = [disk EXCEPT !.key = IF agent.key # 0 /\ KeyConfirmed THEN 0 ELSE @,
                                !.locked = @ \/ agent.reply = "lock"]
        /\ round' = round /\ agent.pc \in {"answered", "answeredSealed"}
        /\ spool' = spool \/ (agent.reply # "none" /\ spool' = spool \cup {agent.reply})
    BY <1>3 DEF react
  <2> HIDE DEF c
  <2>2. agent'.pc = "idle" /\ agent'.reply = "none"
    BY <2>1 DEF Quiet
  <2>3. disk'.stamp = disk.stamp /\ disk'.ack = disk.ack
    BY <1>0, <2>1 DEF StateDirectory
  <2>4. BeatInv' /\ (RebootDone => RebootDone')
    BY <1>w, <1>0, <1>1, <2>1, <2>2, <2>3 DEF BeatInv, RebootDone
  <2>5. ASSUME RebootTold PROVE RebootTold'
    <3>1. armed # "reboot"
      BY <2>1, <2>5 DEF RebootTold, OutcomeHeld
    <3> QED BY <1>1, <2>1, <2>2, <2>3, <2>5, <3>1 DEF RebootTold
  <2>6. round' \in Rounds /\ round'.clean = round.clean /\ round'.credit >= round.credit
    BY <1>0, <2>1 DEF Rounds
  <2> QED BY <2>4, <2>5, <2>6, RoundKeeps DEF RoundInv
<1>4. CASE AgentRestart
  <2> DEFINE b == "rebooted" \in {agent.pending, agent.carried}
  <2>1. agent' = Quiet /\ round' = Excuse(round, b) /\ UNCHANGED <<disk, spool>>
    BY <1>4 DEF AgentRestart, Excused
  <2>2. agent'.pc = "idle" /\ agent'.reply = "none"
    BY <2>1 DEF Quiet
  <2>3. BeatInv' /\ (RebootDone => RebootDone')
    BY <1>w, <1>0, <1>1, <2>1, <2>2 DEF BeatInv, RebootDone
  <2>4. RebootTold /\ ~b => RebootTold'
    BY <1>w, <1>1, <2>1, <2>2 DEF RebootTold, OutcomeHeld
  <2>b. b \in BOOLEAN
    OBVIOUS
  <2> HIDE DEF b
  <2>5. /\ round' \in Rounds /\ round'.clean = round.clean /\ round'.credit >= round.credit
        /\ b /\ round.credit = 0 => round'.credit = 1
    BY <1>0, <2>1, <2>b, ExcuseAdds
  <2>6. round.clean /\ round.credit = 0 /\ round'.credit = 0 => RebootDone' \/ RebootTold'
    BY <2>3, <2>4, <2>5 DEF RoundInv
  <2> QED BY <2>3, <2>5, <2>6, RoundKeeps
<1> QED BY <1>2, <1>3, <1>4

\* Lock, diagnostics and wipe write their outcome over the one that is there.
LEMMA OverwriteKeeps ==
    ASSUME ActionInv, RoundInv, actdLock \/ collectDiagnostics \/ actdDiagnostics \/ actdWipe
    PROVE  RoundInv'
<1>0. agent \in AgentMemory /\ disk \in StateDirectory /\ BeatInv /\ round \in Rounds
  BY DEF ActionInv, ActionTypeOK, RoundInv
<1>1. /\ UNCHANGED <<armed, agent>> /\ round' \in {round, Excuse(round, disk.ack = "rebooted")}
      /\ spool' \subseteq spool /\ (~(spool \subseteq {"reboot"}) \/ ~ActdFree)
  BY DEF actdLock, collectDiagnostics, actdDiagnostics, actdWipe, Excused, ActdFree
<1>2. disk'.stamp = disk.stamp
  BY <1>0 DEF actdLock, collectDiagnostics, actdDiagnostics, actdWipe, writeAck, StateDirectory
<1>3. BeatInv'
  BY <1>0, <1>1, <1>2 DEF BeatInv
<1>4. RebootDone => RebootDone'
  BY <1>1, <1>2 DEF RebootDone
<1>5. RebootTold => RebootTold'
  BY <1>1, <1>2 DEF RebootTold
<1>6. round' \in Rounds /\ round'.clean = round.clean /\ round'.credit >= round.credit
  <2>1. CASE round' = round
    BY <1>0, <2>1 DEF Rounds
  <2>2. CASE round' = Excuse(round, disk.ack = "rebooted")
    BY <1>0, <2>2, ExcuseAdds
  <2> QED BY <1>1, <2>1, <2>2
<1> QED BY <1>3, <1>4, <1>5, <1>6, RoundKeeps DEF RoundInv

\* The executor on a spooled reboot: the stamp decides.
LEMMA RebootRound ==
    ASSUME ActionInv, RoundInv, actdReboot
    PROVE  RoundInv'
<1>0. agent \in AgentMemory /\ disk \in StateDirectory /\ BeatInv /\ round \in Rounds
  BY DEF ActionInv, ActionTypeOK, RoundInv
<1>w. ActdFree /\ ActdFree'
  BY DEF ActdFree, actdReboot
<1>1. armed' = armed /\ "reboot" \in spool
  BY DEF actdReboot
<1>2. CASE disk.stamp = "earlier"
  <2>1. /\ disk' = [writeAck("rebooted") EXCEPT !.stamp = "none"] /\ agent' = agent
        /\ spool' = spool \ {"reboot"} /\ round' = Excuse(round, agent.pc # "idle")
    BY <1>2 DEF actdReboot, Excused
  <2>2. disk'.stamp = "none" /\ disk'.ack = "rebooted"
    BY <1>0, <2>1 DEF writeAck, StateDirectory
  <2>3. /\ round' \in Rounds /\ round'.clean = round.clean /\ round'.credit >= round.credit
        /\ agent.pc # "idle" /\ round.credit = 0 => round'.credit = 1
    BY <1>0, <2>1, ExcuseAdds
  <2>4. BeatInv'
    BY <1>0, <2>1, <2>2 DEF BeatInv
  <2>5. ASSUME RebootDone, agent.pc = "idle" PROVE RebootTold'
    <3>1. agent.reply = "none"
      BY <1>0, <2>5 DEF BeatInv
    <3>2. armed = "reboot" => spool' = {}
      BY <2>1, <2>5 DEF RebootDone
    <3> QED BY <1>w, <1>1, <2>1, <2>2, <2>5, <3>1, <3>2 DEF RebootTold, OutcomeHeld
  <2>6. round.clean /\ round.credit = 0 /\ round'.credit = 0 => RebootDone' \/ RebootTold'
    BY <1>2, <2>3, <2>5 DEF RoundInv, RebootTold
  <2> QED BY <2>3, <2>4, <2>6, RoundKeeps
<1>3. CASE disk.stamp = "none"
  <2> DEFINE b == "rebooted" \in {agent.pending, agent.carried}
             r == Rebooted(round)
  <2>1. rebootNow([disk EXCEPT !.stamp = "this"], r)
    BY <1>3 DEF actdReboot
  <2>2. /\ disk' = [[disk EXCEPT !.stamp = "this"] EXCEPT !.stamp = IF @ = "none" THEN "none" ELSE "earlier"]
        /\ spool' = {} /\ agent' = Quiet /\ round' = Excuse(r, b)
    BY <2>1 DEF rebootNow
  <2>3. disk'.stamp = "earlier" /\ agent'.pc = "idle" /\ agent'.reply = "none"
    BY <1>0, <2>2 DEF StateDirectory, Quiet
  <2>4. /\ r \in Rounds /\ r.clean = round.clean
        /\ round.credit > 0 => r.credit >= 0
    BY <1>0 DEF Rebooted, Rounds
  <2>b. b \in BOOLEAN
    OBVIOUS
  <2> HIDE DEF r, b
  <2>5. round' \in Rounds /\ round'.clean = r.clean /\ round'.credit >= r.credit
    BY <2>2, <2>4, <2>b, ExcuseAdds
  <2>6. BeatInv' /\ RebootDone'
    BY <1>w, <2>2, <2>3 DEF BeatInv, RebootDone
  <2>7. round.clean => round.credit # 0
    BY <1>1, <1>3 DEF RoundInv, RebootDone, RebootTold
  <2>8. round'.clean => round'.credit >= 0
    <3>1. round.credit \in Int /\ r.credit \in Int /\ round'.credit \in Int
      BY <1>0, <2>4, <2>5 DEF Rounds
    <3> QED BY <2>4, <2>5, <2>7, <3>1 DEF RoundInv
  <2> QED BY <2>5, <2>6, <2>8 DEF RoundInv
<1>4. disk.stamp \in {"none", "earlier"}
  BY <1>0 DEF BeatInv, StateDirectory
<1> QED BY <1>2, <1>3, <1>4

\* The reboot that follows the TPM2 seal is not the operator's: a lost outcome is
\* excused.
LEMMA MintRound ==
    ASSUME ActionInv, RoundInv, actdMint
    PROVE  RoundInv'
<1>0. agent \in AgentMemory /\ disk \in StateDirectory /\ BeatInv /\ round \in Rounds
  BY DEF ActionInv, ActionTypeOK, RoundInv
<1>w. ActdFree /\ ActdFree'
  BY DEF ActdFree, actdMint
<1> DEFINE b1 == disk.ack = "rebooted"
           b2 == "rebooted" \in {agent.pending, agent.carried}
           d  == [writeAck("tpm2-enrolled") EXCEPT !.key = 1]
           r  == Excuse(round, b1)
<1>1. /\ armed' = armed /\ spool' = {} /\ agent' = Quiet /\ round' = Excuse(r, b2)
      /\ disk' = [d EXCEPT !.stamp = IF @ = "none" THEN "none" ELSE "earlier"]
  BY DEF actdMint, rebootNow, Excused
<1>2. disk'.stamp = disk.stamp
  <2>1. d \in StateDirectory /\ d.stamp = disk.stamp
    BY <1>0 DEF writeAck, StateDirectory, Words
  <2> HIDE DEF d
  <2>2. disk'.stamp = IF disk.stamp = "none" THEN "none" ELSE "earlier"
    BY <1>1, <2>1 DEF StateDirectory
  <2>3. disk.stamp \in {"none", "earlier"}
    BY <1>0 DEF BeatInv, StateDirectory
  <2> QED BY <2>2, <2>3
<1>3. agent'.pc = "idle" /\ agent'.reply = "none"
  BY <1>1 DEF Quiet
<1>4. /\ r \in Rounds /\ r.clean = round.clean /\ r.credit >= round.credit
      /\ b1 /\ round.credit = 0 => r.credit = 1
  BY <1>0, ExcuseAdds
<1> HIDE DEF r
<1>5. /\ round' \in Rounds /\ round'.clean = r.clean /\ round'.credit >= r.credit
      /\ b2 /\ r.credit = 0 => round'.credit = 1
  <2>1. b2 \in BOOLEAN
    OBVIOUS
  <2> HIDE DEF b2
  <2> QED BY <1>1, <1>4, <2>1, ExcuseAdds
<1>6. /\ round'.clean = round.clean /\ round'.credit >= round.credit
      /\ round.credit = 0 /\ round'.credit = 0 => ~b1 /\ ~b2
  <2>1. round.credit \in Int /\ r.credit \in Int /\ round'.credit \in Int
    BY <1>0, <1>4, <1>5 DEF Rounds
  <2> HIDE DEF b1, b2
  <2> QED BY <1>4, <1>5, <2>1
<1>7. BeatInv' /\ (RebootDone => RebootDone')
  BY <1>w, <1>0, <1>1, <1>2, <1>3 DEF BeatInv, RebootDone
<1>8. RebootTold /\ ~b1 /\ ~b2 => RebootTold'
  BY <1>1, <1>2, <1>3 DEF RebootTold, OutcomeHeld
<1>9. round.clean /\ round.credit = 0 /\ round'.credit = 0 => RebootDone' \/ RebootTold'
  BY <1>6, <1>7, <1>8 DEF RoundInv
<1> QED BY <1>5, <1>6, <1>7, <1>9, RoundKeeps

\* Every step keeps the account of the round.
LEMMA RoundStep == ASSUME ActionInv, RoundInv, [ActionNext]_actionVars PROVE RoundInv'
<1>1. CASE Tick \/ UNCHANGED actionVars
  BY <1>1 DEF Tick, ActdFree, actionVars, RoundInv, BeatInv, RebootDone, RebootTold, OutcomeHeld
<1>2. ASSUME NEW i \in Intents, NEW force \in BOOLEAN, SetDeviceIntent(i, force) PROVE RoundInv'
  BY <1>2, ArmKeeps
<1>3. CASE ClearDeviceIntent
  BY <1>3, ArmKeeps
<1> QED BY <1>1, <1>2, <1>3, BeatKeeps, CheckinRound, AnswerKeeps, OverwriteKeeps, RebootRound,
           MintRound DEF ActionNext

\* A reboot armed while nothing of an earlier one is under way reboots the device
\* once, and once more only for an outcome the console could not clear or that was
\* lost, for any number of beats, lost answers, restarts and boots (WithProvision,
\* executed_ack, actd's boot-id stamp).
THEOREM RebootsOnlyOnce == ActionSpec => []RebootOnce
<1>1. ActionInv /\ RoundInv => RebootOnce
  BY DEF RoundInv, RebootOnce
<1> QED BY <1>1, ActionInitial, ActionStep, RoundStarts, RoundStep, PTL DEF ActionSpec

(***************************************************************************)
(* Image jobs.                                                             *)
(***************************************************************************)
Statuses == {"none", "pending", "imaging", "installed", "sb-pending", "sb-enrolled",
             "tpm2-enrolled", "done", "failed", "canceled"}

\* What the ceremony reaches from an installed job.
Ceremony == {"sb-pending", "sb-enrolled", "tpm2-enrolled", "done"}

\* The shape of the state.
Firmwares == {"off", "audit", "keys", "enforcing"}
Acks == {"none", "sb-enrolled", "sb-enroll-failed", "tpm2-enrolled", "tpm2-enroll-failed"}
StationStates == {"idle", "claiming", "install", "seal", "key", "report", "reporting"}

ImageType ==
    /\ jobStatus \in Statuses
    /\ decided \in [Reporters -> [from : Statuses, to : Statuses]]
    /\ issued \in [no : Nat, by : {"nobody", "station", "operator"}]
    /\ station \in [pc : StationStates, cred : Nat]
    /\ machine \in [no : Nat, baked : Nat, sb : Firmwares, sealed : BOOLEAN, ack : Acks, sent : SUBSET Carried]
    /\ escrow \in [luks : Nat, hostKey : Nat]

\* What was handed in for this install is on file, and the device has the
\* credential the console accepts unless an operator issued another.
SealedKey  == "luks" \in machine.sent => escrow.luks = machine.no
FiledKey   == "hostKey" \in machine.sent => escrow.hostKey = machine.no
Accepted(c) == issued.by = "operator" \/ c = issued.no
OnFile     == SealedKey /\ FiledKey /\ Accepted(machine.baked)

\* While a station works on the job nothing can put it past the install, and each
\* step of the station rests on the ones before.
StationInv ==
    /\ station.pc # "idle" => jobStatus \in {"pending", "imaging", "failed", "canceled"}
    /\ station.pc \in {"install", "seal", "key", "report"} => Accepted(station.cred)
    /\ station.pc \in {"seal", "key", "report"} => Accepted(machine.baked)
    /\ station.pc \in {"key", "report"} => SealedKey
    /\ station.pc = "report" => FiledKey

\* What each reporter may have decided and not written yet.
DecisionInv ==
    /\ decided["claim"] = NoOp \/ decided["claim"].to = "imaging"
    /\ decided["operator"] = NoOp \/ decided["operator"].to = "canceled"
    /\ decided["station"] # NoOp =>
        station.pc = "reporting" /\ decided["station"].to \in {"installed", "failed"}
    /\ decided["station"].to = "installed" => decided["station"].from = "imaging" /\ OnFile
    /\ decided["device"] = NoOp \/ decided["device"].to \in {"failed"} \cup Ceremony
    /\ decided["device"].to \in Ceremony => NeedsProvisioning(decided["device"].from)

\* What the check-ins of this install have shown when the job is at s.
Shown(s) ==
    /\ s = "sb-enrolled" => heard.booted /\ (heard.enforcing \/ heard.keys)
    /\ s = "tpm2-enrolled" => heard.booted /\ heard.sealed
    /\ s = "done" =>
        /\ heard.booted
        /\ hw.wantSB /\ hw.efi =>
            \/ heard.enforcing /\ heard.sealed
            \/ (heard.enforcing \/ heard.keys) /\ (~hw.wantTPM2 \/ heard.noChip)

\* A check-in decided past the install belongs to the install on the disk, unless a
\* dispatch has overtaken it.
ShownInv ==
    ~overtaken =>
        /\ Shown(jobStatus)
        /\ NeedsProvisioning(decided["device"].from) =>
            /\ jobStatus \notin {"none", "pending", "imaging"} /\ station.pc = "idle"
            /\ Shown(decided["device"].to)

ImageInv ==
    /\ ImageType /\ StationInv /\ DecisionInv /\ ShownInv
    /\ NeedsProvisioning(jobStatus) => OnFile

\* The lifecycle: only a job being imaged is installed, the ceremony starts there.
LEMMA LifecycleOrder ==
    ASSUME NEW s \in Statuses, NEW to, CanTransition(s, to)
    PROVE  /\ to = "installed" => s = "imaging"
           /\ to \in Ceremony => NeedsProvisioning(s)
           /\ to \in Statuses
<1>1. CASE s = "pending"
  BY <1>1 DEF CanTransition, Targets, Ceremony, Statuses
<1>2. CASE s = "imaging"
  BY <1>2 DEF CanTransition, Targets, Ceremony, Statuses
<1>3. CASE s = "failed"
  BY <1>3 DEF CanTransition, Targets, Ceremony, Statuses
<1>4. CASE s \in {"none", "done", "canceled"}
  BY <1>4 DEF CanTransition
<1>5. CASE s = "installed"
  BY <1>5 DEF CanTransition, Targets, Ceremony, Statuses, NeedsProvisioning
<1>6. CASE s = "sb-pending"
  BY <1>6 DEF CanTransition, Targets, Ceremony, Statuses, NeedsProvisioning
<1>7. CASE s = "sb-enrolled"
  BY <1>7 DEF CanTransition, Targets, Ceremony, Statuses, NeedsProvisioning
<1>8. CASE s = "tpm2-enrolled"
  BY <1>8 DEF CanTransition, Targets, Ceremony, Statuses, NeedsProvisioning
<1> QED BY <1>1, <1>2, <1>3, <1>4, <1>5, <1>6, <1>7, <1>8 DEF Statuses

\* No job, no station, nothing on the disk.
LEMMA ImageStarts == ImageInit => ImageInv
<1> SUFFICES ASSUME ImageInit PROVE ImageInv
  OBVIOUS
<1>1. \A w \in Reporters : decided[w] = NoOp
  BY DEF ImageInit
<1>2. "claim" \in Reporters /\ "operator" \in Reporters /\ "station" \in Reporters /\ "device" \in Reporters
  BY DEF Reporters
<1>3. NoOp \in [from : Statuses, to : Statuses] /\ NoOp.from = "none" /\ NoOp.to = "none"
  BY DEF NoOp, Statuses
<1>4. ImageType
  BY <1>3 DEF ImageInit, ImageType, Statuses, StationStates, Firmwares, Acks
<1>5. StationInv
  BY DEF ImageInit, StationInv, SealedKey, FiledKey, Accepted
<1>6. DecisionInv
  BY <1>1, <1>2, <1>3 DEF DecisionInv, Ceremony
<1>7. ~NeedsProvisioning(jobStatus) /\ ~NeedsProvisioning(decided["device"].from) /\ Shown(jobStatus)
  BY <1>1, <1>2, <1>3 DEF ImageInit, NeedsProvisioning, Shown
<1> QED BY <1>4, <1>5, <1>6, <1>7 DEF ImageInv, ShownInv

\* One reporter's decision changes, and nobody else's.
LEMMA OneDecides ==
    ASSUME ImageType, NEW who \in Reporters, NEW d \in [from : Statuses, to : Statuses],
           decided' = [decided EXCEPT ![who] = d]
    PROVE  /\ decided' \in [Reporters -> [from : Statuses, to : Statuses]]
           /\ decided'[who] = d
           /\ \A w \in Reporters : w # who => decided'[w] = decided[w]
           /\ \A w \in Reporters : decided[w] \in [from : Statuses, to : Statuses]
BY DEF ImageType

\* No decision is a decision.
LEMMA NoDecision == /\ NoOp \in [from : Statuses, to : Statuses] /\ NoOp.from = "none" /\ NoOp.to = "none"
                    /\ {"claim", "station", "device", "operator"} = Reporters
BY DEF NoOp, Statuses, Reporters

\* Dispatch: whatever was decided about the row before no longer counts for it.
LEMMA DispatchKeeps ==
    ASSUME ImageInv, Dispatch
    PROVE  ImageInv'
<1>0. ImageType /\ StationInv /\ DecisionInv /\ ShownInv
  BY DEF ImageInv
<1>1. /\ jobStatus' = "pending" /\ overtaken' = (overtaken \/ decided["device"] # NoOp)
      /\ UNCHANGED <<hw, decided, issued, station, machine, escrow, heard>>
  BY DEF Dispatch
<1>2. ImageType'
  BY <1>0, <1>1 DEF ImageType, Statuses
<1>3. StationInv' /\ DecisionInv'
  BY <1>0, <1>1 DEF StationInv, SealedKey, FiledKey, Accepted, DecisionInv, OnFile, SealedKey, FiledKey, Accepted, NeedsProvisioning
<1>4. ~NeedsProvisioning(jobStatus')
  BY <1>1 DEF NeedsProvisioning
<1>5. ShownInv'
  <2>1. ASSUME ~overtaken' PROVE ~NeedsProvisioning(decided'["device"].from)
    BY <1>1, <2>1, NoDecision DEF NeedsProvisioning
  <2> QED BY <1>1, <2>1 DEF ShownInv, Shown
<1> QED BY <1>2, <1>3, <1>4, <1>5 DEF ImageInv, NeedsProvisioning

\* A step that leaves the job before the install or where it is, and what was
\* heard of the device: nothing has to be shown anew.
LEMMA PlainMove ==
    ASSUME ImageInv,
           jobStatus' \in {jobStatus, "failed", "canceled"} \/ (jobStatus = "pending" /\ jobStatus' = "imaging"),
           decided'["device"] \in {decided["device"], NoOp},
           station'.pc = "idle" \/ station.pc # "idle" \/ jobStatus \in {"pending", "imaging"},
           NeedsProvisioning(jobStatus) => UNCHANGED <<issued, machine, escrow>>,
           UNCHANGED <<hw, heard, overtaken>>
    PROVE  ShownInv' /\ (NeedsProvisioning(jobStatus') => OnFile')
<1>0. ShownInv /\ StationInv /\ (NeedsProvisioning(jobStatus) => OnFile)
  BY DEF ImageInv
<1>1. jobStatus' # jobStatus => ~NeedsProvisioning(jobStatus') /\ Shown(jobStatus)'
  BY DEF NeedsProvisioning, Shown
<1>2. NeedsProvisioning(jobStatus') => OnFile'
  BY <1>0, <1>1 DEF OnFile, SealedKey, FiledKey, Accepted
<1>3. ShownInv'
  <2> SUFFICES ASSUME ~overtaken' PROVE
        /\ Shown(jobStatus)'
        /\ NeedsProvisioning(decided'["device"].from) =>
            /\ jobStatus' \notin {"none", "pending", "imaging"} /\ station'.pc = "idle"
            /\ Shown(decided["device"].to)'
    BY DEF ShownInv, NeedsProvisioning
  <2>1. Shown(jobStatus) /\ ~overtaken
    BY <1>0 DEF ShownInv
  <2>2. Shown(jobStatus)'
    BY <1>1, <2>1 DEF Shown
  <2>3. ASSUME NeedsProvisioning(decided'["device"].from) PROVE
            /\ jobStatus' \notin {"none", "pending", "imaging"} /\ station'.pc = "idle"
            /\ Shown(decided["device"].to)'
    <3>1. decided'["device"] = decided["device"]
      BY <2>3, NoDecision DEF NeedsProvisioning
    <3>2. /\ jobStatus \notin {"none", "pending", "imaging"} /\ station.pc = "idle"
          /\ Shown(decided["device"].to)
      BY <1>0, <2>1, <2>3, <3>1 DEF ShownInv
    <3> QED BY <3>1, <3>2 DEF Shown
  <2> QED BY <2>2, <2>3
<1> QED BY <1>2, <1>3

\* Cancel, decided and written.
LEMMA CancelKeeps ==
    ASSUME ImageInv, Cancel
    PROVE  ImageInv'
<1>0. ImageType /\ StationInv /\ DecisionInv
  BY DEF ImageInv
<1>1. UNCHANGED <<hw, issued, station, machine, escrow, heard, overtaken>>
  BY DEF Cancel
<1>2. PICK d \in [from : Statuses, to : Statuses] :
        /\ decided' = [decided EXCEPT !["operator"] = d]
        /\ d = NoOp \/ d.to = "canceled"
  <2>1. CASE Decide("operator", "canceled")
    <3>1. [from |-> jobStatus, to |-> "canceled"] \in [from : Statuses, to : Statuses]
      BY <1>0 DEF ImageType, Statuses
    <3> QED BY <2>1, <3>1 DEF Decide
  <2>2. CASE decided' = [decided EXCEPT !["operator"] = NoOp]
    BY <2>2, NoDecision
  <2> QED BY <2>1, <2>2 DEF Cancel
<1>3. /\ decided' \in [Reporters -> [from : Statuses, to : Statuses]]
      /\ decided'["operator"] = d
      /\ \A w \in Reporters : w # "operator" => decided'[w] = decided[w]
  BY <1>0, <1>2, NoDecision, OneDecides
<1>4. /\ decided'["claim"] = decided["claim"] /\ decided'["station"] = decided["station"]
      /\ decided'["device"] = decided["device"]
  BY <1>3, NoDecision
<1>5. jobStatus' \in {jobStatus, "canceled"}
  BY <1>0 DEF Cancel, TransitionStatus, DecisionInv
<1>6. ImageType' /\ StationInv'
  BY <1>0, <1>1, <1>3, <1>5 DEF ImageType, StationInv, SealedKey, FiledKey, Accepted, Statuses
<1>7. DecisionInv'
  BY <1>0, <1>1, <1>2, <1>3, <1>4 DEF DecisionInv, OnFile, SealedKey, FiledKey, Accepted, NeedsProvisioning
<1>8. ShownInv' /\ (NeedsProvisioning(jobStatus') => OnFile')
  BY <1>1, <1>4, <1>5, PlainMove
<1> QED BY <1>6, <1>7, <1>8 DEF ImageInv, NeedsProvisioning, OnFile, SealedKey, FiledKey, Accepted

\* A credential issued by hand: what was baked in is no longer promised to work.
LEMMA ReissueKeeps ==
    ASSUME ImageInv, reissueCredential
    PROVE  ImageInv'
<1>0. ImageType /\ StationInv /\ DecisionInv /\ ShownInv /\ (NeedsProvisioning(jobStatus) => OnFile)
  BY DEF ImageInv
<1>1. /\ UNCHANGED <<hw, jobStatus, decided, station, machine, escrow, heard, overtaken>>
      /\ issued' = [no |-> issued.no + 1, by |-> "operator"]
  BY DEF reissueCredential
<1>2. issued' \in [no : Nat, by : {"nobody", "station", "operator"}] /\ issued'.by = "operator"
  BY <1>0, <1>1 DEF ImageType
<1>3. ImageType'
  BY <1>0, <1>1, <1>2 DEF ImageType
<1>4. StationInv'
  BY <1>0, <1>1, <1>2 DEF StationInv, SealedKey, FiledKey, Accepted
<1>5. OnFile => OnFile'
  BY <1>1, <1>2 DEF OnFile, SealedKey, FiledKey, Accepted
<1>6. DecisionInv'
  BY <1>0, <1>1, <1>5 DEF DecisionInv, NeedsProvisioning
<1>7. ShownInv'
  BY <1>0, <1>1 DEF ShownInv, Shown, NeedsProvisioning
<1> QED BY <1>0, <1>1, <1>3, <1>4, <1>5, <1>6, <1>7 DEF ImageInv, NeedsProvisioning

\* The claim: listed, and handed out with a fresh credential.
LEMMA ClaimKeeps ==
    ASSUME ImageInv, ClaimList \/ handleClaim
    PROVE  ImageInv'
<1>0. ImageType /\ StationInv /\ DecisionInv
  BY DEF ImageInv
<1>1. UNCHANGED <<hw, machine, escrow, heard, overtaken>>
  BY DEF ClaimList, handleClaim
<1>2. PICK d \in [from : Statuses, to : Statuses] :
        /\ decided' = [decided EXCEPT !["claim"] = d]
        /\ d = NoOp \/ d.to = "imaging"
  <2>1. CASE ClaimList
    <3>1. [from |-> jobStatus, to |-> "imaging"] \in [from : Statuses, to : Statuses]
      BY <1>0 DEF ImageType, Statuses
    <3> QED BY <2>1, <3>1 DEF ClaimList
  <2>2. CASE handleClaim
    BY <2>2, NoDecision DEF handleClaim
  <2> QED BY <2>1, <2>2
<1>3. /\ decided' \in [Reporters -> [from : Statuses, to : Statuses]]
      /\ decided'["claim"] = d
      /\ \A w \in Reporters : w # "claim" => decided'[w] = decided[w]
  BY <1>0, <1>2, NoDecision, OneDecides
<1>4. /\ decided'["operator"] = decided["operator"] /\ decided'["station"] = decided["station"]
      /\ decided'["device"] = decided["device"]
  BY <1>3, NoDecision
<1>5. /\ station.pc \in {"idle", "claiming"} /\ station'.pc \in {"idle", "claiming", "install"}
      /\ station' \in [pc : StationStates, cred : Nat] 
      /\ issued' \in [no : Nat, by : {"nobody", "station", "operator"}]
      /\ station'.pc = "install" => station'.cred = issued'.no
  <2>1. CASE ClaimList
    BY <1>0, <2>1 DEF ClaimList, ImageType, StationStates
  <2>2. CASE handleClaim
    BY <1>0, <2>2 DEF handleClaim, ImageType, StationStates
  <2> QED BY <2>1, <2>2
<1>6. decided["station"] = NoOp /\ decided["station"].to # "installed"
  BY <1>0, <1>5, NoDecision DEF DecisionInv
<1>7. CASE ClaimList
  <2>1. /\ jobStatus' = jobStatus /\ issued' = issued /\ jobStatus \in {"pending", "imaging"}
    BY <1>7 DEF ClaimList, Claimable
  <2>2. ImageType' /\ StationInv'
    BY <1>0, <1>1, <1>3, <1>5, <2>1, <1>7 DEF ImageType, StationInv, SealedKey, FiledKey, Accepted, ClaimList
  <2>3. DecisionInv'
    BY <1>0, <1>2, <1>3, <1>4, <1>6 DEF DecisionInv, NeedsProvisioning
  <2>4. ShownInv' /\ (NeedsProvisioning(jobStatus') => OnFile')
    BY <1>1, <1>4, <2>1, PlainMove
  <2> QED BY <2>2, <2>3, <2>4 DEF ImageInv, NeedsProvisioning, OnFile, SealedKey, FiledKey, Accepted
<1>8. CASE handleClaim
  <2>1. station.pc = "claiming"
    BY <1>8 DEF handleClaim
  <2>2. jobStatus \in {"pending", "imaging", "failed", "canceled"}
    BY <1>0, <2>1 DEF StationInv, SealedKey, FiledKey, Accepted
  <2>3. jobStatus' = jobStatus \/ (jobStatus = "pending" /\ jobStatus' = "imaging")
    BY <1>0, <1>8, NoDecision DEF handleClaim, TransitionStatus, DecisionInv
  <2>4. ImageType' /\ StationInv'
    BY <1>0, <1>1, <1>3, <1>5, <2>2, <2>3 DEF ImageType, StationInv, SealedKey, FiledKey, Accepted, Statuses
  <2>5. DecisionInv'
    BY <1>0, <1>2, <1>3, <1>4, <1>6 DEF DecisionInv, NeedsProvisioning
  <2>6. ShownInv' /\ (NeedsProvisioning(jobStatus') => OnFile')
    BY <1>1, <1>4, <2>1, <2>2, <2>3, PlainMove DEF NeedsProvisioning
  <2> QED BY <2>4, <2>5, <2>6 DEF ImageInv, NeedsProvisioning, OnFile, SealedKey, FiledKey, Accepted
<1> QED BY <1>7, <1>8

\* The installer wipes the disk, the recovery key is sealed, the host key recorded.
LEMMA InstallKeeps ==
    ASSUME ImageInv, Install \/ sealLUKS \/ recordHostKey
    PROVE  ImageInv'
<1>0. ImageType /\ StationInv /\ DecisionInv /\ ShownInv
  BY DEF ImageInv
<1>1. UNCHANGED <<hw, jobStatus, decided, issued, overtaken>> /\ station.pc \in {"install", "seal", "key"}
  BY DEF Install, sealLUKS, recordHostKey
<1>2. jobStatus \in {"pending", "imaging", "failed", "canceled"} /\ Accepted(station.cred)
  BY <1>0, <1>1 DEF StationInv
<1>3. decided["station"] = NoOp /\ decided["station"].to # "installed"
  BY <1>0, <1>1, NoDecision DEF DecisionInv
<1>4. DecisionInv'
  BY <1>0, <1>1, <1>3 DEF DecisionInv, NeedsProvisioning
<1>5. ImageType' /\ StationInv' /\ station'.pc # "idle"
  <2>1. CASE Install
    <3>1. PICK sent \in Enclosures :
            machine' = [machine EXCEPT !.no = machine.no + 1, !.baked = station.cred, !.sealed = FALSE,
                                       !.ack = "none", !.sent = sent]
      BY <2>1 DEF Install
    <3>2. /\ machine' \in [no : Nat, baked : Nat, sb : Firmwares, sealed : BOOLEAN, ack : Acks, sent : SUBSET Carried]
          /\ machine'.baked = station.cred
      <4>1. machine.no + 1 \in Nat /\ station.cred \in Nat /\ "none" \in Acks
        BY <1>0 DEF ImageType, Acks
      <4>2. machine \in [no : Nat, baked : Nat, sb : Firmwares, sealed : BOOLEAN, ack : Acks, sent : SUBSET Carried]
        BY <1>0 DEF ImageType
      <4>3. sent \in SUBSET Carried
        BY <3>1, ImageAssumption
      <4> QED BY <1>2, <3>1, <4>1, <4>2, <4>3
    <3>3. /\ station' \in [pc : StationStates, cred : Nat] /\ station'.pc = "seal"
          /\ station'.cred = station.cred /\ escrow' = escrow
      BY <1>0, <1>2, <2>1 DEF Install, ImageType, StationStates
    <3> QED BY <1>0, <1>1, <1>2, <3>2, <3>3 DEF ImageType, StationInv, SealedKey, FiledKey, Accepted
  <2>2. CASE sealLUKS
    <3>1. /\ station' \in [pc : StationStates, cred : Nat] /\ station'.cred = station.cred
          /\ escrow' \in [luks : Nat, hostKey : Nat] /\ machine' = machine /\ station.pc = "seal"
          /\ \/ station'.pc = "seal"
             \/ station'.pc = "key" /\ ("luks" \in machine.sent => escrow'.luks = machine.no)
      BY <1>0, <2>2 DEF sealLUKS, ImageType, StationStates
    <3> QED BY <1>0, <1>1, <1>2, <3>1 DEF ImageType, StationInv, SealedKey, FiledKey, Accepted
  <2>3. CASE recordHostKey
    <3>1. /\ station' \in [pc : StationStates, cred : Nat] /\ station'.cred = station.cred
          /\ escrow' \in [luks : Nat, hostKey : Nat] /\ machine' = machine /\ station.pc = "key"
          /\ \/ station'.pc = "seal"
             \/ station'.pc = "report" /\ escrow'.luks = escrow.luks
                /\ ("hostKey" \in machine.sent => escrow'.hostKey = machine.no)
      BY <1>0, <2>3 DEF recordHostKey, ImageType, StationStates
    <3> QED BY <1>0, <1>1, <1>2, <3>1 DEF ImageType, StationInv, SealedKey, FiledKey, Accepted
  <2> QED BY <2>1, <2>2, <2>3
<1>6. ~NeedsProvisioning(jobStatus')
  BY <1>1, <1>2 DEF NeedsProvisioning
<1>7. ShownInv'
  <2>1. ~overtaken => ~NeedsProvisioning(decided["device"].from)
    BY <1>0, <1>1 DEF ShownInv
  <2>2. Shown(jobStatus)'
    BY <1>1, <1>2 DEF Shown
  <2> QED BY <1>1, <2>1, <2>2 DEF ShownInv, NeedsProvisioning
<1> QED BY <1>4, <1>5, <1>6, <1>7 DEF ImageInv, NeedsProvisioning

\* The station's report: installed only with everything on file.
LEMMA ReportKeeps ==
    ASSUME ImageInv, handleJobStatus
    PROVE  ImageInv'
<1>0. ImageType /\ StationInv /\ DecisionInv /\ ShownInv
  BY DEF ImageInv
<1>1. /\ UNCHANGED <<hw, issued, machine, escrow, heard, overtaken>>
      /\ station.pc \in {"report", "install", "reporting"}
  BY DEF handleJobStatus
<1>2. jobStatus \in {"pending", "imaging", "failed", "canceled"}
  BY <1>0, <1>1 DEF StationInv, SealedKey, FiledKey, Accepted
<1>3. ASSUME NEW to \in {"installed", "failed"}, Decide("station", to), jobStatus' = jobStatus,
             to = "installed" => station.pc = "report",
             station' = [station EXCEPT !.pc = "reporting"]
      PROVE  ImageInv'
  <2> DEFINE d == [from |-> jobStatus, to |-> to]
  <2>1. /\ d \in [from : Statuses, to : Statuses] /\ d.from = jobStatus /\ d.to = to
    BY <1>0 DEF ImageType, Statuses
  <2>2. decided' = [decided EXCEPT !["station"] = d] /\ (to = "installed" => jobStatus = "imaging")
    BY <1>0, <1>3, LifecycleOrder DEF Decide, ImageType
  <2> HIDE DEF d
  <2>3. /\ decided' \in [Reporters -> [from : Statuses, to : Statuses]]
        /\ decided'["station"] = d
        /\ \A w \in Reporters : w # "station" => decided'[w] = decided[w]
    BY <1>0, <2>1, <2>2, NoDecision, OneDecides
  <2>4. /\ decided'["operator"] = decided["operator"] /\ decided'["claim"] = decided["claim"]
        /\ decided'["device"] = decided["device"]
    BY <2>3, NoDecision
  <2>5. station' \in [pc : StationStates, cred : Nat] /\ station'.pc = "reporting"
    BY <1>0, <1>3 DEF ImageType, StationStates
  <2>6. to = "installed" => OnFile'
    BY <1>0, <1>1, <1>3 DEF StationInv, SealedKey, FiledKey, Accepted, OnFile
  <2>7. ImageType' /\ StationInv'
    BY <1>0, <1>1, <1>2, <1>3, <2>3, <2>5 DEF ImageType, StationInv, SealedKey, FiledKey, Accepted
  <2>8. DecisionInv'
    BY <1>0, <2>1, <2>2, <2>3, <2>4, <2>5, <2>6 DEF DecisionInv, NeedsProvisioning
  <2>9. ShownInv' /\ (NeedsProvisioning(jobStatus') => OnFile')
    BY <1>1, <1>3, <2>4, PlainMove
  <2> QED BY <2>7, <2>8, <2>9 DEF ImageInv, NeedsProvisioning, OnFile, SealedKey, FiledKey, Accepted
<1>4. CASE station' = [pc |-> "idle", cred |-> 0] /\ UNCHANGED <<jobStatus, decided>> /\ station.pc = "report"
  <2>1. station' \in [pc : StationStates, cred : Nat] /\ station'.pc = "idle"
    BY <1>4 DEF StationStates
  <2>2. ImageType' /\ StationInv'
    BY <1>0, <1>1, <1>4, <2>1 DEF ImageType, StationInv, SealedKey, FiledKey, Accepted
  <2>3. decided["station"] = NoOp /\ decided["station"].to # "installed"
    BY <1>0, <1>4, NoDecision DEF DecisionInv
  <2>4. DecisionInv'
    BY <1>0, <1>4, <2>3 DEF DecisionInv, NeedsProvisioning
  <2>5. ShownInv' /\ (NeedsProvisioning(jobStatus') => OnFile')
    BY <1>1, <1>4, <2>1, PlainMove
  <2> QED BY <2>2, <2>4, <2>5 DEF ImageInv, NeedsProvisioning, OnFile, SealedKey, FiledKey, Accepted
<1>5. CASE /\ station.pc = "reporting" /\ TransitionStatus("station")
           /\ decided' = [decided EXCEPT !["station"] = NoOp]
           /\ station' = [pc |-> "idle", cred |-> 0]
  <2>1. station' \in [pc : StationStates, cred : Nat] /\ station'.pc = "idle"
    BY <1>5 DEF StationStates
  <2>2. /\ decided' \in [Reporters -> [from : Statuses, to : Statuses]]
        /\ decided'["station"] = NoOp
        /\ \A w \in Reporters : w # "station" => decided'[w] = decided[w]
    BY <1>0, <1>5, NoDecision, OneDecides
  <2>3. /\ decided'["operator"] = decided["operator"] /\ decided'["claim"] = decided["claim"]
        /\ decided'["device"] = decided["device"]
    BY <2>2, NoDecision
  <2>4. \/ jobStatus' = jobStatus
        \/ jobStatus' = "failed"
        \/ jobStatus' = "installed" /\ OnFile
    <3>1. jobStatus = decided["station"].from => decided["station"] # NoOp
      BY <1>2, NoDecision
    <3> QED BY <1>0, <1>5, <3>1 DEF TransitionStatus, DecisionInv
  <2>5. ImageType' /\ StationInv'
    BY <1>0, <1>1, <2>1, <2>2, <2>4 DEF ImageType, StationInv, SealedKey, FiledKey, Accepted, Statuses
  <2>6. DecisionInv'
    BY <1>0, <2>2, <2>3, NoDecision DEF DecisionInv, NeedsProvisioning
  <2>7. CASE jobStatus' # "installed"
    <3>1. ShownInv' /\ (NeedsProvisioning(jobStatus') => OnFile')
      BY <1>1, <2>1, <2>3, <2>4, <2>7, PlainMove
    <3> QED BY <2>5, <2>6, <3>1 DEF ImageInv, NeedsProvisioning, OnFile, SealedKey, FiledKey, Accepted
  <2>8. CASE jobStatus' = "installed"
    <3>1. OnFile'
      BY <1>1, <1>2, <2>4, <2>8 DEF OnFile, SealedKey, FiledKey, Accepted
    <3>2. ~overtaken => ~NeedsProvisioning(decided["device"].from)
      BY <1>0, <1>5 DEF ShownInv
    <3>3. Shown(jobStatus)'
      BY <2>8 DEF Shown
    <3>4. ShownInv'
      BY <1>1, <2>3, <3>2, <3>3 DEF ShownInv, NeedsProvisioning
    <3> QED BY <2>5, <2>6, <3>1, <3>4 DEF ImageInv
  <2> QED BY <2>7, <2>8
<1>6. CASE station.pc = "report" /\ Decide("station", "installed")
           /\ station' = [station EXCEPT !.pc = "reporting"] /\ UNCHANGED <<jobStatus, imgFaults>>
  BY <1>3, <1>6
<1>7. CASE station.pc = "install" /\ Decide("station", "failed") /\ ImgFault
           /\ station' = [station EXCEPT !.pc = "reporting"] /\ UNCHANGED jobStatus
  BY <1>3, <1>7
<1> QED BY <1>4, <1>5, <1>6, <1>7 DEF handleJobStatus

\* The firmware and the executor change the machine, never which install it is.
LEMMA MachineKeeps ==
    ASSUME ImageInv, Firmware \/ Provision
    PROVE  ImageInv'
<1>0. ImageType /\ StationInv /\ DecisionInv
  BY DEF ImageInv
<1>1. UNCHANGED <<hw, jobStatus, decided, issued, station, escrow, heard, overtaken>>
  BY DEF Firmware, Provision
<1>2. /\ machine' \in [no : Nat, baked : Nat, sb : Firmwares, sealed : BOOLEAN, ack : Acks, sent : SUBSET Carried]
      /\ machine'.no = machine.no /\ machine'.baked = machine.baked /\ machine'.sent = machine.sent
  <2>1. machine \in [no : Nat, baked : Nat, sb : Firmwares, sealed : BOOLEAN, ack : Acks, sent : SUBSET Carried]
    BY <1>0 DEF ImageType
  <2>2. \E sb \in Firmwares, sealed \in BOOLEAN, ack \in Acks :
            machine' = [machine EXCEPT !.sb = sb, !.sealed = sealed, !.ack = ack]
    <3>1. /\ {"audit", "keys", "enforcing"} \subseteq Firmwares
          /\ {"sb-enrolled", "sb-enroll-failed", "tpm2-enrolled", "tpm2-enroll-failed"} \subseteq Acks
          /\ machine.sb \in Firmwares /\ machine.sealed \in BOOLEAN /\ machine.ack \in Acks
      BY <2>1 DEF Firmwares, Acks
    <3>2. CASE Firmware
      <4>1. PICK sb \in Firmwares : machine' = [machine EXCEPT !.sb = sb]
        BY <3>1, <3>2 DEF Firmware
      <4>2. machine' = [machine EXCEPT !.sb = sb, !.sealed = machine.sealed, !.ack = machine.ack]
        BY <2>1, <4>1
      <4> QED BY <3>1, <4>2
    <3>3. CASE machine' = [machine EXCEPT !.sb = "keys", !.ack = "sb-enrolled"]
      <4>1. machine' = [machine EXCEPT !.sb = "keys", !.sealed = machine.sealed, !.ack = "sb-enrolled"]
        BY <2>1, <3>3
      <4> QED BY <3>1, <4>1
    <3>4. CASE machine' = [machine EXCEPT !.ack = "sb-enroll-failed"]
      <4>1. machine' = [machine EXCEPT !.sb = machine.sb, !.sealed = machine.sealed, !.ack = "sb-enroll-failed"]
        BY <2>1, <3>4
      <4> QED BY <3>1, <4>1
    <3>5. ASSUME NEW a \in Acks, machine' = [machine EXCEPT !.sealed = TRUE, !.ack = a]
          PROVE  \E sb \in Firmwares, sealed \in BOOLEAN, ack \in Acks :
                    machine' = [machine EXCEPT !.sb = sb, !.sealed = sealed, !.ack = ack]
      <4>1. machine' = [machine EXCEPT !.sb = machine.sb, !.sealed = TRUE, !.ack = a]
        BY <2>1, <3>5
      <4> QED BY <3>1, <4>1
    <3> QED BY <3>1, <3>2, <3>3, <3>4, <3>5 DEF Provision
  <2> QED BY <2>1, <2>2
<1>3. ImageType' /\ StationInv'
  BY <1>0, <1>1, <1>2 DEF ImageType, StationInv, SealedKey, FiledKey, Accepted
<1>4. OnFile' = OnFile
  BY <1>1, <1>2 DEF OnFile, SealedKey, FiledKey, Accepted
<1>5. DecisionInv'
  BY <1>0, <1>1, <1>4 DEF DecisionInv, NeedsProvisioning
<1>6. ShownInv'
  BY <1>1 DEF ImageInv, ShownInv, Shown, NeedsProvisioning
<1> QED BY <1>1, <1>3, <1>4, <1>5, <1>6 DEF ImageInv, NeedsProvisioning

\* What lies behind each move Advance proposes.
LEMMA AdvanceReasons ==
    ASSUME NEW s, NEW ack, Advance(s, ReportedSB, ReportedTPM2, ack) # s
    PROVE  LET to == Advance(s, ReportedSB, ReportedTPM2, ack) IN
           \/ to = "failed"
           \/ to = "tpm2-enrolled" /\ ack = "tpm2-enrolled"
           \/ to = "sb-enrolled" /\ (ack = "sb-enrolled" \/ ReportedSB = "enforcing")
           \/ to = "sb-pending"
           \/ to = "done" /\ s = "installed" /\ (~hw.wantSB \/ ReportedSB = "unknown")
           \/ to = "done" /\ s = "sb-enrolled" /\ (~hw.wantTPM2 \/ ReportedTPM2 = "absent")
           \/ to = "done" /\ s = "tpm2-enrolled" /\ ReportedSB = "enforcing"
<1>1. CASE ack \in Failures
  BY <1>1 DEF Advance
<1>2. CASE ack \notin Failures /\ Acked(s, ack)
  BY <1>2 DEF Advance, Acked
<1>3. CASE ack \notin Failures /\ ~Acked(s, ack)
  BY <1>3 DEF Advance
<1> QED BY <1>1, <1>2, <1>3

\* A check-in: what it decides is what it has just shown.
LEMMA CheckinKeeps ==
    ASSUME ImageInv, AdvanceFromDevice
    PROVE  ImageInv'
<1>0. ImageType /\ StationInv /\ DecisionInv /\ ShownInv
  BY DEF ImageInv
<1>1. /\ UNCHANGED <<hw, jobStatus, issued, station, escrow, overtaken>>
      /\ decided["device"] = NoOp
      /\ machine' = [machine EXCEPT !.ack = "none"]
  BY DEF AdvanceFromDevice
<1>2. /\ machine' \in [no : Nat, baked : Nat, sb : Firmwares, sealed : BOOLEAN, ack : Acks, sent : SUBSET Carried]
      /\ machine'.no = machine.no /\ machine'.baked = machine.baked /\ machine'.sent = machine.sent
      /\ machine.sb \in Firmwares
  BY <1>0, <1>1 DEF ImageType, Acks
<1>3. OnFile' = OnFile
  BY <1>1, <1>2 DEF OnFile, SealedKey, FiledKey, Accepted
<1>4. /\ heard'.booted
      /\ heard.enforcing \/ ReportedSB = "enforcing" => heard'.enforcing
      /\ heard.keys \/ machine.ack = "sb-enrolled" => heard'.keys
      /\ heard.sealed \/ machine.ack = "tpm2-enrolled" => heard'.sealed
      /\ heard.noChip \/ ReportedTPM2 = "absent" => heard'.noChip
  BY DEF AdvanceFromDevice
<1>5. ~overtaken => Shown(jobStatus) /\ Shown(jobStatus)'
  BY <1>0, <1>1, <1>4 DEF ShownInv, Shown
<1> DEFINE to == Advance(jobStatus, ReportedSB, ReportedTPM2, machine.ack)
<1>6. CASE decided' = decided
  <2>1. ~NeedsProvisioning(decided'["device"].from)
    BY <1>1, <1>6, NoDecision DEF NeedsProvisioning
  <2>2. ImageType' /\ StationInv'
    BY <1>0, <1>1, <1>2, <1>6 DEF ImageType, StationInv, SealedKey, FiledKey, Accepted
  <2>3. DecisionInv' /\ ShownInv'
    BY <1>0, <1>1, <1>3, <1>5, <1>6, <2>1 DEF DecisionInv, ShownInv, NeedsProvisioning
  <2> QED BY <1>1, <1>3, <2>2, <2>3 DEF ImageInv, NeedsProvisioning
<1>7. CASE /\ to # jobStatus /\ CanTransition(jobStatus, to)
           /\ decided' = [decided EXCEPT !["device"] = [from |-> jobStatus, to |-> to]]
  <2>1. /\ to \in Statuses /\ jobStatus \in Statuses
        /\ to = "installed" => jobStatus = "imaging"
        /\ to \in Ceremony => NeedsProvisioning(jobStatus)
    BY <1>0, <1>7, LifecycleOrder DEF ImageType
  <2>2. \/ to = "failed"
        \/ to = "tpm2-enrolled" /\ machine.ack = "tpm2-enrolled"
        \/ to = "sb-enrolled" /\ (machine.ack = "sb-enrolled" \/ ReportedSB = "enforcing")
        \/ to = "sb-pending"
        \/ to = "done" /\ jobStatus = "installed" /\ (~hw.wantSB \/ ReportedSB = "unknown")
        \/ to = "done" /\ jobStatus = "sb-enrolled" /\ (~hw.wantTPM2 \/ ReportedTPM2 = "absent")
        \/ to = "done" /\ jobStatus = "tpm2-enrolled" /\ ReportedSB = "enforcing"
    BY <1>7, AdvanceReasons
  <2> HIDE DEF to
  <2> DEFINE d == [from |-> jobStatus, to |-> to]
  <2>3. d \in [from : Statuses, to : Statuses] /\ d.from = jobStatus /\ d.to = to
    BY <2>1
  <2>4. decided' = [decided EXCEPT !["device"] = d]
    BY <1>7
  <2> HIDE DEF d
  <2>5. /\ decided' \in [Reporters -> [from : Statuses, to : Statuses]]
        /\ decided'["device"] = d
        /\ \A w \in Reporters : w # "device" => decided'[w] = decided[w]
    BY <1>0, <2>3, <2>4, NoDecision, OneDecides
  <2>6. /\ decided'["operator"] = decided["operator"] /\ decided'["claim"] = decided["claim"]
        /\ decided'["station"] = decided["station"]
    BY <2>5, NoDecision
  <2>7. ImageType' /\ StationInv'
    BY <1>0, <1>1, <1>2, <2>5 DEF ImageType, StationInv, SealedKey, FiledKey, Accepted
  <2>8. to \in {"failed"} \cup Ceremony
    BY <2>2 DEF Ceremony
  <2>9. DecisionInv'
    BY <1>0, <1>1, <1>3, <2>1, <2>3, <2>5, <2>6, <2>8 DEF DecisionInv, NeedsProvisioning
  <2>10. ReportedSB = "unknown" => ~hw.efi
    BY <1>2 DEF ReportedSB, Firmwares
  <2>11. ASSUME ~overtaken, NeedsProvisioning(jobStatus)
         PROVE  /\ jobStatus' \notin {"none", "pending", "imaging"} /\ station'.pc = "idle"
                /\ Shown(decided["device"].to)'
    <3>1. jobStatus \notin {"none", "pending", "imaging", "failed", "canceled"}
      BY <2>11 DEF NeedsProvisioning
    <3>2. station.pc = "idle"
      BY <1>0, <3>1 DEF StationInv, SealedKey, FiledKey, Accepted
    <3>3. decided'["device"].to = to
      BY <2>3, <2>5
    <3>4. Shown(jobStatus) /\ hw' = hw
      BY <1>1, <1>5, <2>11
    <3>5. ASSUME to # "done" PROVE Shown(decided["device"].to)'
      BY <1>4, <2>2, <3>3, <3>5 DEF Shown
    <3>6. ASSUME to = "done" PROVE Shown(decided["device"].to)'
      BY <1>4, <2>2, <2>10, <3>3, <3>4, <3>6 DEF Shown
    <3>7. Shown(decided["device"].to)'
      BY <3>5, <3>6
    <3> QED BY <1>1, <3>1, <3>2, <3>7
  <2>12. ShownInv'
    BY <1>1, <1>5, <2>3, <2>5, <2>11 DEF ShownInv, NeedsProvisioning
  <2> QED BY <1>1, <1>3, <2>7, <2>9, <2>12 DEF ImageInv, NeedsProvisioning
<1> QED BY <1>6, <1>7 DEF AdvanceFromDevice

\* The write of a check-in counts only from the status it read.
LEMMA DeviceWriteKeeps ==
    ASSUME ImageInv, DeviceWrite
    PROVE  ImageInv'
<1>0. /\ ImageType /\ StationInv /\ DecisionInv /\ ShownInv
      /\ NeedsProvisioning(jobStatus) => OnFile
  BY DEF ImageInv
<1>1. /\ UNCHANGED <<hw, issued, station, machine, escrow, heard, overtaken>>
      /\ decided' = [decided EXCEPT !["device"] = NoOp] /\ decided["device"] # NoOp
      /\ jobStatus' = IF jobStatus = decided["device"].from THEN decided["device"].to ELSE jobStatus
  BY DEF DeviceWrite, TransitionStatus
<1>2. /\ decided' \in [Reporters -> [from : Statuses, to : Statuses]]
      /\ decided'["device"] = NoOp
      /\ \A w \in Reporters : w # "device" => decided'[w] = decided[w]
      /\ \A w \in Reporters : decided[w] \in [from : Statuses, to : Statuses]
  BY <1>0, <1>1, NoDecision, OneDecides
<1>3. /\ decided'["operator"] = decided["operator"] /\ decided'["claim"] = decided["claim"]
      /\ decided'["station"] = decided["station"] /\ decided'["device"].from = "none"
      /\ decided'["device"].to = "none" /\ decided["device"] \in [from : Statuses, to : Statuses]
  BY <1>2, NoDecision
<1>4. DecisionInv'
  BY <1>0, <1>1, <1>3 DEF DecisionInv, OnFile, SealedKey, FiledKey, Accepted, NeedsProvisioning, Ceremony
<1>n. ~NeedsProvisioning(decided'["device"].from)
  BY <1>3 DEF NeedsProvisioning
<1>5. CASE jobStatus' = jobStatus
  <2>1. ImageType' /\ StationInv'
    BY <1>0, <1>1, <1>2, <1>5 DEF ImageType, StationInv, SealedKey, FiledKey, Accepted
  <2>2. ShownInv'
    BY <1>0, <1>1, <1>5, <1>n DEF ShownInv, Shown, NeedsProvisioning
  <2> QED BY <1>0, <1>1, <1>4, <1>5, <2>1, <2>2 DEF ImageInv, NeedsProvisioning, OnFile, SealedKey, FiledKey, Accepted
<1>6. CASE jobStatus = decided["device"].from /\ jobStatus' = decided["device"].to /\ jobStatus' # jobStatus
  <2>0. jobStatus' \in Statuses
    BY <1>3, <1>6
  <2>1. CASE jobStatus' \in Ceremony
    <3>1. NeedsProvisioning(jobStatus) /\ OnFile
      BY <1>0, <1>6, <2>1 DEF DecisionInv
    <3>2. station.pc = "idle"
      BY <1>0, <3>1 DEF StationInv, SealedKey, FiledKey, Accepted, NeedsProvisioning
    <3>3. ImageType' /\ StationInv'
      BY <1>0, <1>1, <1>2, <2>0, <3>2 DEF ImageType, StationInv, SealedKey, FiledKey, Accepted
    <3>4. ~overtaken => Shown(jobStatus)'
      BY <1>0, <1>1, <1>6, <3>1 DEF ShownInv, Shown
    <3>5. ShownInv'
      BY <1>1, <1>n, <3>4 DEF ShownInv, NeedsProvisioning
    <3> QED BY <1>1, <1>4, <3>1, <3>3, <3>5 DEF ImageInv, OnFile, SealedKey, FiledKey, Accepted
  <2>2. CASE jobStatus' \notin Ceremony
    <3>1. jobStatus' = "failed"
      BY <1>0, <1>1, <1>6, <2>2 DEF DecisionInv
    <3>2. ImageType' /\ StationInv'
      BY <1>0, <1>1, <1>2, <2>0, <3>1 DEF ImageType, StationInv, SealedKey, FiledKey, Accepted
    <3>3. ShownInv' /\ (NeedsProvisioning(jobStatus') => OnFile')
      BY <1>0, <1>1, <1>2, <3>1, PlainMove DEF StationInv, SealedKey, FiledKey, Accepted
    <3> QED BY <1>4, <3>2, <3>3 DEF ImageInv, NeedsProvisioning, OnFile, SealedKey, FiledKey, Accepted
  <2> QED BY <2>1, <2>2
<1> QED BY <1>1, <1>5, <1>6

\* Every step of the operator, the station and the device.
LEMMA ImageStep == ASSUME ImageInv, [ImageNext]_imageVars PROVE ImageInv'
<1>1. CASE UNCHANGED imageVars
  <2>1. ImageType' /\ StationInv' /\ DecisionInv'
    BY <1>1 DEF imageVars, ImageInv, ImageType, StationInv, SealedKey, FiledKey, Accepted, DecisionInv, OnFile, SealedKey, FiledKey, Accepted, NeedsProvisioning
  <2>2. ShownInv' /\ (NeedsProvisioning(jobStatus') => OnFile')
    BY <1>1 DEF imageVars, ImageInv, ShownInv, Shown, OnFile, SealedKey, FiledKey, Accepted, NeedsProvisioning
  <2> QED BY <2>1, <2>2 DEF ImageInv, NeedsProvisioning, OnFile, SealedKey, FiledKey, Accepted
<1> QED BY <1>1, DispatchKeeps, CancelKeeps, ReissueKeeps, ClaimKeeps, InstallKeeps, ReportKeeps, MachineKeeps,
           CheckinKeeps, DeviceWriteKeeps DEF ImageNext

\* However station, device and operator interleave, whatever is lost or fails and
\* however often the job is dispatched again: a job past the install has the keys
\* its report carried sealed and on file and a device whose credential the console
\* accepts unless an operator issued another by hand, and a finished one was heard
\* enforcing with its TPM2 sealed, or enforcing or enrolled where no TPM2 step
\* applies (http/api/station.go, app/imaging.go, domain/imaging).
THEOREM StatusAlwaysEarned == ImageSpec => []StatusIsEarned
<1>1. ImageInv => StatusIsEarned
  BY DEF ImageInv, ShownInv, Shown, OnFile, StatusIsEarned, SealedKey, FiledKey, Accepted
<1> QED BY <1>1, ImageStarts, ImageStep, PTL DEF ImageSpec

(***************************************************************************)
(* Leadership.                                                             *)
(***************************************************************************)
\* Where LeaderLoop is; a watcher for every replica.
WorkerType ==
    /\ lead \in [Replicas -> {"elect", "lead", "join", "stopped"}]
    /\ session \in [Replicas -> BOOLEAN]
    /\ DOMAIN watch = Replicas

\* The lock belongs to a live session of a replica that leads or is joining
\* its workers, and such a session holds it.
LockIsSession ==
    \A r \in Replicas :
        /\ session[r] => advisory = r
        /\ advisory = r => lead[r] \in {"lead", "join"}

\* The watcher runs only under a leadership that has not been resigned.
WatchedIsLed == \A r \in Replicas : watch[r].pc # "off" => lead[r] \in {"lead", "join"}

LeadInv == WorkerType /\ LockIsSession /\ WatchedIsLed

\* A watcher that is off.
LEMMA Rests == Off.pc = "off"
  BY DEF Off, Idle

\* Every replica stands for election, none is elected.
LEMMA LeadStarts == WorkerInit => LeadInv
  BY Rests, WorkersAssumption
     DEF WorkerInit, LeadInv, WorkerType, LockIsSession, WatchedIsLed, NoReplica

\* LeaderLoop and what can end a leadership: a lost session, a failed ping, a
\* shutdown, a crash.
LEMMA LeadershipKeeps ==
    ASSUME LeadInv, NEW r \in Replicas,
           \/ Elected(r) \/ SessionLost(r) \/ StandDown(r) \/ Shutdown(r)
           \/ Resign(r) \/ WorkerCrash(r) \/ Start(r) \/ TickerReturns(r)
    PROVE  LeadInv'
  <1> USE WorkersAssumption DEF LeadInv, WorkerType, LockIsSession, WatchedIsLed, NoReplica
  <1>1. CASE Elected(r) BY <1>1, Rests DEF Elected
  <1>2. CASE SessionLost(r) BY <1>2 DEF SessionLost
  <1>3. CASE StandDown(r) BY <1>3 DEF StandDown
  <1>4. CASE Shutdown(r) BY <1>4 DEF Shutdown
  <1>5. CASE Resign(r) BY <1>5 DEF Resign, Joined
  <1>6. CASE WorkerCrash(r) BY <1>6, Rests DEF WorkerCrash
  <1>7. CASE Start(r) BY <1>7 DEF Start
  <1>8. CASE TickerReturns(r) BY <1>8 DEF TickerReturns
  <1> QED BY <1>1, <1>2, <1>3, <1>4, <1>5, <1>6, <1>7, <1>8

\* A step of the watcher is a step of one that runs, and changes no
\* leadership.
LEMMA WatchKeeps ==
    ASSUME LeadInv, NEW r \in Replicas, WatchStep(r)
    PROVE  LeadInv'
  <1>1. UNCHANGED leaderVars
    BY DEF WatchStep, WatchReturns, CheckOnce, Supersede, Abandon, OpenBranch, OpenRecord,
           Deliver, Delivered, PutUpstream
  <1>2. watch[r].pc # "off"
    BY DEF WatchStep, WatchReturns, CheckOnce, Supersede, Abandon, OpenBranch, OpenRecord,
           Deliver, Delivered, PutUpstream
  <1>3. DOMAIN watch' = Replicas /\ \A s \in Replicas \ {r} : watch'[s] = watch[s]
    <2> USE DEF LeadInv, WorkerType
    <2>1. CASE WatchReturns(r) BY <2>1 DEF WatchReturns
    <2>2. CASE CheckOnce(r) BY <2>2 DEF CheckOnce
    <2>3. CASE Supersede(r) BY <2>3 DEF Supersede, Goto
    <2>4. CASE Abandon(r) BY <2>4 DEF Abandon, Goto
    <2>5. CASE OpenBranch(r) BY <2>5 DEF OpenBranch, Goto
    <2>6. CASE OpenRecord(r) BY <2>6 DEF OpenRecord, Goto
    <2>7. CASE Deliver(r) BY <2>7 DEF Deliver, Goto
    <2>8. CASE Delivered(r) BY <2>8 DEF Delivered, Goto
    <2>9. CASE PutUpstream(r) BY <2>9 DEF PutUpstream
    <2> QED BY <2>1, <2>2, <2>3, <2>4, <2>5, <2>6, <2>7, <2>8, <2>9 DEF WatchStep
  <1>4. WorkerType' BY <1>1, <1>3 DEF LeadInv, WorkerType, leaderVars
  <1>5. LockIsSession' BY <1>1 DEF LeadInv, LockIsSession, leaderVars
  <1>6. WatchedIsLed' BY <1>1, <1>2, <1>3 DEF LeadInv, WatchedIsLed, leaderVars
  <1> QED BY <1>4, <1>5, <1>6 DEF LeadInv

\* Reviewers, the upstream repository, and nothing at all.
LEMMA OutsideKeeps ==
    ASSUME LeadInv, UpstreamMoves \/ UNCHANGED workerVars \/ \E v \in 1..MaxHead : Reviewed(v)
    PROVE  LeadInv'
  <1> USE DEF LeadInv, WorkerType, LockIsSession, WatchedIsLed, leaderVars
  <1>1. CASE UpstreamMoves BY <1>1 DEF UpstreamMoves
  <1>2. CASE UNCHANGED workerVars BY <1>2 DEF workerVars
  <1>3. CASE \E v \in 1..MaxHead : Reviewed(v) BY <1>3 DEF Reviewed
  <1> QED BY <1>1, <1>2, <1>3

\* For any number of replicas, lost sessions, crashes and restarts: two
\* replicas stage core updates or tick rollouts at once only in the windows
\* the code is known to leave (leader.go leadOnce and LeaderLoop, the workers of capabilities.go).
THEOREM WorkersAlwaysExclusive == WorkerSpec => []WorkersExclusive
  <1>1. LeadInv /\ [WorkerNext]_workerVars => LeadInv'
    BY LeadershipKeeps, WatchKeeps, OutsideKeeps DEF WorkerNext, LeaderStep
  <1>2. LeadInv => WorkersExclusive
    BY DEF LeadInv, WorkerType, LockIsSession, WatchedIsLed, WorkersExclusive, CutOff, Ended
  <1> QED BY LeadStarts, <1>1, <1>2, PTL DEF WorkerSpec

(***************************************************************************)
(* Enrolment: the values the variables take.                               *)
(***************************************************************************)
SerialIds == {"none"} \cup UNION {Serials[e] : e \in Enrolments}

\* A revision of the fleet document.
Revision == [devs : SUBSET AllTags, shape : [AllTags -> Int], globals : Int,
             serial : [AllTags -> SerialIds], pins : [Rings -> Nat \ {0}]]

\* A handler.
Handler == [pc : {"new", "head", "snapshot", "rings", "push", "refused", "dispatched"},
            serial : SerialIds, kept : AllTags \cup {"none"}, rev : Nat, seen : Nat,
            todo : SUBSET Rings, raced : BOOLEAN]

EnrolType ==
    /\ docs \in Seq(Revision) /\ Len(docs) >= 1
    /\ ring \in [Rings -> Nat] /\ localRing \in [Rings -> Nat] /\ promoting \in [Rings -> Nat]
    /\ enrol \in [Enrolments -> Handler]

\* A pin names a commit that was there before; the first revision, which the
\* fleet starts with, is pinned to itself.
PinsBehind ==
    \A i \in 1..Len(docs) : \A g \in Rings :
        docs[i].pins[g] < i \/ (i = 1 /\ docs[i].pins[g] = 1)

\* What a handler knows holds in the document: the device it made is there, the
\* revision it read is a revision after the first, and one nobody came between
\* read and snapshot is the snapshot.
Informed(e) ==
    /\ enrol[e].pc # "new" =>
        /\ Len(docs) >= 2
        /\ enrol[e].kept = NameOf[e] => NameOf[e] \in docs[Len(docs)].devs
    /\ enrol[e].pc \notin {"new", "head"} =>
        /\ enrol[e].rev \in 2..Len(docs)
        /\ enrol[e].kept = NameOf[e] => NameOf[e] \in docs[enrol[e].rev].devs
    /\ enrol[e].pc = "snapshot" /\ ~enrol[e].raced => enrol[e].rev = Len(docs)
    /\ enrol[e].pc \in {"rings", "push"} =>
        /\ enrol[e].seen \in 2..Len(docs)
        /\ enrol[e].todo \subseteq Covering[NameOf[e]]
        /\ ~enrol[e].raced => enrol[e].seen = enrol[e].rev

\* The guard's answer: revision i serves every member the revision it pins ring
\* g to knew, n aside, the shape it has there.
Soaked(i, g, n) ==
    \A t \in docs[docs[i].pins[g]].devs \ {n} :
        g \in Covering[t] =>
            /\ docs[docs[i].pins[g]].globals = docs[i].globals
            /\ docs[docs[i].pins[g]].shape[t] = docs[i].shape[t]

\* A ring the handler is done with serves the revision it read, and the one it
\* is about to push would and passed the guard.
Moved(e) ==
    /\ enrol[e].pc \in {"rings", "push"} /\ ~enrol[e].raced =>
        \A g \in coveringPins({NameOf[e]}, docs[enrol[e].seen], enrol[e].rev) \ enrol[e].todo :
            ring[g] = enrol[e].rev
    /\ enrol[e].pc = "push" =>
        /\ enrol[e].todo # {}
        /\ Soaked(enrol[e].seen, NextRing(e), NameOf[e])
        /\ ~enrol[e].raced => localRing[NextRing(e)] = enrol[e].rev

EnrolInv == EnrolType /\ PinsBehind /\ \A e \in Enrolments : Informed(e) /\ Moved(e)

\* What a bystander keeps when another handler, an operator or a rollout acts:
\* everything but the mark that somebody came between.
Kin(x, y) ==
    /\ x \in Handler
    /\ x.pc = y.pc /\ x.kept = y.kept /\ x.rev = y.rev /\ x.seen = y.seen /\ x.todo = y.todo
    /\ y.raced => x.raced

\* main only grows.
Grown(d) ==
    /\ docs' \in Seq(Revision) /\ Len(docs') = Len(docs) + 1
    /\ \A i \in 1..Len(docs) : docs'[i] = docs[i]
    /\ docs'[Len(docs) + 1] = d

\* There is a first ring among those left to move.
LEMMA LeastRing ==
    ASSUME NEW S, S \subseteq Rings, S # {}
    PROVE  (CHOOSE g \in S : \A h \in S : g <= h) \in S
  <1>1. S \subseteq Nat BY RingsAssumption
  <1>2. PICK x \in S : \A y \in S : ~(<<y, x>> \in OpToRel(<, Nat))
    BY <1>1, WFMin, NatLessThanWellFounded
  <1>3. \A y \in S : ~(y < x) BY <1>1, <1>2 DEF OpToRel
  <1>4. \A y \in S : x <= y BY <1>1, <1>3
  <1> QED BY <1>4

LEMMA NextIsLeft ==
    ASSUME EnrolType, NEW e \in Enrolments, enrol[e].todo # {}
    PROVE  NextRing(e) \in enrol[e].todo /\ NextRing(e) \in Rings
  <1>1. enrol[e].todo \subseteq Rings BY DEF EnrolType, Handler
  <1> QED BY <1>1, LeastRing DEF NextRing

\* The rings that cover a device are its own.
LEMMA CoveringIsOwn ==
    ASSUME NEW e \in Enrolments, NEW f, NEW rev
    PROVE  coveringPins({NameOf[e]}, f, rev) \subseteq Covering[NameOf[e]] \cap Rings
  BY DEF coveringPins

\* Disturb marks the handlers it names and changes nothing else.
LEMMA DisturbMarks ==
    ASSUME EnrolType, NEW when, NEW g \in Nat, NEW e \in Enrolments
    PROVE  /\ Kin(Disturb(when, g)[e], enrol[e])
           /\ enrol[e].pc \in when /\ (g = 0 \/ g \in Covering[NameOf[e]]) => Disturb(when, g)[e].raced
  <1>1. enrol[e] \in Handler BY DEF EnrolType
  <1>2. Disturb(when, g)[e] =
            IF enrol[e].pc \in when /\ (g = 0 \/ g \in Covering[NameOf[e]])
            THEN [enrol[e] EXCEPT !.raced = TRUE] ELSE enrol[e]
    BY DEF Disturb
  <1> QED BY <1>1, <1>2 DEF Kin, Handler

\* A commit leaves every earlier revision as it was.
LEMMA CommitGrows ==
    ASSUME EnrolType, NEW d \in Revision, enrolApply(d)
    PROVE  Grown(d)
  BY DEF EnrolType, enrolApply, Grown

\* A revision pinned behind itself keeps every pin behind.
LEMMA PinsStayBehind ==
    ASSUME EnrolType, PinsBehind, NEW d \in Revision, Grown(d),
           \A g \in Rings : d.pins[g] <= Len(docs)
    PROVE  PinsBehind'
  <1> SUFFICES ASSUME NEW i \in 1..Len(docs'), NEW g \in Rings
               PROVE  docs'[i].pins[g] < i \/ (i = 1 /\ docs'[i].pins[g] = 1)
    BY DEF PinsBehind
  <1>0. Len(docs) \in Nat /\ Len(docs) >= 1 BY DEF EnrolType
  <1>1. CASE i \in 1..Len(docs) BY <1>1 DEF PinsBehind, Grown
  <1>2. CASE i = Len(docs) + 1
    <2>1. d.pins[g] \in Nat BY DEF Revision
    <2> QED BY <1>0, <1>2, <2>1 DEF Grown
  <1> QED BY <1>0, <1>1, <1>2 DEF Grown

\* The head revision and its pins.
LEMMA HeadIsRevision ==
    ASSUME EnrolType, PinsBehind
    PROVE  /\ headRev \in Nat /\ headRev >= 1 /\ headRev = Len(docs)
           /\ doc(headRev) \in Revision /\ doc(headRev) = docs[Len(docs)]
           /\ \A g \in Rings : doc(headRev).pins[g] <= Len(docs)
  <1>1. headRev \in Nat /\ headRev >= 1 /\ headRev = Len(docs) BY DEF EnrolType, headRev
  <1>2. doc(headRev) \in Revision BY <1>1 DEF EnrolType, doc
  <1>3. \A g \in Rings : docs[Len(docs)].pins[g] <= Len(docs)
    BY <1>1, <1>2 DEF PinsBehind, doc, Revision
  <1> QED BY <1>1, <1>2, <1>3 DEF doc

\* No member changed is what the guard's answer says.
LEMMA GuardAnswers ==
    ASSUME NEW i, NEW g, NEW n, membersChangedBetween(docs[i], g, {n}) = {}
    PROVE  Soaked(i, g, n)
  BY DEF Soaked, membersChangedBetween, doc

\* A commit by somebody else: a handler between head and snapshot is marked.
LEMMA CommitSpares ==
    ASSUME EnrolInv, NEW e \in Enrolments, NEW d \in Revision, Grown(d),
           docs[Len(docs)].devs \subseteq d.devs,
           Kin(enrol'[e], enrol[e]), enrol[e].pc = "snapshot" => enrol'[e].raced,
           UNCHANGED <<ring, localRing>>
    PROVE  Informed(e)' /\ Moved(e)'
  <1>0. /\ EnrolType /\ PinsBehind /\ Informed(e) /\ Moved(e)
        /\ Len(docs) \in Nat /\ Len(docs) >= 1 /\ enrol[e] \in Handler
    BY DEF EnrolInv, EnrolType
  <1>1. /\ Len(docs') = Len(docs) + 1 /\ docs'[Len(docs')] = d
        /\ \A i \in 1..Len(docs) : docs'[i] = docs[i]
    BY DEF Grown
  <1>2. Informed(e)'
    BY <1>0, <1>1 DEF Informed, Kin, Handler
  <1>3. Moved(e)'
    <2>1. SUFFICES ASSUME enrol[e].pc \in {"rings", "push"} PROVE Moved(e)'
      BY DEF Moved, Kin
    <2>2. /\ enrol[e].seen \in 1..Len(docs) /\ enrol'[e].seen = enrol[e].seen
          /\ docs'[enrol[e].seen] = docs[enrol[e].seen]
          /\ enrol'[e].todo = enrol[e].todo /\ NextRing(e)' = NextRing(e)
      BY <1>0, <1>1, <2>1 DEF Informed, Kin, NextRing
    <2>3. ASSUME enrol[e].pc = "push"
          PROVE  Soaked(enrol[e].seen, NextRing(e), NameOf[e])'
      <3>1. NextRing(e) \in Rings BY <1>0, <2>3, NextIsLeft DEF Moved
      <3>2. Soaked(enrol[e].seen, NextRing(e), NameOf[e])
        BY <1>0, <2>3 DEF Moved
      <3>3. docs[enrol[e].seen].pins[NextRing(e)] \in 1..Len(docs)
        <4>1. docs[enrol[e].seen] \in Revision BY <1>0, <2>2 DEF EnrolType
        <4>2. docs[enrol[e].seen].pins[NextRing(e)] \in Nat \ {0} BY <3>1, <4>1 DEF Revision
        <4> QED BY <1>0, <2>2, <3>1, <4>2 DEF PinsBehind
      <3>4. docs'[docs[enrol[e].seen].pins[NextRing(e)]] = docs[docs[enrol[e].seen].pins[NextRing(e)]]
        BY <1>1, <3>3
      <3>5. docs'[enrol'[e].seen] = docs[enrol[e].seen]
        BY <2>2
      <3>6. docs'[docs'[enrol'[e].seen].pins[NextRing(e)']] = docs[docs[enrol[e].seen].pins[NextRing(e)]]
        BY <2>2, <3>4, <3>5
      <3>7. NextRing(e)' = NextRing(e) BY <2>2
      <3> QED BY <3>2, <3>5, <3>6, <3>7 DEF Soaked
    <2> QED BY <1>0, <2>1, <2>2, <2>3 DEF Moved, Kin
  <1> QED BY <1>2, <1>3

\* A ring moved by somebody else, in the clone or on the remote: a handler the
\* ring covers is marked once it has its snapshot.
LEMMA MoveSpares ==
    ASSUME EnrolInv, NEW e \in Enrolments, NEW g \in Rings, UNCHANGED docs,
           Kin(enrol'[e], enrol[e]),
           enrol[e].pc \in {"rings", "push"} /\ g \in Covering[NameOf[e]] => enrol'[e].raced,
           \A h \in Rings \ {g} : ring'[h] = ring[h] /\ localRing'[h] = localRing[h]
    PROVE  Informed(e)' /\ Moved(e)'
  <1>0. /\ EnrolType /\ PinsBehind /\ Informed(e) /\ Moved(e)
        /\ enrol[e] \in Handler
    BY DEF EnrolInv, EnrolType
  <1>2. Informed(e)'
    BY <1>0 DEF Informed, Kin, Handler
  <1>3. Moved(e)'
    <2>1. SUFFICES ASSUME enrol[e].pc \in {"rings", "push"} PROVE Moved(e)'
      BY DEF Moved, Kin
    <2>2. /\ enrol'[e].seen = enrol[e].seen /\ enrol'[e].rev = enrol[e].rev
          /\ enrol'[e].todo = enrol[e].todo /\ NextRing(e)' = NextRing(e)
      BY DEF Kin, NextRing
    <2>3. ~enrol'[e].raced => ~enrol[e].raced /\ g \notin Covering[NameOf[e]]
      BY <1>0, <2>1 DEF Kin, Handler
    <2>4. ~enrol'[e].raced =>
            \A h \in coveringPins({NameOf[e]}, docs[enrol[e].seen], enrol[e].rev) \ enrol[e].todo :
                ring'[h] = enrol[e].rev
      BY <1>0, <2>1, <2>3, CoveringIsOwn DEF Moved
    <2>5. ASSUME enrol[e].pc = "push"
          PROVE  /\ Soaked(enrol[e].seen, NextRing(e), NameOf[e])'
                 /\ ~enrol'[e].raced => localRing'[NextRing(e)] = enrol[e].rev
      <3>1. NextRing(e) \in Rings /\ NextRing(e) \in enrol[e].todo
        BY <1>0, <2>5, NextIsLeft DEF Moved
      <3>2. NextRing(e) \in Covering[NameOf[e]] BY <1>0, <2>1, <3>1 DEF Informed
      <3>3. Soaked(enrol[e].seen, NextRing(e), NameOf[e])'
        BY <1>0, <2>2, <2>5 DEF Moved, Soaked
      <3> QED BY <1>0, <2>3, <2>5, <3>1, <3>2, <3>3 DEF Moved
    <2> QED BY <1>0, <2>1, <2>2, <2>4, <2>5 DEF Moved, Kin
  <1> QED BY <1>2, <1>3

\* What a commit leaves true of the document itself.
LEMMA DocumentKeeps ==
    ASSUME EnrolInv, NEW d \in Revision, enrolApply(d), \A g \in Rings : d.pins[g] <= Len(docs)
    PROVE  /\ Grown(d) /\ PinsBehind'
           /\ docs' \in Seq(Revision) /\ Len(docs') >= 1 /\ Len(docs') = Len(docs) + 1
           /\ docs'[Len(docs')] = d
  <1>0. EnrolType /\ PinsBehind BY DEF EnrolInv
  <1>1. Grown(d) BY <1>0, CommitGrows
  <1>2. PinsBehind' BY <1>0, <1>1, PinsStayBehind
  <1>3. Len(docs) \in Nat BY <1>0 DEF EnrolType
  <1> QED BY <1>1, <1>2, <1>3 DEF Grown

\* An operator's edit and a rollout's pin: one commit, every handler a
\* bystander.
LEMMA OthersCommit ==
    ASSUME EnrolInv, NEW d \in Revision, enrolApply(d),
           \A g \in Rings : d.pins[g] <= Len(docs), docs[Len(docs)].devs \subseteq d.devs,
           enrol' = Disturb({"snapshot"}, 0), UNCHANGED <<ring, localRing>>,
           promoting' \in [Rings -> Nat]
    PROVE  EnrolInv'
  <1>0. EnrolType /\ PinsBehind BY DEF EnrolInv
  <1>1. /\ Grown(d) /\ PinsBehind'
        /\ docs' \in Seq(Revision) /\ Len(docs') >= 1
    BY DocumentKeeps
  <1>2. ASSUME NEW e \in Enrolments
        PROVE  /\ Kin(enrol'[e], enrol[e])
               /\ enrol[e].pc = "snapshot" => enrol'[e].raced
    BY <1>0, DisturbMarks
  <1>3. EnrolType'
    <2>1. DOMAIN enrol' = Enrolments /\ enrol' = [e \in Enrolments |-> enrol'[e]] BY DEF Disturb
    <2>2. \A e \in Enrolments : enrol'[e] \in Handler BY <1>2 DEF Kin
    <2>3. enrol' \in [Enrolments -> Handler] BY <2>1, <2>2
    <2> QED BY <1>0, <1>1, <2>3 DEF EnrolType
  <1>4. ASSUME NEW e \in Enrolments PROVE Informed(e)' /\ Moved(e)'
    BY <1>1, <1>2, CommitSpares
  <1> QED BY <1>1, <1>3, <1>4 DEF EnrolInv

LEMMA EditKeeps ==
    ASSUME EnrolInv, editConfig
    PROVE  EnrolInv'
  <1>0. EnrolType /\ PinsBehind BY DEF EnrolInv
  <1>1. /\ doc(headRev) \in Revision /\ doc(headRev) = docs[Len(docs)]
        /\ \A g \in Rings : doc(headRev).pins[g] <= Len(docs)
    BY <1>0, HeadIsRevision
  <1>2. promoting' \in [Rings -> Nat] BY <1>0 DEF EnrolType, editConfig
  <1>3. PICK d \in Revision :
            /\ enrolApply(d) /\ d.pins = doc(headRev).pins /\ d.devs = doc(headRev).devs
    <2>1. CASE \E t \in doc(headRev).devs : enrolApply([doc(headRev) EXCEPT !.shape[t] = 1 - @])
      <3>1. PICK t \in doc(headRev).devs : enrolApply([doc(headRev) EXCEPT !.shape[t] = 1 - @])
        BY <2>1
      <3> DEFINE d == [doc(headRev) EXCEPT !.shape[t] = 1 - @]
      <3>2. t \in AllTags /\ doc(headRev).shape \in [AllTags -> Int] BY <1>1, <3>1 DEF Revision
      <3>3. [doc(headRev).shape EXCEPT ![t] = 1 - @] \in [AllTags -> Int] BY <3>2
      <3>4. d \in Revision BY <1>1, <3>3 DEF Revision
      <3>5. d.pins = doc(headRev).pins /\ d.devs = doc(headRev).devs BY <1>1 DEF Revision
      <3> QED BY <3>1, <3>4, <3>5
    <2>2. CASE enrolApply([doc(headRev) EXCEPT !.globals = 1 - @])
      <3> DEFINE d == [doc(headRev) EXCEPT !.globals = 1 - @]
      <3>2. doc(headRev).globals \in Int /\ 1 - doc(headRev).globals \in Int BY <1>1 DEF Revision
      <3>3. d \in Revision BY <1>1, <3>2 DEF Revision
      <3>4. d.pins = doc(headRev).pins /\ d.devs = doc(headRev).devs BY <1>1 DEF Revision
      <3> QED BY <2>2, <3>3, <3>4
    <2> QED BY <2>1, <2>2 DEF editConfig
  <1> QED BY <1>1, <1>2, <1>3, OthersCommit DEF editConfig

LEMMA PinKeeps ==
    ASSUME EnrolInv, NEW g \in Rings, pinRing(g)
    PROVE  EnrolInv'
  <1>0. EnrolType /\ PinsBehind BY DEF EnrolInv
  <1>1. /\ doc(headRev) \in Revision /\ doc(headRev) = docs[Len(docs)]
        /\ headRev = Len(docs) /\ headRev \in Nat
        /\ \A h \in Rings : doc(headRev).pins[h] <= Len(docs)
    BY <1>0, HeadIsRevision
  <1>2. PICK target \in (doc(headRev).pins[g] + 1)..headRev :
            /\ enrolApply([doc(headRev) EXCEPT !.pins[g] = target])
            /\ promoting' = [promoting EXCEPT ![g] = target]
    BY DEF pinRing
  <1>3. target \in Nat \ {0} /\ target <= Len(docs)
    <2>1. doc(headRev).pins[g] \in Nat BY <1>1 DEF Revision
    <2> QED BY <1>1, <2>1
  <1>4. promoting' \in [Rings -> Nat] BY <1>0, <1>2, <1>3 DEF EnrolType
  <1> DEFINE d == [doc(headRev) EXCEPT !.pins[g] = target]
  <1>5. d \in Revision /\ d.devs = doc(headRev).devs BY <1>1, <1>3 DEF Revision
  <1>6. \A h \in Rings : d.pins[h] <= Len(docs) BY <1>1, <1>3 DEF Revision
  <1>7. enrolApply(d) BY <1>2
  <1> HIDE DEF d
  <1> QED BY <1>1, <1>4, <1>5, <1>6, <1>7, OthersCommit DEF pinRing

\* The batch's own commit: the handler that made it knows its device is there.
LEMMA EnrolKeeps ==
    ASSUME EnrolInv, NEW e \in Enrolments, enrolCommit(e)
    PROVE  EnrolInv'
  <1>0. EnrolType /\ PinsBehind BY DEF EnrolInv
  <1> DEFINE f == doc(headRev)
  <1>1. /\ f \in Revision /\ f = docs[Len(docs)]
        /\ \A g \in Rings : f.pins[g] <= Len(docs)
    BY <1>0, HeadIsRevision
  <1>2. NameOf[e] \in AllTags BY DEF AllTags
  <1>3. PICK d \in Revision, t \in AllTags :
            /\ enrolApply(d) /\ d.pins = f.pins /\ f.devs \subseteq d.devs
            /\ t \in d.devs
            /\ enrol' = [Disturb({"snapshot"}, 0) EXCEPT ![e].pc = "head", ![e].kept = t]
    <2>1. CASE ProvisionalBySerial(f, enrol[e].serial) # {}
      <3>1. PICK t \in ProvisionalBySerial(f, enrol[e].serial) :
                /\ enrolApply(f)
                /\ enrol' = [Disturb({"snapshot"}, 0) EXCEPT ![e].pc = "head", ![e].kept = t]
        BY <2>1 DEF enrolCommit
      <3>2. t \in f.devs BY DEF ProvisionalBySerial
      <3>3. t \in AllTags BY <1>1, <3>2 DEF Revision
      <3> QED BY <1>1, <3>1, <3>2, <3>3
    <2>2. CASE ProvisionalBySerial(f, enrol[e].serial) = {}
      <3> DEFINE d == [f EXCEPT !.devs = @ \cup {NameOf[e]}, !.serial[NameOf[e]] = enrol[e].serial]
      <3>1. /\ enrolApply(d)
            /\ enrol' = [Disturb({"snapshot"}, 0) EXCEPT ![e].pc = "head", ![e].kept = NameOf[e]]
        BY <2>2 DEF enrolCommit
      <3>2. enrol[e].serial \in SerialIds BY <1>0 DEF EnrolType, Handler
      <3>3. /\ f.devs \cup {NameOf[e]} \in SUBSET AllTags
            /\ [f.serial EXCEPT ![NameOf[e]] = enrol[e].serial] \in [AllTags -> SerialIds]
        BY <1>1, <1>2, <3>2 DEF Revision
      <3>4. d \in Revision BY <1>1, <3>3 DEF Revision
      <3>5. d.pins = f.pins /\ d.devs = f.devs \cup {NameOf[e]} BY <1>1 DEF Revision
      <3> HIDE DEF d
      <3> QED BY <1>2, <3>1, <3>4, <3>5
    <2> QED BY <2>1, <2>2
  <1>4. \A g \in Rings : d.pins[g] <= Len(docs) BY <1>1, <1>3
  <1>5. /\ Grown(d) /\ PinsBehind'
        /\ docs' \in Seq(Revision) /\ Len(docs') >= 1 /\ Len(docs') = Len(docs) + 1
        /\ docs'[Len(docs')] = d
    BY <1>3, <1>4, DocumentKeeps
  <1>6. UNCHANGED <<ring, localRing, promoting>> BY DEF enrolCommit
  <1>7. ASSUME NEW x \in Enrolments, x # e
        PROVE  /\ Kin(enrol'[x], enrol[x])
               /\ enrol[x].pc = "snapshot" => enrol'[x].raced
    <2>1. enrol'[x] = Disturb({"snapshot"}, 0)[x] BY <1>3, <1>7 DEF Disturb
    <2> QED BY <1>0, <2>1, DisturbMarks
  <1>8. /\ enrol'[e] \in Handler
        /\ enrol'[e].pc = "head" /\ enrol'[e].kept = t
    <2> DEFINE y == Disturb({"snapshot"}, 0)[e]
    <2>1. y \in Handler BY <1>0, DisturbMarks DEF Kin
    <2>2. enrol'[e] = [y EXCEPT !.pc = "head", !.kept = t]
      BY <1>3 DEF Disturb
    <2>3. t \in AllTags \cup {"none"} BY <1>3
    <2> HIDE DEF y
    <2> QED BY <2>1, <2>2, <2>3 DEF Handler
  <1>9. EnrolType'
    <2>1. DOMAIN enrol' = Enrolments /\ enrol' = [x \in Enrolments |-> enrol'[x]]
      BY <1>3 DEF Disturb
    <2>2. \A x \in Enrolments : enrol'[x] \in Handler BY <1>7, <1>8 DEF Kin
    <2>3. enrol' \in [Enrolments -> Handler] BY <2>1, <2>2
    <2> QED BY <1>0, <1>5, <1>6, <2>3 DEF EnrolType
  <1>10. Informed(e)' /\ Moved(e)'
    <2>1. Len(docs') >= 2 BY <1>0, <1>5 DEF EnrolType
    <2> QED BY <1>3, <1>5, <1>8, <2>1 DEF Informed, Moved
  <1>11. ASSUME NEW x \in Enrolments, x # e PROVE Informed(x)' /\ Moved(x)'
    BY <1>1, <1>3, <1>5, <1>6, <1>7, <1>11, CommitSpares
  <1> QED BY <1>5, <1>9, <1>10, <1>11 DEF EnrolInv

\* A step of one handler that leaves the document and the rings alone: the
\* others stand.
LEMMA AloneKeeps ==
    ASSUME EnrolInv, NEW e \in Enrolments, UNCHANGED <<docs, ring, localRing, promoting>>,
           NEW h \in Handler, enrol' = [enrol EXCEPT ![e] = h], Informed(e)', Moved(e)'
    PROVE  EnrolInv'
  <1>0. EnrolType /\ PinsBehind BY DEF EnrolInv
  <1>1. EnrolType' BY <1>0 DEF EnrolType
  <1>2. PinsBehind' BY <1>0 DEF PinsBehind
  <1>3. ASSUME NEW x \in Enrolments, x # e PROVE Informed(x)' /\ Moved(x)'
    <2>1. enrol'[x] = enrol[x] BY <1>0, <1>3 DEF EnrolType
    <2>2. Informed(x) /\ Moved(x) BY DEF EnrolInv
    <2>3. NextRing(x)' = NextRing(x) BY <2>1 DEF NextRing
    <2>4. Informed(x)' BY <2>1, <2>2 DEF Informed
    <2>5. Soaked(enrol[x].seen, NextRing(x), NameOf[x])' <=> Soaked(enrol[x].seen, NextRing(x), NameOf[x])
      BY <2>1, <2>3 DEF Soaked
    <2>6. Moved(x)' BY <2>1, <2>2, <2>3, <2>5 DEF Moved
    <2> QED BY <2>4, <2>6
  <1> QED BY <1>1, <1>2, <1>3 DEF EnrolInv

\* Reading the head, the snapshot, the refusal and the dispatch.
LEMMA ReadKeeps ==
    ASSUME EnrolInv, NEW e \in Enrolments,
           readHead(e) \/ snapshotRings(e) \/ refuseRing(e) \/ dispatchImage(e)
    PROVE  EnrolInv'
  <1>0. /\ EnrolType /\ PinsBehind /\ Informed(e) /\ Moved(e)
        /\ enrol[e] \in Handler /\ Len(docs) \in Nat /\ Len(docs) >= 1
    BY DEF EnrolInv, EnrolType
  <1>u. UNCHANGED <<docs, ring, localRing, promoting>>
    BY DEF readHead, snapshotRings, refuseRing, dispatchImage
  <1>1. CASE readHead(e)
    <2> DEFINE h == [enrol[e] EXCEPT !.pc = "snapshot", !.rev = Len(docs)]
    <2>1. enrol' = [enrol EXCEPT ![e] = h] BY <1>0, <1>1 DEF readHead, headRev, EnrolType
    <2>2. /\ h \in Handler /\ h.pc = "snapshot" /\ h.rev = Len(docs) /\ h.kept = enrol[e].kept
      BY <1>0 DEF Handler
    <2>3. enrol'[e] = h BY <1>0, <2>1 DEF EnrolType
    <2>4. enrol[e].pc = "head" BY <1>1 DEF readHead
    <2> HIDE DEF h
    <2>5. Informed(e)' /\ Moved(e)' BY <1>0, <1>u, <2>2, <2>3, <2>4 DEF Informed, Moved
    <2> QED BY <1>u, <2>1, <2>2, <2>5, AloneKeeps
  <1>2. CASE snapshotRings(e)
    <2> DEFINE c == coveringPins({NameOf[e]}, docs[Len(docs)], enrol[e].rev)
               r == enrol[e].raced \/ \E g \in Covering[NameOf[e]] : promoting[g] # 0
               h == [enrol[e] EXCEPT !.pc = "rings", !.seen = Len(docs), !.raced = r, !.todo = c]
    <2>1. enrol' = [enrol EXCEPT ![e] = h]
      BY <1>0, <1>2 DEF snapshotRings, headRev, doc, EnrolType
    <2>2. c \subseteq Rings /\ c \subseteq Covering[NameOf[e]] BY CoveringIsOwn
    <2>3. r \in BOOLEAN /\ (enrol[e].raced => r)
      <3>1. enrol[e].raced \in BOOLEAN BY <1>0 DEF Handler
      <3> QED BY <3>1, Zenon
    <2> HIDE DEF c, r
    <2>4. /\ h \in Handler /\ h.pc = "rings" /\ h.rev = enrol[e].rev /\ h.kept = enrol[e].kept
          /\ h.seen = Len(docs) /\ h.todo = c /\ h.raced = r
      BY <1>0, <2>2, <2>3 DEF Handler
    <2>5. enrol'[e] = h BY <1>0, <2>1 DEF EnrolType
    <2>6. enrol[e].pc = "snapshot" BY <1>2 DEF snapshotRings
    <2> HIDE DEF h
    <2>7. Informed(e)' BY <1>0, <1>u, <2>2, <2>3, <2>4, <2>5, <2>6 DEF Informed
    <2>8. Moved(e)'
      <3>1. coveringPins({NameOf[e]}, docs[Len(docs)], enrol[e].rev) \ c = {} BY DEF c
      <3> QED BY <1>u, <2>4, <2>5, <3>1 DEF Moved
    <2> QED BY <1>u, <2>1, <2>4, <2>7, <2>8, AloneKeeps
  <1>3. CASE refuseRing(e) \/ dispatchImage(e)
    <2>1. PICK p \in {"refused", "dispatched"} : enrol' = [enrol EXCEPT ![e].pc = p]
      BY <1>3 DEF refuseRing, dispatchImage
    <2> DEFINE h == [enrol[e] EXCEPT !.pc = p]
    <2>2. enrol' = [enrol EXCEPT ![e] = h] BY <1>0, <2>1 DEF EnrolType
    <2>3. h \in Handler /\ h.pc = p /\ h.rev = enrol[e].rev /\ h.kept = enrol[e].kept
      BY <1>0, <2>1 DEF Handler
    <2>4. enrol'[e] = h BY <1>0, <2>2 DEF EnrolType
    <2>5. enrol[e].pc = "rings" BY <1>3 DEF refuseRing, dispatchImage
    <2> HIDE DEF h
    <2>6. Informed(e)' /\ Moved(e)' BY <1>0, <1>u, <2>1, <2>3, <2>4, <2>5 DEF Informed, Moved
    <2> QED BY <1>u, <2>2, <2>3, <2>6, AloneKeeps
  <1> QED BY <1>1, <1>2, <1>3

\* A ring's branch moves and one handler, or none, has moved it: the handlers
\* that did not are marked if the ring covers them.
LEMMA SetKeeps ==
    ASSUME EnrolInv, NEW e \in Enrolments, SetRef(e)
    PROVE  EnrolInv'
  <1>0. /\ EnrolType /\ PinsBehind /\ Informed(e) /\ Moved(e) /\ enrol[e] \in Handler
    BY DEF EnrolInv, EnrolType
  <1> DEFINE g == NextRing(e)
             h == [enrol[e] EXCEPT !.pc = "push"]
  <1>1. g \in Rings /\ g \in Nat /\ g \in enrol[e].todo BY <1>0, NextIsLeft, RingsAssumption DEF SetRef
  <1>2. /\ enrol[e].pc = "rings" /\ enrol[e].todo # {}
        /\ membersChangedBetween(doc(enrol[e].seen), g, {NameOf[e]}) = {}
        /\ localRing' = [localRing EXCEPT ![g] = enrol[e].rev]
        /\ enrol' = [x \in Enrolments |-> IF x = e THEN h ELSE Disturb({"rings", "push"}, g)[x]]
        /\ UNCHANGED <<docs, ring, promoting>>
    BY DEF SetRef
  <1>3. /\ h \in Handler /\ h.pc = "push" /\ h.rev = enrol[e].rev /\ h.kept = enrol[e].kept
        /\ h.seen = enrol[e].seen /\ h.todo = enrol[e].todo /\ h.raced = enrol[e].raced
    BY <1>0 DEF Handler
  <1>4. enrol'[e] = h BY <1>2
  <1>n. NextRing(e)' = g BY <1>3, <1>4 DEF NextRing
  <1> HIDE DEF g, h
  <1>5. ASSUME NEW x \in Enrolments, x # e
        PROVE  /\ Kin(enrol'[x], enrol[x])
               /\ enrol[x].pc \in {"rings", "push"} /\ g \in Covering[NameOf[x]] => enrol'[x].raced
    <2>1. enrol'[x] = Disturb({"rings", "push"}, g)[x] BY <1>2, <1>5
    <2> QED BY <1>0, <1>1, <2>1, DisturbMarks
  <1>6. EnrolType'
    <2>1. \A x \in Enrolments : enrol'[x] \in Handler BY <1>3, <1>4, <1>5 DEF Kin
    <2>2. DOMAIN enrol' = Enrolments /\ enrol' = [x \in Enrolments |-> enrol'[x]] BY <1>2
    <2>3. enrol' \in [Enrolments -> Handler] BY <2>1, <2>2
    <2>4. enrol[e].rev \in Nat BY <1>0 DEF Handler
    <2>5. localRing' \in [Rings -> Nat] BY <1>0, <1>1, <1>2, <2>4 DEF EnrolType
    <2> QED BY <1>0, <1>2, <2>3, <2>5 DEF EnrolType
  <1>7. PinsBehind' BY <1>0, <1>2 DEF PinsBehind
  <1>8. Informed(e)' BY <1>0, <1>2, <1>3, <1>4 DEF Informed
  <1>9. Moved(e)'
    <2>1. Soaked(enrol[e].seen, g, NameOf[e]) BY <1>2, GuardAnswers DEF doc
    <2>2. Soaked(enrol[e].seen, NextRing(e), NameOf[e])'
      BY <1>2, <1>3, <1>4, <1>n, <2>1 DEF Soaked
    <2>3. localRing'[g] = enrol[e].rev BY <1>0, <1>1, <1>2 DEF EnrolType
    <2> QED BY <1>0, <1>2, <1>3, <1>4, <1>n, <2>2, <2>3 DEF Moved
  <1>10. ASSUME NEW x \in Enrolments, x # e PROVE Informed(x)' /\ Moved(x)'
    <2>1. \A k \in Rings \ {g} : ring'[k] = ring[k] /\ localRing'[k] = localRing[k]
      BY <1>0, <1>1, <1>2 DEF EnrolType
    <2>2. UNCHANGED docs BY <1>2
    <2> QED BY <1>1, <1>5, <1>10, <2>1, <2>2, MoveSpares
  <1> QED BY <1>6, <1>7, <1>8, <1>9, <1>10 DEF EnrolInv

\* A push that succeeds takes its ring off the list.
LEMMA PushKeeps ==
    ASSUME EnrolInv, NEW e \in Enrolments, PushRef(e)
    PROVE  EnrolInv'
  <1>0. /\ EnrolType /\ PinsBehind /\ Informed(e) /\ Moved(e) /\ enrol[e] \in Handler
    BY DEF EnrolInv, EnrolType
  <1> DEFINE g == NextRing(e)
  <1>p. enrol[e].pc = "push" /\ UNCHANGED <<docs, localRing, promoting>> BY DEF PushRef
  <1>1. g \in Rings /\ g \in Nat /\ g \in enrol[e].todo
    BY <1>0, <1>p, NextIsLeft, RingsAssumption DEF Moved
  <1>a. CASE enrol' = [enrol EXCEPT ![e].pc = "refused"] /\ UNCHANGED ring
    <2> DEFINE h == [enrol[e] EXCEPT !.pc = "refused"]
    <2>1. enrol' = [enrol EXCEPT ![e] = h] BY <1>0, <1>a DEF EnrolType
    <2>2. h \in Handler /\ h.pc = "refused" /\ h.rev = enrol[e].rev /\ h.kept = enrol[e].kept
      BY <1>0 DEF Handler
    <2>3. enrol'[e] = h BY <1>0, <2>1 DEF EnrolType
    <2> HIDE DEF h
    <2>4. Informed(e)' /\ Moved(e)' BY <1>0, <1>p, <2>2, <2>3 DEF Informed, Moved
    <2> QED BY <1>a, <1>p, <2>1, <2>2, <2>4, AloneKeeps
  <1>b. CASE ~(enrol' = [enrol EXCEPT ![e].pc = "refused"] /\ UNCHANGED ring)
    <2> DEFINE h == [enrol[e] EXCEPT !.pc = "rings", !.todo = @ \ {g}]
    <2>2. /\ ring' = [ring EXCEPT ![g] = localRing[g]]
          /\ enrol' = [x \in Enrolments |-> IF x = e THEN h ELSE Disturb({"rings", "push"}, g)[x]]
      BY <1>b DEF PushRef
    <2>3. /\ h \in Handler /\ h.pc = "rings" /\ h.rev = enrol[e].rev /\ h.kept = enrol[e].kept
          /\ h.seen = enrol[e].seen /\ h.todo = enrol[e].todo \ {g} /\ h.raced = enrol[e].raced
      BY <1>0 DEF Handler
    <2>4. enrol'[e] = h BY <2>2
    <2>m. ~enrol[e].raced => localRing[g] = enrol[e].rev BY <1>0, <1>p DEF Moved
    <2> HIDE DEF g, h
    <2>5. ASSUME NEW x \in Enrolments, x # e
          PROVE  /\ Kin(enrol'[x], enrol[x])
                 /\ enrol[x].pc \in {"rings", "push"} /\ g \in Covering[NameOf[x]] => enrol'[x].raced
      <3>1. enrol'[x] = Disturb({"rings", "push"}, g)[x] BY <2>2, <2>5
      <3> QED BY <1>0, <1>1, <3>1, DisturbMarks
    <2>6. EnrolType'
      <3>1. \A x \in Enrolments : enrol'[x] \in Handler BY <2>3, <2>4, <2>5 DEF Kin
      <3>2. DOMAIN enrol' = Enrolments /\ enrol' = [x \in Enrolments |-> enrol'[x]] BY <2>2
      <3>3. enrol' \in [Enrolments -> Handler] BY <3>1, <3>2
      <3>4. ring' \in [Rings -> Nat] BY <1>0, <1>1, <2>2 DEF EnrolType
      <3> QED BY <1>0, <1>p, <3>3, <3>4 DEF EnrolType
    <2>7. PinsBehind' BY <1>0, <1>p DEF PinsBehind
    <2>8. Informed(e)' BY <1>0, <1>p, <2>3, <2>4 DEF Informed
    <2>9. Moved(e)'
      <3>1. ~enrol[e].raced => ring'[g] = enrol[e].rev BY <1>0, <1>1, <2>2, <2>m DEF EnrolType
      <3>2. \A k \in Rings \ {g} : ring'[k] = ring[k] BY <1>0, <1>1, <2>2 DEF EnrolType
      <3>3. ASSUME ~enrol[e].raced,
                   NEW k \in coveringPins({NameOf[e]}, docs[enrol[e].seen], enrol[e].rev),
                   k \notin enrol[e].todo \ {g}
            PROVE  ring'[k] = enrol[e].rev
        <4>1. k \in Rings BY <3>3, CoveringIsOwn
        <4>2. CASE k = g BY <3>1, <3>3, <4>2
        <4>3. CASE k # g BY <1>0, <1>p, <3>2, <3>3, <4>1, <4>3 DEF Moved
        <4> QED BY <4>2, <4>3
      <3> QED BY <1>p, <2>3, <2>4, <3>3 DEF Moved
    <2>10. ASSUME NEW x \in Enrolments, x # e PROVE Informed(x)' /\ Moved(x)'
      <3>1. \A k \in Rings \ {g} : ring'[k] = ring[k] /\ localRing'[k] = localRing[k]
        BY <1>0, <1>1, <1>p, <2>2 DEF EnrolType
      <3>2. UNCHANGED docs BY <1>p
      <3> QED BY <1>1, <2>5, <2>10, <3>1, <3>2, MoveSpares
    <2> QED BY <2>6, <2>7, <2>8, <2>9, <2>10 DEF EnrolInv
  <1> QED BY <1>a, <1>b

\* A rollout's promotion reaches its branch.
LEMMA PromotionKeeps ==
    ASSUME EnrolInv, NEW g \in Rings, moveRingRef(g)
    PROVE  EnrolInv'
  <1>0. EnrolType /\ PinsBehind /\ g \in Nat BY RingsAssumption DEF EnrolInv
  <1>1. /\ ring' = [ring EXCEPT ![g] = promoting[g]]
        /\ localRing' = [localRing EXCEPT ![g] = promoting[g]]
        /\ promoting' = [promoting EXCEPT ![g] = 0]
        /\ enrol' = Disturb({"rings", "push"}, g)
        /\ UNCHANGED docs
    BY DEF moveRingRef
  <1>2. ASSUME NEW x \in Enrolments
        PROVE  /\ Kin(enrol'[x], enrol[x])
               /\ enrol[x].pc \in {"rings", "push"} /\ g \in Covering[NameOf[x]] => enrol'[x].raced
    BY <1>0, <1>1, DisturbMarks
  <1>3. EnrolType'
    <2>1. \A x \in Enrolments : enrol'[x] \in Handler BY <1>2 DEF Kin
    <2>2. DOMAIN enrol' = Enrolments /\ enrol' = [x \in Enrolments |-> enrol'[x]]
      BY <1>1 DEF Disturb
    <2>3. enrol' \in [Enrolments -> Handler] BY <2>1, <2>2
    <2>4. /\ ring' \in [Rings -> Nat] /\ localRing' \in [Rings -> Nat]
          /\ promoting' \in [Rings -> Nat]
      BY <1>0, <1>1 DEF EnrolType
    <2> QED BY <1>0, <1>1, <2>3, <2>4 DEF EnrolType
  <1>4. PinsBehind' BY <1>0, <1>1 DEF PinsBehind
  <1>5. ASSUME NEW x \in Enrolments PROVE Informed(x)' /\ Moved(x)'
    <2>1. \A k \in Rings \ {g} : ring'[k] = ring[k] /\ localRing'[k] = localRing[k]
      BY <1>0, <1>1 DEF EnrolType
    <2> QED BY <1>1, <1>2, <2>1, MoveSpares
  <1> QED BY <1>3, <1>4, <1>5 DEF EnrolInv

\* The fleet before the first enrolment.
LEMMA EnrolStarts == EnrolInit => EnrolInv
  <1> SUFFICES ASSUME EnrolInit PROVE EnrolInv OBVIOUS
  <1> DEFINE d == [devs |-> OldDevices, shape |-> [t \in AllTags |-> 0], globals |-> 0,
                   serial |-> [t \in AllTags |-> "none"], pins |-> [g \in Rings |-> 1]]
  <1>1. docs = <<d>> BY DEF EnrolInit
  <1>2. d \in Revision
    <2>1. OldDevices \in SUBSET AllTags BY DEF AllTags
    <2>2. "none" \in SerialIds BY DEF SerialIds
    <2>3. /\ [t \in AllTags |-> 0] \in [AllTags -> Int] /\ 0 \in Int
          /\ [g \in Rings |-> 1] \in [Rings -> Nat \ {0}]
      OBVIOUS
    <2>4. [t \in AllTags |-> "none"] \in [AllTags -> SerialIds] BY <2>2
    <2> QED BY <2>1, <2>3, <2>4 DEF Revision
  <1>3. \A g \in Rings : d.pins[g] = 1 OBVIOUS
  <1> HIDE DEF d
  <1>4. docs \in Seq(Revision) /\ Len(docs) = 1 /\ docs[1] = d BY <1>1, <1>2
  <1>5. PinsBehind BY <1>3, <1>4 DEF PinsBehind
  <1>6. PICK m \in [Enrolments -> UNION {Serials[e] : e \in Enrolments}] :
            enrol = [e \in Enrolments |-> [pc |-> "new", serial |-> m[e], kept |-> "none", rev |-> 0,
                                           seen |-> 0, todo |-> {}, raced |-> FALSE]]
    BY DEF EnrolInit
  <1>7. ASSUME NEW e \in Enrolments PROVE enrol[e] \in Handler /\ enrol[e].pc = "new"
    <2>1. m[e] \in SerialIds BY <1>6 DEF SerialIds
    <2> QED BY <1>6, <2>1 DEF Handler
  <1>8. enrol \in [Enrolments -> Handler]
    <2>1. DOMAIN enrol = Enrolments /\ enrol = [e \in Enrolments |-> enrol[e]] BY <1>6
    <2> QED BY <1>7, <2>1
  <1>9. /\ ring \in [Rings -> Nat] /\ localRing \in [Rings -> Nat] /\ promoting \in [Rings -> Nat]
    BY DEF EnrolInit
  <1>10. EnrolType BY <1>4, <1>8, <1>9 DEF EnrolType
  <1>11. \A e \in Enrolments : Informed(e) /\ Moved(e) BY <1>7 DEF Informed, Moved
  <1> QED BY <1>5, <1>10, <1>11 DEF EnrolInv

LEMMA EnrolStep == EnrolInv /\ [EnrolNext]_enrolVars => EnrolInv'
  <1> SUFFICES ASSUME EnrolInv, [EnrolNext]_enrolVars PROVE EnrolInv' OBVIOUS
  <1>1. CASE UNCHANGED enrolVars
    <2>1. /\ docs' = docs /\ ring' = ring /\ localRing' = localRing /\ promoting' = promoting
          /\ enrol' = enrol
      BY <1>1 DEF enrolVars
    <2>2. EnrolType' /\ PinsBehind' BY <2>1 DEF EnrolInv, EnrolType, PinsBehind
    <2>3. ASSUME NEW e \in Enrolments PROVE Informed(e)' /\ Moved(e)'
      <3>1. Informed(e) /\ Moved(e) BY DEF EnrolInv
      <3>2. NextRing(e)' = NextRing(e) BY <2>1 DEF NextRing
      <3>3. Informed(e)' BY <2>1, <3>1 DEF Informed
      <3>4. Soaked(enrol[e].seen, NextRing(e), NameOf[e])' <=> Soaked(enrol[e].seen, NextRing(e), NameOf[e])
        BY <2>1, <3>2 DEF Soaked
      <3>5. Moved(e)' BY <2>1, <3>1, <3>2, <3>4 DEF Moved
      <3> QED BY <3>3, <3>5
    <2> QED BY <2>2, <2>3 DEF EnrolInv
  <1>2. CASE \E e \in Enrolments :
                \/ enrolCommit(e) \/ readHead(e) \/ snapshotRings(e)
                \/ refuseRing(e) \/ SetRef(e) \/ PushRef(e) \/ dispatchImage(e)
    BY <1>2, EnrolKeeps, ReadKeeps, SetKeeps, PushKeeps
  <1>3. CASE editConfig BY <1>3, EditKeeps
  <1>4. CASE \E g \in Rings : pinRing(g) \/ moveRingRef(g) BY <1>4, PinKeeps, PromotionKeeps
  <1> QED BY <1>1, <1>2, <1>3, <1>4 DEF EnrolNext

\* Only a handler's own step changes where it is.
LEMMA OwnStep ==
    ASSUME EnrolInv, EnrolNext, NEW e \in Enrolments, enrol'[e].pc # enrol[e].pc
    PROVE  \/ enrolCommit(e) \/ readHead(e) \/ snapshotRings(e)
           \/ refuseRing(e) \/ SetRef(e) \/ PushRef(e) \/ dispatchImage(e)
  <1>0. EnrolType BY DEF EnrolInv
  <1>1. CASE \E x \in Enrolments :
                \/ enrolCommit(x) \/ readHead(x) \/ snapshotRings(x)
                \/ refuseRing(x) \/ SetRef(x) \/ PushRef(x) \/ dispatchImage(x)
    <2>1. PICK x \in Enrolments :
                \/ enrolCommit(x) \/ readHead(x) \/ snapshotRings(x)
                \/ refuseRing(x) \/ SetRef(x) \/ PushRef(x) \/ dispatchImage(x)
      BY <1>1
    <2>2. x = e
      <3> SUFFICES ASSUME x # e PROVE enrol'[e].pc = enrol[e].pc OBVIOUS
      <3>1. CASE readHead(x) \/ snapshotRings(x) \/ refuseRing(x) \/ dispatchImage(x)
        BY <1>0, <3>1 DEF EnrolType, readHead, snapshotRings, refuseRing, dispatchImage
      <3>2. CASE enrolCommit(x)
        <4>1. enrol'[e] = Disturb({"snapshot"}, 0)[e] BY <3>2 DEF enrolCommit, Disturb
        <4> QED BY <1>0, <4>1, DisturbMarks DEF Kin
      <3>3. CASE SetRef(x)
        <4>1. NextRing(x) \in Nat BY <1>0, <3>3, NextIsLeft, RingsAssumption DEF SetRef
        <4>2. enrol'[e] = Disturb({"rings", "push"}, NextRing(x))[e] BY <3>3 DEF SetRef
        <4> QED BY <1>0, <4>1, <4>2, DisturbMarks DEF Kin
      <3>4. CASE PushRef(x)
        <4>1. NextRing(x) \in Nat
          BY <1>0, <3>4, NextIsLeft, RingsAssumption DEF PushRef, EnrolInv, Moved
        <4>2. enrol'[e] = Disturb({"rings", "push"}, NextRing(x))[e] \/ enrol'[e] = enrol[e]
          BY <1>0, <3>4 DEF PushRef, EnrolType
        <4> QED BY <1>0, <4>1, <4>2, DisturbMarks DEF Kin
      <3> QED BY <2>1, <3>1, <3>2, <3>3, <3>4
    <2> QED BY <2>1, <2>2
  <1>2. CASE editConfig \/ \E g \in Rings : pinRing(g)
    <2>1. enrol' = Disturb({"snapshot"}, 0) BY <1>2 DEF editConfig, pinRing
    <2> QED BY <1>0, <2>1, DisturbMarks DEF Kin
  <1>3. CASE \E g \in Rings : moveRingRef(g)
    <2>1. PICK g \in Rings : enrol' = Disturb({"rings", "push"}, g) BY <1>3 DEF moveRingRef
    <2> QED BY <1>0, <2>1, DisturbMarks, RingsAssumption DEF Kin
  <1> QED BY <1>1, <1>2, <1>3 DEF EnrolNext

\* The step that pushes a ring serves what was soaked.
LEMMA PushIsQuiet ==
    ASSUME EnrolInv, EnrolNext, NEW e \in Enrolments, NEW g \in Rings,
           enrol[e].pc = "push", enrol'[e].pc = "rings", ~enrol[e].raced, ring'[g] # ring[g],
           NEW t \in docs[docs[enrol[e].seen].pins[g]].devs \ {NameOf[e]}, g \in Covering[t]
    PROVE  /\ docs[ring'[g]].shape[t] = docs[docs[enrol[e].seen].pins[g]].shape[t]
           /\ docs[ring'[g]].globals = docs[docs[enrol[e].seen].pins[g]].globals
  <1>0. EnrolType /\ Informed(e) /\ Moved(e) BY DEF EnrolInv
  <1>1. PushRef(e)
    BY OwnStep DEF enrolCommit, readHead, snapshotRings, refuseRing, SetRef, dispatchImage
  <1>2. NextRing(e) \in Rings BY <1>0, NextIsLeft DEF Moved
  <1>3. ring' = [ring EXCEPT ![NextRing(e)] = localRing[NextRing(e)]] BY <1>1 DEF PushRef
  <1>4. g = NextRing(e) /\ ring'[g] = localRing[g] BY <1>0, <1>2, <1>3 DEF EnrolType
  <1>5. ring'[g] = enrol[e].seen BY <1>0, <1>4 DEF Moved, Informed
  <1>6. Soaked(enrol[e].seen, g, NameOf[e]) BY <1>0, <1>4 DEF Moved
  <1> QED BY <1>5, <1>6 DEF Soaked

\* The step that dispatches an image job finds its device everywhere it must be.
LEMMA DispatchIsKnown ==
    ASSUME EnrolInv, EnrolNext, NEW e \in Enrolments,
           enrol'[e].pc = "dispatched", enrol[e].pc # "dispatched", ~enrol[e].raced,
           enrol[e].kept = NameOf[e]
    PROVE  /\ NameOf[e] \in docs[enrol[e].rev].devs
           /\ \A g \in Covering[NameOf[e]] : NameOf[e] \in docs[ring[g]].devs
  <1>0. EnrolType /\ PinsBehind /\ Informed(e) /\ Moved(e) /\ enrol[e] \in Handler
    BY DEF EnrolInv, EnrolType
  <1>1. dispatchImage(e)
    <2>1. enrol[e] \in Handler /\ enrol \in [Enrolments -> Handler] BY <1>0 DEF EnrolType
    <2>2. enrolCommit(e) => enrol'[e].pc = "head"
      <3>1. Disturb({"snapshot"}, 0)[e] \in Handler BY <1>0, DisturbMarks DEF Kin
      <3>2. ASSUME enrolCommit(e) PROVE enrol'[e].pc = "head"
        <4>1. PICK k : enrol' = [Disturb({"snapshot"}, 0) EXCEPT ![e].pc = "head", ![e].kept = k]
          BY <3>2 DEF enrolCommit
        <4>2. enrol'[e] = [Disturb({"snapshot"}, 0)[e] EXCEPT !.pc = "head", !.kept = k]
          BY <4>1 DEF Disturb
        <4> QED BY <3>1, <4>2 DEF Handler
      <3> QED BY <3>2
    <2>3. readHead(e) => enrol'[e].pc = "snapshot" BY <2>1 DEF readHead, Handler
    <2>4. ASSUME snapshotRings(e) PROVE enrol'[e].pc = "rings"
      <3> DEFINE r == enrol[e].raced \/ \E g \in Covering[NameOf[e]] : promoting[g] # 0
      <3>1. enrol'[e] = [enrol[e] EXCEPT !.pc = "rings", !.seen = headRev, !.raced = r,
                            !.todo = coveringPins({NameOf[e]}, doc(headRev), enrol[e].rev)]
        BY <2>1, <2>4 DEF snapshotRings
      <3> HIDE DEF r
      <3> QED BY <2>1, <3>1 DEF Handler
    <2>5. refuseRing(e) => enrol'[e].pc = "refused" BY <2>1 DEF refuseRing, Handler
    <2>6. SetRef(e) => enrol'[e].pc = "push" BY <2>1 DEF SetRef, Handler
    <2>7. PushRef(e) => enrol'[e].pc \in {"rings", "refused"} BY <2>1 DEF PushRef, Handler
    <2> QED BY OwnStep, <2>2, <2>3, <2>4, <2>5, <2>6, <2>7
  <1>2. enrol[e].pc = "rings" /\ enrol[e].todo = {} BY <1>1 DEF dispatchImage
  <1>3. /\ NameOf[e] \in docs[enrol[e].rev].devs
        /\ enrol[e].seen = enrol[e].rev /\ enrol[e].rev \in 2..Len(docs)
    BY <1>0, <1>2 DEF Informed
  <1>4. ASSUME NEW g \in Covering[NameOf[e]] PROVE NameOf[e] \in docs[ring[g]].devs
    <2>1. g \in Rings BY RingsAssumption DEF AllTags
    <2>2. docs[enrol[e].rev] \in Revision BY <1>0, <1>3 DEF EnrolType
    <2>3. docs[enrol[e].rev].pins[g] \in Nat \ {0} BY <2>1, <2>2 DEF Revision
    <2>4. docs[enrol[e].rev].pins[g] \notin {0, enrol[e].rev}
      <3>1. Len(docs) \in Nat BY <1>0 DEF EnrolType
      <3>2. enrol[e].rev \in 1..Len(docs) /\ enrol[e].rev # 1 BY <1>3, <3>1
      <3>3. docs[enrol[e].rev].pins[g] < enrol[e].rev BY <1>0, <2>1, <3>2 DEF PinsBehind
      <3> QED BY <2>3, <3>2, <3>3
    <2>5. g \in coveringPins({NameOf[e]}, docs[enrol[e].seen], enrol[e].rev)
      BY <1>3, <2>1, <2>4 DEF coveringPins
    <2>6. ring[g] = enrol[e].rev BY <1>0, <1>2, <2>5 DEF Moved
    <2> QED BY <1>3, <2>6
  <1> QED BY <1>3, <1>4

\* For any number of enrolments, rings, devices and revisions, whoever edits or
\* promotes meanwhile: a ring an enrolment moves serves every member the pinned
\* revision knew what it was soaked with, unless somebody came between
\* (EnsureRingsContain and its guard, enrolment_rings.go).
THEOREM AdvanceAlwaysQuiet == EnrolSpec => QuietAdvance
  <1>1. EnrolInv /\ EnrolNext =>
            \A e \in Enrolments : \A g \in Rings :
              enrol[e].pc = "push" /\ enrol'[e].pc = "rings" /\ ~enrol[e].raced /\ ring'[g] # ring[g] =>
                LET pinned == doc(doc(enrol[e].seen).pins[g]) IN
                \A t \in pinned.devs \ {NameOf[e]} :
                    g \in Covering[t] =>
                        /\ doc(ring'[g]).shape[t] = pinned.shape[t]
                        /\ doc(ring'[g]).globals = pinned.globals
    BY PushIsQuiet DEF doc
  <1> QED BY EnrolStarts, EnrolStep, <1>1, PTL DEF EnrolSpec, QuietAdvance

\* An image job is dispatched only for a device that is in the revision it is
\* imaged from and in every pinned ring that covers it, whatever the
\* interleaving (postEnrollBatch of enroll.go after EnsureRingsContain).
THEOREM DispatchAlwaysKnown == EnrolSpec => DispatchedIsKnown
  <1>1. EnrolInv /\ EnrolNext =>
            \A e \in Enrolments :
              enrol'[e].pc = "dispatched" /\ enrol[e].pc # "dispatched" /\ ~enrol[e].raced
                      /\ enrol[e].kept = NameOf[e] =>
                /\ NameOf[e] \in doc(enrol[e].rev).devs
                /\ \A g \in Covering[NameOf[e]] :
                     doc(enrol[e].seen).pins[g] # 0 => NameOf[e] \in doc(ring[g]).devs
    BY DispatchIsKnown DEF doc
  <1> QED BY EnrolStarts, EnrolStep, <1>1, PTL DEF EnrolSpec, DispatchedIsKnown
=============================================================================
