--------------------------- MODULE RemoteActions ---------------------------
(***************************************************************************)
(* Remote actions on one device: the intent an operator arms in the fleet  *)
(* document, the check-in that carries it to the device and its outcome    *)
(* back (src/internal/http/api/checkin.go), the unprivileged agent         *)
(* (src/agent/src) and the root executor (deploy/nixos/actd.nix).          *)
(*                                                                         *)
(* The agent beats; the executor runs whenever something is spooled; both  *)
(* share files.  A reply may be lost after the console acted on the beat,  *)
(* so an outcome is delivered at least once.  The spool and the agent's    *)
(* memory die with a boot, the state directory does not.                   *)
(***************************************************************************)
EXTENDS Integers, FiniteSets, Sequences

CONSTANTS
    ArmWipe, AllowUnlockedWipe,     \* how this host's executor is configured
    Intents,        \* what the operator arms
    WipeWindow,     \* how old a wipe instruction or its echo may be
    Orders,         \* bound: the sequences of intents an operator arms
    MaxBundles,     \* bound: diagnostics collected
    MaxClock,       \* bound: time
    MaxActFaults    \* bound: lost replies, restarts, failed commits and stores

\* The intents the document accepts (SetDeviceIntent).
ASSUME ActionAssumption == Intents \subseteq {"reboot", "lock", "wipe", "diagnostics"}

VARIABLES
    armed,      \* the device's intent in the fleet document, or "none"
    agent,      \* memory: outcome to send, wipe challenge, the beat under way
    disk,       \* the state directory and the lock flag
    spool,      \* intents waiting for the executor
    console,    \* what the console has stored: bundle, sealed key
    bundles,    \* collections: [made, writing, kept, crossed]
    keys,       \* whether a recovery key was minted
    round,      \* the reboot armed last: [clean, credit]
    wiped, clock, orders, actFaults

actionVars == <<armed, agent, disk, spool, console, bundles, keys, round,
                wiped, clock, orders, actFaults>>

ActFault  == actFaults < MaxActFaults /\ actFaults' = actFaults + 1
NoBundle  == [no |-> 0, whole |-> FALSE]
Quiet     == [pc |-> "idle", pending |-> "none", carried |-> "none", challenge |-> 0, echo |-> 0,
              key |-> 0, bundle |-> NoBundle, reply |-> "none", ts |-> 0]
\* A further reboot is in order: counted up to two.
Excuse(r, b) == IF b /\ r.credit < 2 THEN [r EXCEPT !.credit = @ + 1] ELSE r
Excused(b)   == Excuse(round, b)
\* One reboot more, owed or not.
Rebooted(r)  == [r EXCEPT !.credit = IF @ < 0 THEN @ ELSE @ - 1]

(***************************************************************************)
(* The operator.                                                           *)
(***************************************************************************)
\* Nothing of an earlier reboot is still on its way.
NoRebootUnderWay ==
    /\ "reboot" \notin spool /\ disk.stamp = "none" /\ disk.ack # "rebooted"
    /\ agent.pending # "rebooted" /\ agent.carried # "rebooted" /\ agent.reply # "reboot"
    /\ armed # "reboot"

\* SetDeviceIntent: a wipe needs the lock first, or force.
SetDeviceIntent(intent, force) ==
    /\ orders # <<>> /\ intent = Head(orders) /\ orders' = Tail(orders)
    /\ intent = "wipe" => armed = "lock" \/ force
    /\ armed' = intent
    /\ round' = IF intent = "reboot"
                THEN [clean |-> NoRebootUnderWay, credit |-> 1] ELSE round
    /\ UNCHANGED <<agent, disk, spool, console, bundles, keys, wiped, clock, actFaults>>

ClearDeviceIntent ==
    /\ armed # "none" /\ armed' = "none"
    /\ UNCHANGED <<agent, disk, spool, console, bundles, keys, round, wiped, clock, orders, actFaults>>

(***************************************************************************)
(* The agent's loop: collect, upload, send, react.                         *)
(***************************************************************************)
\* executed_ack reads the outcome and removes the file; only memory has it now.
executed_ack ==
    /\ agent.pc = "idle"
    /\ LET ack == IF disk.ack # "none" THEN disk.ack ELSE agent.pending IN
       agent' = [agent EXCEPT !.pc = "collected", !.pending = "none", !.carried = ack,
                    !.echo = IF ack \in {"wipe", "wipe-refused", "wipe-failed"} THEN agent.challenge ELSE 0]
    /\ disk' = [disk EXCEPT !.ack = "none"]
    /\ UNCHANGED <<armed, spool, console, bundles, keys, round, wiped, clock, orders, actFaults>>

\* What the file holds at this moment: a bundle still being written is read in
\* part, and as absent while the file is empty.
pending_diagnostics ==
    /\ agent.pc = "collected"
    /\ \/ /\ agent' = [agent EXCEPT !.pc = "upload", !.bundle = disk.bundle]
          /\ bundles' = [bundles EXCEPT !.crossed = @ \/ (bundles.writing /\ disk.bundle.no # 0)]
       \/ /\ ~disk.bundle.whole /\ agent' = [agent EXCEPT !.pc = "upload", !.bundle = NoBundle]
          /\ UNCHANGED bundles
    /\ UNCHANGED <<armed, disk, spool, console, keys, round, wiped, clock, orders, actFaults>>

\* The bundle goes before the beat; the console keeps one.  On a confirmed upload
\* clear_diagnostics removes the file by name, whatever is in it by then.  The
\* recovery key is read for the beat itself.
upload_diagnostics ==
    /\ agent.pc = "upload"
    /\ agent' = [agent EXCEPT !.pc = "send", !.key = disk.key, !.bundle = NoBundle]
    /\ \/ /\ agent.bundle.no # 0
          /\ console' = [console EXCEPT !.bundle = agent.bundle]
          /\ \/ disk' = [disk EXCEPT !.bundle = NoBundle] /\ UNCHANGED actFaults
             \/ ActFault /\ UNCHANGED disk
       \/ agent.bundle.no # 0 /\ ActFault /\ UNCHANGED <<console, disk>>
       \/ agent.bundle.no = 0 /\ UNCHANGED <<console, disk, actFaults>>
    /\ UNCHANGED <<armed, spool, bundles, keys, round, wiped, clock, orders>>

\* verifyIntentNonce: the echo is one the console signed, and recent.
verifyIntentNonce(ts) == ts # 0 /\ clock - ts \in 0..WipeWindow

\* WithProvision: an outcome that ends a one-shot intent clears it ...
Completes(ack) == CASE ack = "rebooted" -> "reboot"
                    [] ack \in {"diagnostics", "diagnostics-failed"} -> "diagnostics"
                    [] OTHER -> "none"

\* ... before the same response looks for what is still armed.
NextIntent(cleared) == IF cleared THEN "none" ELSE armed

\* handleCheckin, for a beat the credential admits: drop a wipe outcome that
\* answers no recent instruction, store the beat, seal the key, clear, answer.
handleCheckin ==
    /\ agent.pc = "send"
    /\ LET ack == IF agent.carried \in {"wipe", "wipe-refused", "wipe-failed"} /\ ~verifyIntentNonce(agent.echo)
                  THEN "none" ELSE agent.carried
           done == armed # "none" /\ Completes(ack) = armed IN
       \E sealed, committed \in BOOLEAN :
        /\ sealed => agent.key # 0
        /\ committed => done
        /\ (agent.key # 0 /\ ~sealed) \/ (done /\ ~committed) => actFaults < MaxActFaults
        /\ actFaults' = IF (agent.key # 0 /\ ~sealed) \/ (done /\ ~committed) THEN actFaults + 1 ELSE actFaults
        /\ console' = [console EXCEPT !.key = IF sealed THEN agent.key ELSE @]
        /\ armed' = IF committed THEN "none" ELSE armed
        /\ round' = Excused(ack = "rebooted" /\ ~committed)
        /\ agent' = [agent EXCEPT !.pc = IF sealed THEN "answeredSealed" ELSE "answered",
                                  !.reply = NextIntent(committed),
                                  !.ts = IF NextIntent(committed) = "wipe" THEN clock ELSE 0]
    /\ UNCHANGED <<disk, spool, bundles, keys, wiped, clock, orders>>

\* The console does not answer: unreachable, or the reply is lost.  The outcome is
\* kept for the next beat.
Transient ==
    /\ agent.pc \in {"send", "answered", "answeredSealed"} /\ ActFault
    /\ agent' = [Quiet EXCEPT !.pending = agent.carried, !.challenge = agent.challenge]
    /\ UNCHANGED <<armed, disk, spool, console, bundles, keys, round, wiped, clock, orders>>

\* Seeded fault: any accepted beat counts as a sealed key.
KeyConfirmedByAnswer == TRUE

\* X-Recovery-Key-Stored.
KeyConfirmed == agent.pc = "answeredSealed"

wipe_is_fresh(ts) == ts # 0 /\ clock - ts \in 0..WipeWindow

\* The answer arrives: forget what was delivered, react to the intent.  Spooling
\* is all the agent may do; a lock also leaves its flag.
react ==
    /\ agent.pc \in {"answered", "answeredSealed"}
    /\ LET fresh == agent.reply = "wipe" => wipe_is_fresh(agent.ts) IN
       /\ spool' = IF agent.reply # "none" /\ fresh THEN spool \cup {agent.reply} ELSE spool
       /\ disk' = [disk EXCEPT !.key = IF agent.key # 0 /\ KeyConfirmed THEN 0 ELSE @,
                               !.locked = @ \/ agent.reply = "lock"]
       /\ agent' = [Quiet EXCEPT !.challenge =
                IF agent.reply = "wipe" /\ fresh THEN agent.ts
                ELSE IF agent.carried \in {"wipe", "wipe-refused", "wipe-failed"} THEN 0
                ELSE agent.challenge]
    /\ UNCHANGED <<armed, console, bundles, keys, round, wiped, clock, orders, actFaults>>

\* The agent is restarted: an outcome it had read and not delivered is gone.
AgentRestart ==
    /\ ActFault
    /\ agent' = Quiet
    /\ round' = Excused("rebooted" \in {agent.pending, agent.carried})
    /\ UNCHANGED <<armed, disk, spool, console, bundles, keys, wiped, clock, orders>>

(***************************************************************************)
(* The executor.                                                           *)
(***************************************************************************)
\* One run of the script at a time, and it collects diagnostics to the end.
ActdFree == ~bundles.writing

\* writeAck: one file, the last outcome wins.
writeAck(a) == [disk EXCEPT !.ack = a]

\* A machine that goes down takes the spool and the agent's memory with it.
rebootNow(d, pace) ==
    /\ disk' = [d EXCEPT !.stamp = IF @ = "none" THEN "none" ELSE "earlier"] /\ spool' = {}
    /\ agent' = Quiet
    /\ round' = Excuse(pace, "rebooted" \in {agent.pending, agent.carried})

actdLock ==
    /\ ActdFree /\ "lock" \in spool
    /\ disk' = writeAck("lock") /\ spool' = spool \ {"lock"}
    /\ round' = Excused(disk.ack = "rebooted")
    /\ UNCHANGED <<armed, agent, console, bundles, keys, wiped, clock, orders, actFaults>>

\* Seeded fault: the stamp of the boot it happened in is not looked at.
actdRebootUnstamped ==
    /\ ActdFree /\ "reboot" \in spool
    /\ rebootNow([disk EXCEPT !.stamp = "this"], Rebooted(round))
    /\ UNCHANGED <<armed, console, bundles, keys, wiped, clock, orders, actFaults>>

\* The boot id stamped before the reboot tells a completed one from a new one.
actdReboot ==
    /\ ActdFree /\ "reboot" \in spool
    /\ IF disk.stamp = "earlier"
       THEN /\ disk' = [writeAck("rebooted") EXCEPT !.stamp = "none"]
            /\ spool' = spool \ {"reboot"}
            /\ round' = Excused(agent.pc # "idle")
            /\ UNCHANGED agent
       ELSE IF disk.stamp = "none"
       THEN rebootNow([disk EXCEPT !.stamp = "this"], Rebooted(round))
       ELSE spool' = spool \ {"reboot"} /\ UNCHANGED <<disk, agent, round>>
    /\ UNCHANGED <<armed, console, bundles, keys, wiped, clock, orders, actFaults>>

\* A recovery key is minted with the TPM2 seal, once, and the machine reboots.
actdMint ==
    /\ ActdFree /\ keys = 0 /\ keys' = 1
    /\ rebootNow([writeAck("tpm2-enrolled") EXCEPT !.key = 1], Excused(disk.ack = "rebooted"))
    /\ UNCHANGED <<armed, console, bundles, wiped, clock, orders, actFaults>>

\* The intent is taken and gzip's output opened: the file is truncated, and with it
\* a bundle that was not uploaded yet.
collectDiagnostics ==
    /\ ActdFree /\ "diagnostics" \in spool /\ bundles.made < MaxBundles
    /\ spool' = spool \ {"diagnostics"}
    /\ disk' = [disk EXCEPT !.bundle = [no |-> bundles.made + 1, whole |-> FALSE]]
    /\ bundles' = [made |-> bundles.made + 1, writing |-> TRUE, kept |-> 0,
                   crossed |-> agent.pc = "upload" /\ agent.bundle.no # 0]
    /\ UNCHANGED <<armed, agent, console, keys, round, wiped, clock, orders, actFaults>>

\* The stream ends, into a file the agent may have removed meanwhile, or breaks off.
actdDiagnostics ==
    /\ bundles.writing
    /\ \/ /\ bundles' = [bundles EXCEPT !.writing = FALSE, !.kept = bundles.made]
          /\ disk' = [writeAck("diagnostics") EXCEPT
                !.bundle = IF @.no = 0 THEN @ ELSE [no |-> bundles.made, whole |-> TRUE]]
          /\ UNCHANGED actFaults
       \/ /\ bundles' = [bundles EXCEPT !.writing = FALSE]
          /\ ActFault /\ disk' = writeAck("diagnostics-failed")
    /\ round' = Excused(disk.ack = "rebooted")
    /\ UNCHANGED <<armed, agent, spool, console, keys, wiped, clock, orders>>

\* A wipe needs an armed host and a locked device; an incomplete one stays spooled.
actdWipe ==
    /\ ActdFree /\ "wipe" \in spool /\ ~wiped
    /\ IF ~ArmWipe \/ (~AllowUnlockedWipe /\ ~disk.locked)
       THEN disk' = writeAck("wipe-refused") /\ spool' = spool \ {"wipe"} /\ UNCHANGED <<wiped, actFaults>>
       ELSE \/ disk' = writeAck("wipe") /\ spool' = spool \ {"wipe"} /\ wiped' = TRUE /\ UNCHANGED actFaults
            \/ disk' = writeAck("wipe-failed") /\ ActFault /\ UNCHANGED <<spool, wiped>>
    /\ round' = Excused(disk.ack = "rebooted")
    /\ UNCHANGED <<armed, agent, console, bundles, keys, clock, orders>>

\* Time only matters while an instruction to wipe is out.
Tick == /\ clock < MaxClock /\ clock' = clock + 1
        /\ agent.ts # 0 \/ agent.challenge # 0 \/ agent.echo # 0
        /\ UNCHANGED <<armed, agent, disk, spool, console, bundles, keys, round, wiped, orders, actFaults>>

ActionInit ==
    /\ armed = "none" /\ agent = Quiet /\ spool = {}
    /\ disk = [ack |-> "none", stamp |-> "none", key |-> 0, bundle |-> NoBundle, locked |-> FALSE]
    /\ console = [key |-> 0, bundle |-> NoBundle] /\ keys = 0
    /\ bundles = [made |-> 0, writing |-> FALSE, kept |-> 0, crossed |-> FALSE]
    /\ round = [clean |-> FALSE, credit |-> 1]
    /\ wiped = FALSE /\ clock = 1 /\ orders \in Orders /\ actFaults = 0

ActionNext ==
    \/ \E i \in Intents : \E force \in BOOLEAN : SetDeviceIntent(i, force)
    \/ ClearDeviceIntent
    \/ executed_ack \/ pending_diagnostics \/ upload_diagnostics \/ handleCheckin \/ Transient \/ react \/ AgentRestart
    \/ actdLock \/ actdReboot \/ actdMint \/ collectDiagnostics \/ actdDiagnostics \/ actdWipe
    \/ Tick

ActionSpec == ActionInit /\ [][ActionNext]_actionVars

(***************************************************************************)
(* Properties.                                                             *)
(***************************************************************************)
\* A reboot armed while nothing of an earlier one is on its way reboots the device
\* once.  Each further reboot has its own excuse: the outcome reached the console
\* and the clearing commit failed, the outcome was lost with the agent's memory or
\* overwritten, or a beat was under way when it was recorded.
RebootOnce == round.clean => round.credit >= 0

\* The minted recovery key is on the device until the console has sealed it, lost
\* replies, restarts and reboots included.  The bundle collected last is on the
\* device or with the console, whole: unless an upload crossed its collection.
\* gzip streams into the file the agent reads, and clear_diagnostics removes it by
\* name, so a bundle begun between a read and its clearing goes with the earlier
\* one, and one that is read before its end is uploaded in part and removed.  A
\* bundle is only claimed until the next collection, which truncates the file.
HandedOver ==
    /\ keys # 0 => keys \in {disk.key, console.key}
    /\ bundles.kept # 0 /\ ~bundles.crossed =>
            [no |-> bundles.kept, whole |-> TRUE] \in {disk.bundle, console.bundle}
=============================================================================
