----------------------------- MODULE ImageJobs -----------------------------
(***************************************************************************)
(* One image job, from dispatch to a provisioned device: the job's         *)
(* lifecycle (src/internal/domain/imaging), the guarded store behind it    *)
(* (src/internal/app/imaging.go, .../postgres/image_jobs.go), the station  *)
(* API that claims it and reports on it (src/internal/http/api/station.go) *)
(* and the device that carries out the ceremony (deploy/nixos/actd.nix).   *)
(*                                                                         *)
(* Station, device and operator move the same row.  Each reads it, decides *)
(* and writes later; the write counts only if the status is still the one  *)
(* that was read.  A revision, a tag and the progress bar are left out.    *)
(***************************************************************************)
EXTENDS Integers, FiniteSets

CONSTANTS
    Configs,        \* SUBSET [efi, chip, wantSB, wantTPM2 : BOOLEAN]
    Enclosures,     \* what an install report may carry: sets of a recovery key and a host key
    MaxDispatch,    \* bound: how often the operator dispatches
    MaxImgFaults    \* bound: lost replies, failed writes, failed steps, credentials issued by hand

Carried == {"luks", "hostKey"}

\* A report carries a recovery key, a host key, both or neither.
ASSUME ImageAssumption == Enclosures \subseteq SUBSET Carried

VARIABLES
    hw,         \* the machine and what its resolved configuration asks for
    jobStatus,  \* the job's status, "none" before the first dispatch
    decided,    \* [Reporters -> the transition it has decided on]
    issued,     \* the device's valid credential: its number, and who had it issued
    station,    \* what the station is doing and the credential it holds
    machine,    \* what is on the disk, what the firmware says, what its install report carries
    escrow,     \* installs whose recovery key is sealed, whose host key is on file
    heard,      \* what this install's check-ins have shown
    overtaken,  \* a dispatch went past a check-in that had decided and not written
    dispatches, imgFaults

imageVars == <<hw, jobStatus, decided, issued, station, machine, escrow, heard, overtaken, dispatches, imgFaults>>

Reporters == {"claim", "station", "device", "operator"}
NoOp      == [from |-> "none", to |-> "none"]
Unheard   == [booted |-> FALSE, enforcing |-> FALSE, keys |-> FALSE, sealed |-> FALSE, noChip |-> FALSE]

ImgFault == imgFaults < MaxImgFaults /\ imgFaults' = imgFaults + 1

(***************************************************************************)
(* The lifecycle.                                                          *)
(***************************************************************************)
Targets ==
    [ pending       |-> {"imaging", "failed", "canceled"},
      imaging       |-> {"installed", "failed", "canceled"},
      installed     |-> {"sb-pending", "sb-enrolled", "tpm2-enrolled", "done", "failed", "canceled"},
      sb_pending    |-> {"sb-enrolled", "failed", "canceled"},
      sb_enrolled   |-> {"tpm2-enrolled", "done", "failed", "canceled"},
      tpm2_enrolled |-> {"done", "failed", "canceled"},
      failed        |-> {"pending", "canceled"} ]

CanTransition(s, to) ==
    CASE s = "sb-pending"    -> to \in Targets.sb_pending
      [] s = "sb-enrolled"   -> to \in Targets.sb_enrolled
      [] s = "tpm2-enrolled" -> to \in Targets.tpm2_enrolled
      [] s \in {"pending", "imaging", "installed", "failed"} -> to \in Targets[s]
      [] OTHER -> FALSE

NeedsProvisioning(s) == s \in {"installed", "sb-pending", "sb-enrolled", "tpm2-enrolled"}

\* An ack that the executor sends comes before the posture.
Failures == {"sb-enroll-failed", "tpm2-enroll-failed"}
Acked(s, ack) == ack \in {"sb-enrolled", "tpm2-enrolled"} /\ CanTransition(s, ack)

\* Seeded fault: an enrolled machine counts as finished whatever its TPM2 is.
AdvanceAnyChip(s, sb, tpm2, ack) ==
    IF ack \in Failures THEN "failed"
    ELSE CASE s = "installed" /\ hw.wantSB /\ sb = "enforcing" -> "sb-enrolled"
           [] s = "installed" /\ hw.wantSB /\ sb \in {"off", "audit"} -> "sb-pending"
           [] s = "sb-pending" /\ sb = "enforcing" -> "sb-enrolled"
           [] s = "sb-enrolled" -> "done"
           [] OTHER -> s

\* Advance: what a check-in does to the job it is about; s itself for nothing.
Advance(s, sb, tpm2, ack) ==
    IF ack \in Failures THEN "failed"
    ELSE IF Acked(s, ack) THEN ack
    ELSE CASE s = "installed" /\ ~hw.wantSB /\ (sb # "unknown" \/ tpm2 # "unknown") -> "done"
           [] s = "installed" /\ hw.wantSB /\ sb = "enforcing" -> "sb-enrolled"
           [] s = "installed" /\ hw.wantSB /\ sb \in {"off", "audit"} -> "sb-pending"
           [] s = "installed" /\ hw.wantSB /\ sb = "unknown" /\ tpm2 # "unknown" -> "done"
           [] s = "sb-pending" /\ sb = "enforcing" -> "sb-enrolled"
           [] s = "sb-enrolled" /\ (~hw.wantTPM2 \/ tpm2 = "absent") -> "done"
           [] s = "tpm2-enrolled" /\ sb = "enforcing" -> "done"
           [] OTHER -> s

(***************************************************************************)
(* Reading and writing the row.                                            *)
(***************************************************************************)
\* Report, its first half: the status now, and whether it may become `to`.
Decide(who, to) ==
    /\ decided[who] = NoOp /\ CanTransition(jobStatus, to)
    /\ decided' = [decided EXCEPT ![who] = [from |-> jobStatus, to |-> to]]

\* TransitionStatus: the write pins the status that was read.
TransitionStatus(who) ==
    jobStatus' = IF jobStatus = decided[who].from THEN decided[who].to ELSE jobStatus

\* Upsert: an operator dispatches, whatever the row holds.
Dispatch ==
    /\ dispatches < MaxDispatch
    /\ jobStatus' = "pending" /\ dispatches' = dispatches + 1
    /\ overtaken' = (overtaken \/ decided["device"] # NoOp)
    /\ UNCHANGED <<hw, decided, issued, station, machine, escrow, heard, imgFaults>>

\* Cancel is a report like any other.
Cancel ==
    /\ \/ Decide("operator", "canceled") /\ UNCHANGED jobStatus
       \/ /\ decided["operator"] # NoOp /\ TransitionStatus("operator")
          /\ decided' = [decided EXCEPT !["operator"] = NoOp]
    /\ UNCHANGED <<hw, issued, station, machine, escrow, heard, overtaken, dispatches, imgFaults>>

\* An operator re-issues the device's credential in the console or over the API,
\* whatever the job is at; the one on the disk stops working.
reissueCredential ==
    /\ ImgFault
    /\ issued' = [no |-> issued.no + 1, by |-> "operator"]
    /\ UNCHANGED <<hw, jobStatus, decided, station, machine, escrow, heard, overtaken, dispatches>>

(***************************************************************************)
(* The station.                                                            *)
(***************************************************************************)
\* ListPending: what the station still has to do.
Claimable == {"pending", "imaging"}

\* handleClaim lists the job ...
ClaimList ==
    /\ station.pc = "idle" /\ jobStatus \in Claimable
    /\ decided' = [decided EXCEPT !["claim"] = [from |-> jobStatus, to |-> "imaging"]]
    /\ station' = [station EXCEPT !.pc = "claiming"]
    /\ UNCHANGED <<hw, jobStatus, issued, machine, escrow, heard, overtaken, dispatches, imgFaults>>

\* ... and hands it out with a fresh credential; the reply may be lost, and then
\* the station asks again.
handleClaim ==
    /\ station.pc = "claiming"
    /\ issued' = [no |-> issued.no + 1, by |-> "station"]
    /\ IF decided["claim"].from = "pending" THEN TransitionStatus("claim") ELSE UNCHANGED jobStatus
    /\ decided' = [decided EXCEPT !["claim"] = NoOp]
    /\ \/ station' = [pc |-> "install", cred |-> issued.no + 1] /\ UNCHANGED imgFaults
       \/ ImgFault /\ station' = [station EXCEPT !.pc = "idle"]
    /\ UNCHANGED <<hw, machine, escrow, heard, overtaken, dispatches>>

\* The installer wipes the disk and bakes the credential in.  Whether its report
\* will carry a recovery key and a host key is the station's affair.
Install ==
    /\ station.pc = "install"
    /\ \E sent \in Enclosures :
        machine' = [machine EXCEPT !.no = @ + 1, !.baked = station.cred, !.sealed = FALSE,
                                   !.ack = "none", !.sent = sent]
    /\ heard' = Unheard
    /\ station' = [station EXCEPT !.pc = "seal"]
    /\ UNCHANGED <<hw, jobStatus, decided, issued, escrow, overtaken, dispatches, imgFaults>>

\* handleJobStatus, on the install report: seal the recovery key if the message has
\* one, record the host key if there is one, then move the job.  What fails is
\* refused and reported again.
sealLUKS ==
    /\ station.pc = "seal"
    /\ \/ /\ escrow' = IF "luks" \in machine.sent THEN [escrow EXCEPT !.luks = machine.no] ELSE escrow
          /\ UNCHANGED imgFaults
          /\ station' = [station EXCEPT !.pc = "key"]
       \/ "luks" \in machine.sent /\ ImgFault /\ UNCHANGED <<escrow, station>>
    /\ UNCHANGED <<hw, jobStatus, decided, issued, machine, heard, overtaken, dispatches>>

recordHostKey ==
    /\ station.pc = "key"
    /\ \/ /\ escrow' = IF "hostKey" \in machine.sent THEN [escrow EXCEPT !.hostKey = machine.no] ELSE escrow
          /\ UNCHANGED imgFaults
          /\ station' = [station EXCEPT !.pc = "report"]
       \/ /\ "hostKey" \in machine.sent /\ ImgFault
          /\ station' = [station EXCEPT !.pc = "seal"] /\ UNCHANGED escrow
    /\ UNCHANGED <<hw, jobStatus, decided, issued, machine, heard, overtaken, dispatches>>

\* The report of the outcome: installed, or failed on the way.
handleJobStatus ==
    /\ \/ /\ station.pc = "report" /\ Decide("station", "installed")
          /\ station' = [station EXCEPT !.pc = "reporting"] /\ UNCHANGED <<jobStatus, imgFaults>>
       \/ /\ station.pc = "install" /\ Decide("station", "failed") /\ ImgFault
          /\ station' = [station EXCEPT !.pc = "reporting"] /\ UNCHANGED jobStatus
       \/ /\ station.pc = "report" /\ ~CanTransition(jobStatus, "installed")
          /\ station' = [pc |-> "idle", cred |-> 0] /\ UNCHANGED <<jobStatus, decided, imgFaults>>
       \/ /\ station.pc = "reporting" /\ TransitionStatus("station")
          /\ decided' = [decided EXCEPT !["station"] = NoOp]
          /\ station' = [pc |-> "idle", cred |-> 0] /\ UNCHANGED imgFaults
    /\ UNCHANGED <<hw, issued, machine, escrow, heard, overtaken, dispatches>>

(***************************************************************************)
(* The machine.                                                            *)
(***************************************************************************)
Up == machine.no > 0 /\ station.pc \notin {"install", "seal", "key"}

\* The operator puts the firmware in setup mode; a reboot with keys enrolled
\* comes back enforcing.
Firmware ==
    /\ Up /\ hw.efi
    /\ \/ machine.sb = "off" /\ jobStatus = "sb-pending" /\ machine' = [machine EXCEPT !.sb = "audit"]
       \/ machine.sb = "keys" /\ machine' = [machine EXCEPT !.sb = "enforcing"]
    /\ UNCHANGED <<hw, jobStatus, decided, issued, station, escrow, heard, overtaken, dispatches, imgFaults>>

\* The executor, on a provision intent: the one step the machine is ready for.
Provision ==
    /\ Up /\ NeedsProvisioning(jobStatus) /\ machine.ack = "none" /\ machine.baked = issued.no
    /\ \/ /\ machine.sb = "audit"
          /\ \/ machine' = [machine EXCEPT !.sb = "keys", !.ack = "sb-enrolled"] /\ UNCHANGED imgFaults
             \/ ImgFault /\ machine' = [machine EXCEPT !.ack = "sb-enroll-failed"]
       \/ /\ machine.sb = "enforcing" /\ hw.chip /\ ~machine.sealed
          /\ \/ machine' = [machine EXCEPT !.sealed = TRUE, !.ack = "tpm2-enrolled"] /\ UNCHANGED imgFaults
             \/ ImgFault /\ machine' = [machine EXCEPT !.sealed = TRUE, !.ack = "tpm2-enroll-failed"]
    /\ UNCHANGED <<hw, jobStatus, decided, issued, station, escrow, heard, overtaken, dispatches>>

ReportedSB   == IF ~hw.efi THEN "unknown" ELSE IF machine.sb = "keys" THEN "audit" ELSE machine.sb
ReportedTPM2 == IF hw.chip THEN "present" ELSE "absent"

\* A check-in the credential admits: the posture and the executor's last ack,
\* which is sent once.
AdvanceFromDevice ==
    /\ Up /\ machine.baked = issued.no /\ decided["device"] = NoOp
    /\ LET to == Advance(jobStatus, ReportedSB, ReportedTPM2, machine.ack) IN
       decided' = IF to # jobStatus /\ CanTransition(jobStatus, to)
                 THEN [decided EXCEPT !["device"] = [from |-> jobStatus, to |-> to]] ELSE decided
    /\ heard' = [ booted    |-> TRUE,
                  enforcing |-> heard.enforcing \/ ReportedSB = "enforcing",
                  keys      |-> heard.keys \/ machine.ack = "sb-enrolled",
                  sealed    |-> heard.sealed \/ machine.ack = "tpm2-enrolled",
                  noChip    |-> heard.noChip \/ ReportedTPM2 = "absent" ]
    /\ machine' = [machine EXCEPT !.ack = "none"]
    /\ UNCHANGED <<hw, jobStatus, issued, station, escrow, overtaken, dispatches, imgFaults>>

DeviceWrite ==
    /\ decided["device"] # NoOp /\ TransitionStatus("device")
    /\ decided' = [decided EXCEPT !["device"] = NoOp]
    /\ UNCHANGED <<hw, issued, station, machine, escrow, heard, overtaken, dispatches, imgFaults>>

ImageInit ==
    /\ hw \in Configs
    /\ jobStatus = "none" /\ decided = [w \in Reporters |-> NoOp]
    /\ issued = [no |-> 0, by |-> "nobody"] /\ station = [pc |-> "idle", cred |-> 0]
    /\ machine = [no |-> 0, baked |-> 0, sb |-> "off", sealed |-> FALSE, ack |-> "none",
                  sent |-> {}]
    /\ escrow = [luks |-> 0, hostKey |-> 0] /\ heard = Unheard
    /\ overtaken = FALSE /\ dispatches = 0 /\ imgFaults = 0

ImageNext ==
    \/ Dispatch \/ Cancel \/ reissueCredential
    \/ ClaimList \/ handleClaim \/ Install \/ sealLUKS \/ recordHostKey \/ handleJobStatus
    \/ Firmware \/ Provision \/ AdvanceFromDevice \/ DeviceWrite

ImageSpec == ImageInit /\ [][ImageNext]_imageVars

(***************************************************************************)
(* Properties.                                                             *)
(***************************************************************************)
\* A status is earned by this install, also when replies were lost, writes failed
\* and the operator dispatched again.  Past the install, the recovery key and the
\* host key its report carried are sealed and on file, and the device holds the
\* credential the console accepts, until an operator issues another by hand.  Done,
\* the device has reported; where Secure Boot is wanted and possible, it was
\* reported enforcing, and a wanted TPM2 unlock sealed; without a TPM2 step (not
\* wanted, or no chip) the executor's word that it enrolled the keys is enough for
\* Advance.  The write pins a status, not a dispatch: Done can be wrong once a
\* dispatch overtakes a check-in under way (app/imaging.go AdvanceFromDevice).
StatusIsEarned ==
    /\ NeedsProvisioning(jobStatus) =>
        /\ "luks" \in machine.sent => escrow.luks = machine.no
        /\ "hostKey" \in machine.sent => escrow.hostKey = machine.no
        /\ issued.by = "operator" \/ machine.baked = issued.no
    /\ jobStatus = "done" /\ ~overtaken =>
        /\ heard.booted
        /\ hw.wantSB /\ hw.efi =>
            \/ heard.enforcing /\ heard.sealed
            \/ (heard.enforcing \/ heard.keys) /\ (~hw.wantTPM2 \/ heard.noChip)
=============================================================================
