---------------------------- MODULE ConfigPlane ----------------------------
(***************************************************************************)
(* The configuration service of one console replica with a git remote      *)
(* (src/internal/app/config.go over src/internal/adapters/git).            *)
(*                                                                         *)
(* A tip of main is the set of items its history contains: a push is a     *)
(* fast-forward iff the remote's set is contained in the local one, a hard *)
(* reset replaces the set.  The gate is the in-process one, which evaluates*)
(* the working tree it is given.                                           *)
(*                                                                         *)
(* tx is the write transaction under way; tx.pc # "free" is writeMu held.  *)
(* Other replicas and engineers write to the remote without it.            *)
(***************************************************************************)
EXTENDS Integers, FiniteSets

CONSTANTS
    Items, Bad,
    Initial,            \* main at the start
    Direct,             \* items written directly to main through Apply
    Structural,         \* items written through ApplyStructural (no gate)
    External,           \* items that engineers or other replicas push
    maxPushRetries,
    FaultKinds,         \* what may fail: see Fault
    MaxFaults           \* bound: failures and crashes

NoItem == "none"

Valid(content) == \A b \in Bad : ~(b \subseteq content)

ASSUME ItemAssumption ==
    /\ NoItem \notin Items
    /\ Direct \subseteq Items /\ Structural \subseteq Items /\ External \subseteq Items
    /\ Bad \subseteq SUBSET Items
    /\ Initial \subseteq Items /\ Valid(Initial)

\* ApplyStructural's contract: such a change alters no device's configuration.
ASSUME StructuralAssumption == \A b \in Bad : b \cap Structural = {}

ASSUME RetryAssumption == maxPushRetries \in Nat \ {0} /\ MaxFaults \in Nat

VARIABLES
    remote,     \* main on the remote
    local,      \* main in the console's clone (survives a crash)
    snapshot,   \* the fleet document that readers are served
    tx,         \* the holder of writeMu
    acked,      \* items whose Apply returned success
    faults

configVars == <<remote, local, snapshot, tx, acked, faults>>

Free == [pc |-> "free", item |-> NoItem, tries |-> 0]

Fault(kind) == kind \in FaultKinds /\ faults < MaxFaults /\ faults' = faults + 1

FastForward == remote \subseteq local

(***************************************************************************)
(* applyWithGate: sync, apply, push; again from the top when another       *)
(* writer won the race.                                                    *)
(***************************************************************************)
Apply(w) ==
    /\ tx.pc = "free"
    /\ tx' = [pc |-> "sync", item |-> w, tries |-> 0]
    /\ UNCHANGED <<remote, local, snapshot, acked, faults>>

TxSync ==
    /\ tx.pc = "sync"
    /\ local' = remote /\ snapshot' = remote
    /\ tx' = [tx EXCEPT !.pc = "apply"]
    /\ UNCHANGED <<remote, acked, faults>>

\* applyTx's verdict: the same document again needs none.
Accepts(w) == w \in local \cup Structural \/ Valid(local \cup {w})

TxApply ==
    /\ tx.pc = "apply" /\ Accepts(tx.item)
    /\ local' = local \cup {tx.item} /\ snapshot' = local'
    /\ tx' = [tx EXCEPT !.pc = "push"]
    /\ UNCHANGED <<remote, acked, faults>>

\* The mutation or the gate says no, or the gate cannot be reached.
TxRefused ==
    /\ tx.pc = "apply"
    /\ tx' = Free
    /\ UNCHANGED <<remote, local, snapshot, acked, faults>>

TxPush ==
    /\ tx.pc = "push" /\ FastForward
    /\ remote' = local /\ acked' = acked \cup {tx.item}
    /\ tx' = Free
    /\ UNCHANGED <<local, snapshot, faults>>

TxConflict ==
    /\ tx.pc = "push" /\ ~FastForward
    /\ tx' = IF tx.tries + 1 < maxPushRetries
             THEN [tx EXCEPT !.pc = "sync", !.tries = @ + 1] ELSE Free
    /\ UNCHANGED <<remote, local, snapshot, acked, faults>>

\* The remote is unreachable, or the push reports an error, having landed or not.
TxFails ==
    /\ tx.pc \in {"sync", "push"} /\ Fault("push")
    /\ remote' \in {remote} \cup (IF tx.pc = "push" /\ FastForward THEN {local} ELSE {})
    /\ tx' = Free
    /\ UNCHANGED <<local, snapshot, acked>>

SyncLoop ==
    /\ tx.pc = "free"
    /\ local' = remote /\ snapshot' = remote
    /\ UNCHANGED <<remote, tx, acked, faults>>

\* Somebody else pushes to main; their own checks keep it evaluating.
Engineer(e) ==
    /\ e \notin remote /\ Valid(remote \cup {e})
    /\ remote' = remote \cup {e}
    /\ UNCHANGED <<local, snapshot, tx, acked, faults>>

ConfigInit ==
    /\ remote = Initial /\ local = Initial /\ snapshot = Initial
    /\ tx = Free /\ acked = {} /\ faults = 0

Tx == TxSync \/ TxApply \/ TxRefused \/ TxPush \/ TxConflict \/ TxFails

ConfigNext ==
    \/ \E w \in Direct \cup Structural : Apply(w)
    \/ Tx
    \/ SyncLoop
    \/ \E e \in External : Engineer(e)

(***************************************************************************)
(* Properties.                                                             *)
(***************************************************************************)
ConfigTypeOK ==
    /\ remote \in SUBSET Items /\ local \in SUBSET Items /\ snapshot \in SUBSET Items
    /\ tx \in [pc : {"free", "sync", "apply", "push", "merge"},
               item : Items \cup {NoItem}, tries : Nat]
    /\ tx.pc \in {"sync", "apply", "push"} => tx.item \in Items
    /\ acked \in SUBSET Items
    /\ faults \in Nat

Promise == INSTANCE Ledger WITH published <- remote

\* The promise of the configuration plane: main on the remote only grows, always
\* evaluates, and contains every write the console reported as saved.
KeepsPromise == Promise!Spec
=============================================================================
