------------------------------- MODULE Ledger -------------------------------
(***************************************************************************)
(* What the configuration plane promises, without clones, locks, retries   *)
(* or change branches.  published is the content of main on the remote,    *)
(* which every device and every replica reads; acked is what the console   *)
(* has told somebody is saved.                                             *)
(***************************************************************************)
CONSTANTS
    Items,      \* units of configuration: one edit, one file
    Bad         \* combinations of items that do not evaluate

VARIABLES published, acked

Valid(content) == \A b \in Bad : ~(b \subseteq content)

Init ==
    /\ published \in SUBSET Items /\ Valid(published)
    /\ acked = {}

\* Main only grows, what it grows to evaluates, and nothing is acknowledged
\* that main does not contain.
Publish ==
    /\ published' \in SUBSET Items
    /\ published \subseteq published'
    /\ Valid(published')
    /\ acked \subseteq acked' /\ acked' \subseteq published'

Spec == Init /\ [][Publish]_<<published, acked>>
=============================================================================
