------------------------------ MODULE MCChange ------------------------------
(***************************************************************************)
(* Two changes whose edits evaluate apart and not together, one direct     *)
(* write, one structural write and commits from outside.                   *)
(***************************************************************************)
EXTENDS ChangeFlow

MCItems    == {"a", "b", "d", "e", "f", "s"}
MCBad      == {{"a", "b"}, {"a", "d"}}
MCEdits    == [c1 |-> {"a"}, c2 |-> {"b", "d"}]
MCAuthors  == [c1 |-> "ann", c2 |-> "none"]
MCAuthorsBoth == [c1 |-> "ann", c2 |-> "bob"]
=============================================================================
