---------------------------- MODULE MCCmdServer ----------------------------
(***************************************************************************)
(* Instances of CmdServer: two containers, whose calls meet at the pool    *)
(* and the host routes, and handlers enough for one container's abandoned  *)
(* call, its DEL, and a call of the other.                                 *)
(***************************************************************************)
EXTENDS CmdServer, TLC

Slash29 == [base |-> 8, size |-> 8]
Slash30 == [base |-> 8, size |-> 4]

Symmetry == Permutations(Containers) \cup Permutations(Handlers)
=============================================================================
