------------------------- MODULE MCContainerAccess -------------------------
(***************************************************************************)
(* Five calls for two containers: three of them contend for one, so that a *)
(* woken call can be overtaken, and two for the other, whose sleepers      *)
(* share the condition variable.                                           *)
(***************************************************************************)
EXTENDS ContainerAccess, TLC

CONSTANTS p, q, a1, a2, a3, b1, b2

Pods     == {p, q}
Requests == {a1, a2, a3, b1, b2}
ThreeAndTwo == (a1 :> p) @@ (a2 :> p) @@ (a3 :> p) @@ (b1 :> q) @@ (b2 :> q)

=============================================================================
