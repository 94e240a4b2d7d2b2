------------------------------- MODULE MCIpam -------------------------------
(***************************************************************************)
(* Instances of Ipam.  A /29 has five host addresses, a /30 one, so three  *)
(* containers fit the first and exhaust the second.                        *)
(***************************************************************************)
EXTENDS Ipam, TLC

Slash29 == [base |-> 8, size |-> 8]
Slash30 == [base |-> 16, size |-> 4]

\* The upper half of the /29: of its host addresses 12 and 13 are this one's
\* network address and gateway, and only 14 is a host address of both.
InnerSlash30 == [base |-> 12, size |-> 4]

\* The gateway of this one wraps.
Slash32 == [base |-> 255, size |-> 1]

\* A node is given another pod CIDR, smaller, overlapping or not, and back.
PodCidrs == {Slash29, InnerSlash30, Slash30, Slash32}

\* Two equally small ones, for a node whose pod CIDR changes and changes back.
TwoSlash30 == {Slash30, [base |-> 4, size |-> 4]}

Symmetry == Permutations(Containers)
=============================================================================
