---------------------------- MODULE MCVxlanPeers ---------------------------
(* VxlanPeers with the agent's node, two peers and two pod CIDRs.          *)
EXTENDS VxlanPeers, TLC

CONSTANTS self, n1, n2, a, b, i, j

\* The own node is ready; n1 has a pod CIDR, n2 has registered or not yet.
Cluster ==
  {(self :> [cidr |-> a, ip |-> i] @@ n1 :> [cidr |-> b, ip |-> i] @@ n2 :> v) :
     v \in {None, [cidr |-> None, ip |-> j]}}

\* A single peer.
OnePeer == {(self :> [cidr |-> a, ip |-> i] @@ n1 :> [cidr |-> b, ip |-> i])}
=============================================================================
