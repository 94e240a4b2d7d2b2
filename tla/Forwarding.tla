----------------------------- MODULE Forwarding -----------------------------
(***************************************************************************)
(* What pkg/nodesync promises the rest of the agent: traffic for a pod     *)
(* CIDR is sent to the address of the node that has it, as the agent last  *)
(* saw that node, and a notification about one node touches the paths of   *)
(* no other.  "suspect" are the pod CIDRs the promise is suspended for.    *)
(* Informers, maps, kernel objects and restarts do not appear:             *)
(* HostGateway and VxlanPeers implement this one.                          *)
(***************************************************************************)
EXTENDS TLAPS

CONSTANTS Nodes, Cidrs, Ips, None

VARIABLES
  view,      \* node -> its pod CIDR and address, or None
  path,      \* pod CIDR -> the address its traffic is sent to, or None
  suspect    \* pod CIDRs for which path may be anything

forwardingVars == <<view, path, suspect>>

Peers == [cidr : Cidrs, ip : Ips]

CidrOf(p) == IF p = None THEN {} ELSE {p.cidr}

\* The path to c is that of the one node that has c, if there is one.
Right(c) ==
  /\ \A n \in Nodes : view[n] # None /\ view[n].cidr = c => path[c] = view[n].ip
  /\ path[c] # None => \E n \in Nodes : view[n] # None /\ view[n].cidr = c

Init ==
  /\ view = [n \in Nodes |-> None]
  /\ path = [c \in Cidrs |-> None]
  /\ suspect = {}

\* Node n is now v: only the paths to its old and its new pod CIDR change.
Update(n, v) ==
  /\ view' = [view EXCEPT ![n] = v]
  /\ path' \in [Cidrs -> Ips \cup {None}]
  /\ suspect' \subseteq Cidrs
  /\ \A c \in Cidrs \ (CidrOf(view[n]) \cup CidrOf(v)) :
       path'[c] = path[c] /\ (c \in suspect' <=> c \in suspect)
  /\ \A c \in Cidrs \ suspect' : Right(c)'

\* The nodes in lost changed while nobody looked; their paths stay.
Lose(lost) ==
  /\ view' = [n \in Nodes |-> IF n \in lost THEN None ELSE view[n]]
  /\ suspect' = suspect \cup UNION {CidrOf(view[n]) : n \in lost}
  /\ UNCHANGED path

\* The node reboots: no path survives it, and so no wrong one.
Forget ==
  /\ view' = [n \in Nodes |-> None]
  /\ path' = [c \in Cidrs |-> None]
  /\ suspect' = {}

Next ==
  \/ \E n \in Nodes, v \in Peers \cup {None} : Update(n, v)
  \/ \E lost \in SUBSET Nodes : Lose(lost)
  \/ Forget

Spec == Init /\ [][Next]_forwardingVars

\* Traffic goes where the node is, and nowhere when there is no node.
Kept == \A c \in Cidrs \ suspect : Right(c)

\* Whoever implements this specification keeps the promise in every state, also
\* between the change of one node and that of the next.
THEOREM PromiseKept == Spec => []Kept
<1> DEFINE Typed == view \in [Nodes -> Peers \cup {None}]
<1>1. Init => Typed /\ Kept
  BY DEF Init, Kept, Right
<1>2. Typed /\ Kept /\ [Next]_forwardingVars => Typed' /\ Kept'
  <2> SUFFICES ASSUME Typed, Kept, [Next]_forwardingVars PROVE Typed' /\ Kept'
    OBVIOUS
  <2>1. ASSUME NEW n \in Nodes, NEW v \in Peers \cup {None}, Update(n, v)
        PROVE  Typed' /\ Kept'
    BY <2>1 DEF Update, Kept
  <2>2. ASSUME NEW lost \in SUBSET Nodes, Lose(lost)
        PROVE  Typed' /\ Kept'
    <3>1. /\ view' = [n \in Nodes |-> IF n \in lost THEN None ELSE view[n]]
          /\ suspect' = suspect \cup UNION {CidrOf(view[n]) : n \in lost}
          /\ path' = path
      BY <2>2 DEF Lose
    <3>2. ASSUME NEW c \in Cidrs \ suspect', NEW n \in Nodes, view[n] # None, view[n].cidr = c
          PROVE  n \notin lost /\ view'[n] = view[n]
      BY <3>1, <3>2 DEF CidrOf
    <3>3. ASSUME NEW c \in Cidrs \ suspect'
          PROVE  Right(c)'
      <4>1. Right(c)
        BY <3>1, <3>3 DEF Kept
      <4>2. QED
        BY <3>1, <3>2, <4>1 DEF Right
    <3>4. QED
      BY <3>1, <3>3 DEF Kept
  <2>3. CASE UNCHANGED forwardingVars
    BY <2>3 DEF forwardingVars, Kept, Right
  <2>4. CASE Forget
    BY <2>4 DEF Forget, Kept, Right
  <2>5. QED
    BY <2>1, <2>2, <2>3, <2>4 DEF Next
<1>3. QED
  BY <1>1, <1>2, PTL DEF Spec
=============================================================================
