---------------------------- MODULE AddressPool ----------------------------
(***************************************************************************)
(* What the allocator of pkg/ipam promises its callers: every container    *)
(* holds at most one address, no address has two holders, an address given *)
(* out is a free host address of the node's pod CIDR, and a container      *)
(* keeps its address until it is released.  When the agent restarts with   *)
(* another pod CIDR, the addresses outside it lie dormant: no container    *)
(* has them, the next change to the pool drops them, and until then they   *)
(* come back if the pod CIDR does.  Memory, files and crashes do not       *)
(* appear: module Ipam implements this one.                                *)
(***************************************************************************)
EXTENDS PodCidr, TLAPS

CONSTANTS Containers,   \* container IDs
          Cidrs,        \* the pod CIDRs the node may be assigned
          None          \* no address

VARIABLES net,          \* the pod CIDR now managed
          held          \* container -> address, or None

poolVars == <<net, held>>

Active(c) == IF held[c] \in Block(net) THEN held[c] ELSE None

Init ==
  /\ net \in Cidrs
  /\ held = [c \in Containers |-> None]

\* The pool without dormant addresses, except that c now has ip.
Settle(c, ip) ==
  /\ held' = [d \in Containers |-> IF d = c THEN ip ELSE Active(d)]
  /\ UNCHANGED net

\* A container without an address is given a free one.  Which one is left open.
Allocate(c) ==
  /\ Active(c) = None
  /\ \E ip \in HostRange(net) :
       /\ \A d \in Containers : Active(d) # ip
       /\ Settle(c, ip)

Release(c) ==
  /\ Active(c) # None
  /\ Settle(c, None)

\* The agent restarts with the pod CIDR n.
Reassign(n) ==
  /\ net' = n
  /\ UNCHANGED held

Next ==
  \/ \E c \in Containers : Allocate(c) \/ Release(c)
  \/ \E n \in Cidrs : Reassign(n)

Spec == Init /\ [][Next]_poolVars

\* No address has two active holders.
Exclusive ==
  \A c, d \in Containers : Active(c) # None /\ Active(c) = Active(d) => c = d

\* A dormant address is nobody else's either, so that a pod CIDR that comes back
\* brings no conflict with it.
Unshared ==
  /\ held \in [Containers -> Int \cup {None}]
  /\ \A c, d \in Containers : held[c] # None /\ held[c] = held[d] => c = d

LEMMA SettleUnshared ==
  ASSUME Unshared, NEW c \in Containers, NEW ip \in Int \cup {None}, Settle(c, ip),
         ip = None \/ \A d \in Containers : Active(d) # ip
  PROVE  Unshared'
<1>1. /\ held' = [d \in Containers |-> IF d = c THEN ip ELSE Active(d)]
      /\ \A d \in Containers : Active(d) \in {None, held[d]}
  BY DEF Settle, Active
<1>2. QED
  BY <1>1 DEF Unshared

\* A pool that follows this specification never has an address twice, through
\* any allocations, releases and changes of the pod CIDR.
THEOREM PoolIsExclusive == (\A n \in Cidrs : IsCidr(n)) /\ Spec => []Exclusive
<1> DEFINE Good == net \in Cidrs /\ Unshared
<1> SUFFICES ASSUME \A n \in Cidrs : IsCidr(n) PROVE Spec => []Exclusive
  OBVIOUS
<1>1. Init => Good
  BY DEF Init, Unshared
<1>2. Good /\ [Next]_poolVars => Good'
  <2> SUFFICES ASSUME Good, [Next]_poolVars PROVE Good'
    OBVIOUS
  <2>1. ASSUME NEW c \in Containers, Allocate(c) PROVE Good'
    <3>1. PICK ip \in HostRange(net) :
            (\A d \in Containers : Active(d) # ip) /\ Settle(c, ip)
      BY <2>1 DEF Allocate
    <3>2. ip \in Int
      BY DEF IsCidr, HostRange
    <3>3. QED
      BY <3>1, <3>2, SettleUnshared DEF Settle
  <2>2. ASSUME NEW c \in Containers, Release(c) PROVE Good'
    BY <2>2, SettleUnshared DEF Release, Settle
  <2>3. ASSUME NEW n \in Cidrs, Reassign(n) PROVE Good'
    BY <2>3 DEF Reassign, Unshared
  <2>4. CASE UNCHANGED poolVars
    BY <2>4 DEF poolVars, Unshared
  <2>5. QED
    BY <2>1, <2>2, <2>3, <2>4 DEF Next
<1>3. Good => Exclusive
  BY DEF Unshared, Exclusive, Active
<1>4. QED
  BY <1>1, <1>2, <1>3, PTL DEF Spec
============================================================================
