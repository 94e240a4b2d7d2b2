------------------------------ MODULE PodCidr ------------------------------
(***************************************************************************)
(* The address arithmetic of pkg/ipam.  An IPv4 address is the number that *)
(* ipToUint32 makes of it; a pod CIDR is its network address and the       *)
(* number of addresses its mask spans (1 << (bits-ones)).                  *)
(***************************************************************************)
EXTENDS Integers

\* A subnet as net.ParseCIDR returns one: its size is a power of two (what is
\* needed of that is that only one of them is odd), it is aligned on its size,
\* and its last address fits in 32 bits, so that base + offset never wraps in uint32.
IsCidr(n) ==
  /\ n \in [base : Nat, size : Nat \ {0}]
  /\ n.size = 1 \/ n.size % 2 = 0
  /\ n.base % n.size = 0
  /\ (n.base + n.size - 1) \div 65536 < 65536

\* The addresses that Contains of net.IPNet accepts.
Block(n) == n.base .. n.base + n.size - 1

\* Faulty variant for a mutation run: the last octet is set to 1.
GatewayDotOne(n) == (256 * (n.base \div 256)) + 1

\* firstHostIP: the last octet, and only that one, is incremented; it wraps.
Gateway(n) == (256 * (n.base \div 256)) + ((n.base + 1) % 256)

\* The addresses of its own that a pod CIDR keeps from the pods: network
\* address, gateway, broadcast address.
Reserved(n) == {n.base, Gateway(n), n.base + n.size - 1}

\* Faulty variant for a mutation run: the scan starts at offset 1.
HostRangeFromGateway(n) == n.base + 1 .. n.base + n.size - 2

\* The addresses nextFreeIP scans: offset 2 up to, not including, size-1.
HostRange(n) == n.base + 2 .. n.base + n.size - 2

\* nextFreeIP returns ip: the first address of the scan that is not taken.
IsNextFree(ip, n, taken) ==
  /\ ip \in HostRange(n) \ taken
  /\ \A other \in HostRange(n) \ taken : ip <= other
============================================================================
