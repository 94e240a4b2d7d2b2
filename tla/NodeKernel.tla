----------------------------- MODULE NodeKernel -----------------------------
(***************************************************************************)
(* The kernel objects of one node that pkg/network works on, as the agent  *)
(* uses them: the network namespaces of the containers, the veth pairs,    *)
(* the pod's address and default route, and the host's /32 routes.  A      *)
(* container's objects are named by its ID: the host end of its veth pair  *)
(* is generateHostVethName(ID), taken to be different for different IDs.   *)
(***************************************************************************)
EXTENDS PodCidr

CONSTANTS Containers,   \* container IDs
          Cidr,         \* the pod CIDR of the node
          None          \* no address, no device

ASSUME CidrAssumption == IsCidr(Cidr)
ASSUME NoneAssumption == None \notin Containers \cup Int

VARIABLES
  netns,    \* the path of the container's namespace: "mounted" or "unlinked"
  veth,     \* how far the veth pair made in that namespace has come
  addr,     \* the IPv4 address of its container end
  gateway,  \* the namespace has its default route
  route     \* host /32 route for an address: the container whose veth it uses

kernel == <<netns, veth, addr, gateway, route>>

\* The pair does not exist; both ends are in the pod; the host end is on the
\* host; it is up; and it answers ARP for the gateway as well.
VethStates == {"none", "inner", "moved", "up", "ready"}

HostAddresses == HostRange(Cidr)

KernelInit ==
  /\ netns = [c \in Containers |-> "mounted"]
  /\ veth = [c \in Containers |-> "none"]
  /\ addr = [c \in Containers |-> None]
  /\ gateway = [c \in Containers |-> FALSE]
  /\ route = [ip \in HostAddresses |-> None]

KernelTypeOK ==
  /\ netns \in [Containers -> {"mounted", "unlinked"}]
  /\ veth \in [Containers -> VethStates]
  /\ addr \in [Containers -> HostAddresses \cup {None}]
  /\ gateway \in [Containers -> BOOLEAN]
  /\ route \in [HostAddresses -> Containers \cup {None}]

-----------------------------------------------------------------------------
\* SetupVeth: LinkAdd refuses a second link of the same name in the namespace.
SetupVeth(c) ==
  /\ veth[c] = "none"
  /\ veth' = [veth EXCEPT ![c] = "inner"]
  /\ UNCHANGED <<netns, addr, gateway, route>>

\* The steps of the host end: LinkSetNsFd, LinkSetUp, EnableProxyARP.
HostEnd(c, from, to) ==
  /\ veth[c] = from
  /\ veth' = [veth EXCEPT ![c] = to]
  /\ UNCHANGED <<netns, addr, gateway, route>>

\* The host end exists in the host's namespace.
OnHost(c) == veth[c] \in {"moved", "up", "ready"}

\* Faulty variant for the mutation runs: an existing route counts as success,
\* as it does in nodesync's addRoute.
SetupHostRouteTolerant(c, ip) ==
  /\ OnHost(c)
  /\ route' = IF route[ip] = None THEN [route EXCEPT ![ip] = c] ELSE route
  /\ UNCHANGED <<netns, veth, addr, gateway>>

\* SetupHostRoute: RouteAdd refuses a second route for the same /32.
SetupHostRoute(c, ip) ==
  /\ OnHost(c)
  /\ route[ip] = None
  /\ route' = [route EXCEPT ![ip] = c]
  /\ UNCHANGED <<netns, veth, addr, gateway>>

\* ConfigureInterface: AddrAdd; the link has been up since SetupVeth.
ConfigureInterface(c, ip) ==
  /\ veth[c] # "none"
  /\ addr[c] = None
  /\ addr' = [addr EXCEPT ![c] = ip]
  /\ UNCHANGED <<netns, veth, gateway, route>>

\* RouteAdd of 0.0.0.0/0 in the pod: the address makes the gateway reachable.
AddDefaultRoute(c) ==
  /\ addr[c] # None
  /\ ~gateway[c]
  /\ gateway' = [gateway EXCEPT ![c] = TRUE]
  /\ UNCHANGED <<netns, veth, addr, route>>

\* The veth pair of c goes, by LinkDel of one end or with its namespace: its
\* address and all routes through either end go with it.
DropVeth(c) ==
  /\ veth' = [veth EXCEPT ![c] = "none"]
  /\ addr' = [addr EXCEPT ![c] = None]
  /\ gateway' = [gateway EXCEPT ![c] = FALSE]
  /\ route' = [ip \in HostAddresses |-> IF route[ip] = c THEN None ELSE route[ip]]
  /\ UNCHANGED netns
=============================================================================
