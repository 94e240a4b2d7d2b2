----------------------------- MODULE NodeWatch -----------------------------
(***************************************************************************)
(* The Node objects of the cluster and the shared informer through which   *)
(* the agent of node Self sees them; both backends of pkg/nodesync extend  *)
(* this module with their handlers and their part of the kernel.           *)
(*                                                                         *)
(* The informer (client-go) hands a handler pairs of versions of one node, *)
(* each beginning where that node's last one ended.  It keeps one key per  *)
(* node, so notifications of different nodes may overtake each other; a    *)
(* re-list may skip versions, a deletion and re-creation included.  Its    *)
(* listener's queue only delays, so one pending version per node is kept   *)
(* once handlers are registered.  Until then versions pass unseen.         *)
(***************************************************************************)
EXTENDS Naturals

CONSTANTS Nodes,      \* node names
          Self,       \* NODE_NAME
          Cidrs,      \* pod CIDRs
          Ips,        \* InternalIP addresses
          None,       \* no object, no pod CIDR, no address
          Initial,    \* the Node objects there may be when the agent first runs
          MayFail,    \* whether netlink calls may fail
          MaxUpsets   \* bound on object changes, crashes and failed calls

\* What the handlers read of a Node object (hostgw.go:116-117).
Objects == [cidr : Cidrs \cup {None}, ip : Ips \cup {None}]

\* What they remember of it: nodeRoute (nodesync.go:62-65).
Peers == [cidr : Cidrs, ip : Ips]

ASSUME SelfAssumption   == Self \in Nodes
ASSUME NoneAssumption   == None \notin Cidrs \cup Ips \cup Objects
ASSUME InitialAssumption == Initial \subseteq [Nodes -> Objects \cup {None}]
ASSUME UpsetsAssumption == MaxUpsets \in Nat

VARIABLES
  objects,   \* the Node objects at the API server
  store,     \* the informer's store: the newest version it has seen
  told,      \* the version last handed to the handlers
  phase,     \* the agent: "down", "syncing" (in Run), "running"
  own,       \* the pod CIDR Run returned
  view,      \* history: the peer each node is in the version last acted
             \* upon, across restarts of the agent but not of the node
  suspect,   \* history: pod CIDRs whose forwarding a failed call, a missed
             \* change or two claimants may have left wrong
  upsets     \* bound: how many upsets there have been

informer  == <<objects, store, told>>
watchVars == <<objects, store, told, phase, own, view, suspect, upsets>>

NoNodes == [n \in Nodes |-> None]

\* Faulty variant for the mutation runs: a missing address is not noticed.
PeerUnchecked(n, v) == IF n # Self /\ v # None /\ v.cidr # None THEN v ELSE None

\* Faulty variant for a mutation run: the own node is not left out.
PeerOrSelf(n, v) == IF v # None /\ v.cidr # None /\ v.ip # None THEN v ELSE None

\* A peer the handlers program: another node with a pod CIDR and an address.
Peer(n, v) ==
  IF n # Self /\ v # None /\ v.cidr # None /\ v.ip # None THEN v ELSE None

\* Node n claims the pod CIDR c in the assignment f of objects or peers.
Claims(f, n, c) == f[n] # None /\ f[n].cidr = c

\* The node controller never gives a pod CIDR to two nodes at once.
Exclusive(f) ==
  \A c \in Cidrs : \A m, n \in Nodes : Claims(f, m, c) /\ Claims(f, n, c) => m = n

WatchInit ==
  /\ objects \in Initial
  /\ Exclusive(objects)
  /\ store = NoNodes
  /\ told = NoNodes
  /\ phase = "down"
  /\ own = None
  /\ view = NoNodes
  /\ suspect = {}
  /\ upsets = 0

\* Bounds what the code has no hold on; upsets count against one budget.
Upset == upsets < MaxUpsets /\ upsets' = upsets + 1

-----------------------------------------------------------------------------
\* A node registers, gets its pod CIDR, changes its address, or is removed.
\* The API server refuses to change a pod CIDR once it is set.
Change(n) ==
  /\ Upset
  /\ \E v \in Objects \cup {None} :
       /\ v # objects[n]
       /\ v # None /\ objects[n] # None => objects[n].cidr \in {None, v.cidr}
       /\ objects' = [objects EXCEPT ![n] = v]
  /\ Exclusive(objects')
  /\ UNCHANGED <<store, told, phase, own, view, suspect>>

\* The informer sees that node n has changed, whoever is there to be told.
Watch(n) ==
  /\ phase # "down"
  /\ objects[n] # store[n]
  /\ store' = [store EXCEPT ![n] = objects[n]]
  /\ UNCHANGED <<objects, told, phase, own, view, suspect, upsets>>

\* Run starts the informer, whose list holds every object.
Start ==
  /\ phase = "down"
  /\ phase' = "syncing"
  /\ store' = objects
  /\ UNCHANGED <<objects, told, own, upsets>>

\* The history when handlers meet the store for the first time: the nodes in
\* "missed" are no longer what the kernel was told before.
Lost(missed) ==
  /\ view' = [n \in Nodes |-> IF n \in missed THEN None ELSE view[n]]
  /\ suspect' = suspect \cup {view[n].cidr : n \in missed}

\* The own node's pod CIDR in the informer's store, if it is there.
OwnPodCIDR == IF store[Self] = None THEN None ELSE store[Self].cidr

\* Run returns the own pod CIDR.
Return ==
  /\ phase = "syncing"
  /\ OwnPodCIDR # None
  /\ phase' = "running"
  /\ own' = OwnPodCIDR
  /\ UNCHANGED <<informer, upsets>>

\* The process ends: the informer and the controller's map are gone.
Exit ==
  /\ phase' = "down"
  /\ own' = None
  /\ store' = NoNodes
  /\ told' = NoNodes
  /\ UNCHANGED objects

\* Run finds no own node, or one without a pod CIDR, and the agent exits.
NoOwnCidr ==
  /\ phase = "syncing"
  /\ OwnPodCIDR = None
  /\ Exit
  /\ UNCHANGED <<view, suspect, upsets>>

Crash == phase # "down" /\ Upset /\ Exit /\ UNCHANGED <<view, suspect>>

\* The node goes down with the agent; the kernel comes back with nothing.
PowerOff == Upset /\ Exit /\ view' = NoNodes /\ suspect' = {}

\* The outcome of the netlink calls of one handler: one upset at most.
Calls(ok) == IF ok THEN UNCHANGED upsets ELSE MayFail /\ Upset

-----------------------------------------------------------------------------
\* A handler is called with the last version and the one in the store.
Notify(n) ==
  /\ told[n] # store[n]
  /\ told' = [told EXCEPT ![n] = store[n]]
  /\ UNCHANGED <<objects, store, phase, own>>

\* Another node claims c in the history.
Contested(n, c) == \E m \in Nodes \ {n} : Claims(view, m, c)

\* The history after a handler call about n: the CIDRs of the calls that
\* failed, or whose CIDR another node claims, become suspect; one set up
\* afresh for n alone is so no longer.
Learn(n, failed, fresh) ==
  LET new == Peer(n, store[n])
      contested == {c \in Cidrs : new # None /\ new.cidr = c /\ Contested(n, c)}
  IN /\ view' = [view EXCEPT ![n] = new]
     /\ suspect' = (suspect \cup failed \cup contested) \ (fresh \ contested)

\* The handlers have been told of every object as it now is.
Settled == phase # "down" /\ store = objects /\ told = store

\* Some other node's object has the pod CIDR c and the address ip.
CalledFor(c, ip) ==
  \E n \in Nodes \ {Self} : objects[n] # None /\ objects[n].cidr = c /\ objects[n].ip = ip

WatchTypeOK ==
  /\ objects \in [Nodes -> Objects \cup {None}]
  /\ store \in [Nodes -> Objects \cup {None}]
  /\ told \in [Nodes -> Objects \cup {None}]
  /\ phase \in {"down", "syncing", "running"}
  /\ own \in Cidrs \cup {None}
  /\ view \in [Nodes -> Peers \cup {None}]
  /\ suspect \subseteq Cidrs
  /\ upsets \in 0..MaxUpsets
=============================================================================
