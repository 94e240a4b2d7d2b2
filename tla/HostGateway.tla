---------------------------- MODULE HostGateway ----------------------------
(***************************************************************************)
(* pkg/nodesync, host-gateway mode: one kernel route per remote node, kept *)
(* by the informer's handlers.  Handlers run one at a time (the listener   *)
(* calls them in turn, under the controller's mutex), from before Run      *)
(* looks for its own node.                                                 *)
(***************************************************************************)
EXTENDS NodeWatch

VARIABLES
  routes,    \* hostGatewayController.routes: node -> route, lost on exit
  kernel     \* the kernel's routes: pod CIDR -> gateway, or None

vars == <<watchVars, routes, kernel>>

Init ==
  /\ WatchInit
  /\ routes = NoNodes
  /\ kernel = [c \in Cidrs |-> None]

-----------------------------------------------------------------------------
\* RouteAdd is exclusive: with a route to the same destination it answers
\* EEXIST, which counts as success whatever that route's gateway is.
addRoute(k, r, ok) ==
  IF r # None /\ ok /\ k[r.cidr] = None THEN [k EXCEPT ![r.cidr] = r.ip] ELSE k

\* Faulty variant for the mutation runs: RouteDel asks for a scope that the
\* kernel's route does not have, and ESRCH passes for success.
delRouteLeaves(k, r, ok) == k

\* RouteDel needs destination and gateway to match; otherwise it answers ESRCH,
\* which counts as success.
delRoute(k, r, ok) ==
  IF r # None /\ ok /\ k[r.cidr] = r.ip THEN [k EXCEPT ![r.cidr] = None] ELSE k

\* A failed call's pod CIDR; a route the kernel did not have before.
Failed(r, ok)   == {c \in Cidrs : r # None /\ r.cidr = c /\ ~ok}
Fresh(k, r, ok) == {c \in Cidrs : r # None /\ r.cidr = c /\ ok /\ k[c] = None}

\* Faulty variants for the mutation runs: onUpdate drops the old entry only
\* with a new one at hand, or does not enter the new one.
EntryKept(n, old, new, added)    == IF new # None /\ added THEN new ELSE routes[n]
EntryMissing(n, old, new, added) == IF old # None THEN None ELSE routes[n]

\* The map's entry after onUpdate.
Entry(n, old, new, added) ==
  IF new # None /\ added THEN new ELSE IF old # None THEN None ELSE routes[n]

-----------------------------------------------------------------------------
onAdd(n) ==
  /\ phase # "down"
  /\ told[n] = None
  /\ Notify(n)
  /\ LET new == Peer(n, store[n]) IN
     \E ok \in BOOLEAN :
       /\ Calls(ok)
       /\ kernel' = addRoute(kernel, new, ok)
       /\ routes' = [routes EXCEPT ![n] = IF new # None /\ ok THEN new ELSE @]
       /\ Learn(n, Failed(new, ok), Fresh(kernel, new, ok))

\* A version with the same pod CIDR and address is no change at all.
onUpdate(n) ==
  /\ phase # "down"
  /\ told[n] # None
  /\ store[n] # None
  /\ Notify(n)
  /\ LET old == Peer(n, told[n])
         new == Peer(n, store[n]) IN
     \E deleted, added \in BOOLEAN :
       LET between == delRoute(kernel, old, deleted) IN
       /\ Calls(deleted /\ added)
       /\ kernel' = addRoute(between, new, added)
       /\ routes' = [routes EXCEPT ![n] = Entry(n, old, new, added)]
       /\ Learn(n, Failed(old, deleted) \cup Failed(new, added),
                   Fresh(between, new, added))

\* The route to delete is the map's, not the object's.
onDelete(n) ==
  /\ phase # "down"
  /\ told[n] # None
  /\ store[n] = None
  /\ Notify(n)
  /\ \E ok \in BOOLEAN :
       /\ Calls(ok)
       /\ kernel' = delRoute(kernel, routes[n], ok)
       /\ routes' = [routes EXCEPT ![n] = None]
       /\ Learn(n, Failed(routes[n], ok), {})

\* Faulty variant for the mutation runs: no DeleteFunc is registered.
HandleNoDelete(n) == onAdd(n) \/ onUpdate(n)

Handle(n) == onAdd(n) \/ onUpdate(n) \/ onDelete(n)

\* Peers whose route no handler will look at again as it is: the node changed
\* or went while the agent did not run.
Missed == {n \in Nodes : view[n] # None /\ Peer(n, objects[n]) # view[n]}

\* The handlers are registered before the informer starts.
Run    == Start /\ Lost(Missed) /\ UNCHANGED <<routes, kernel>>
Synced == Return /\ UNCHANGED <<view, suspect, routes, kernel>>
GiveUp == NoOwnCidr /\ routes' = NoNodes /\ UNCHANGED kernel
Die == Crash /\ routes' = NoNodes /\ UNCHANGED kernel
Reboot == PowerOff /\ routes' = NoNodes /\ kernel' = [c \in Cidrs |-> None]
Outside(n) == Change(n) /\ UNCHANGED <<routes, kernel>>

\* A version that is still to be told stays in the store.
Observe(n) == told[n] = store[n] /\ Watch(n) /\ UNCHANGED <<routes, kernel>>

Next ==
  \/ Run \/ Synced \/ GiveUp \/ Die \/ Reboot
  \/ \E n \in Nodes : Handle(n) \/ Outside(n) \/ Observe(n)

Spec == Init /\ [][Next]_vars

\* The kubelet restarts the agent, Run comes to its result, the informer
\* catches up with the API server and its listener keeps calling the handlers.
Fairness ==
  /\ WF_vars(Run) /\ WF_vars(GiveUp)
  /\ WF_vars(Synced)
  /\ \A n \in Nodes : WF_vars(Observe(n)) /\ WF_vars(Handle(n))

FairSpec == Spec /\ Fairness

-----------------------------------------------------------------------------
TypeOK ==
  /\ WatchTypeOK
  /\ routes \in [Nodes -> Peers \cup {None}]
  /\ kernel \in [Cidrs -> Ips \cup {None}]

\* The kernel's routes are the promised paths: node sync in host-gateway mode
\* (hostgw.go:112-188) implements Forwarding, across restarts that lose the
\* map and with netlink calls that fail.
Promise == INSTANCE Forwarding WITH path <- kernel
RoutesFollowNodes == Promise!Spec

\* The map only ever names the version of a node the handlers last saw
\* (hostgw.go:30-31): a failed update leaves no older route in it, so that a
\* deletion never takes away the route of another version.
MapIsCurrent ==
  \A n \in Nodes : routes[n] # None => routes[n] = Peer(n, told[n])

\* A route the map lacks, or names wrongly, belongs to a suspect pod CIDR: for
\* every other one the map has what onDelete needs to remove the kernel's route.
MapOwnsRoutes ==
  \A n \in Nodes :
    /\ routes[n] # None /\ routes[n].cidr \notin suspect
         => kernel[routes[n].cidr] = routes[n].ip
    /\ told[n] # None /\ Peer(n, told[n]) # None /\ Peer(n, told[n]).cidr \notin suspect
         => routes[n] = Peer(n, told[n])

\* The kernel's routes are those the Node objects call for.
Agrees ==
  \A c \in Cidrs \ suspect :
    /\ \A n \in Nodes :
         Peer(n, objects[n]) # None /\ objects[n].cidr = c => kernel[c] = objects[n].ip
    /\ kernel[c] # None =>
         \E n \in Nodes : Peer(n, objects[n]) # None /\ objects[n].cidr = c

\* When nothing is left to be told the routes are those called for, however
\* adds, updates, deletions and restarts of the agent followed each other: there
\* is no resync that would correct them later (hostgw.go:47, 112-188).  In a
\* cluster in which nothing fails or changes no pod CIDR is exempt: they are
\* exactly the routes of the other nodes.
SettledIsRight ==
  Settled =>
    /\ Agrees
    /\ upsets = 0 => \A c \in Cidrs, ip \in Ips : kernel[c] = ip <=> CalledFor(c, ip)

\* Once Node objects, crashes and failures come to rest, with a pod CIDR for
\* the own node, the routes do too and are the ones called for (nodesync.go:3-5).
RoutesConverge ==
  <>[](objects[Self] # None /\ objects[Self].cidr # None) => <>[]Agrees

\* The comment on routes (hostgw.go:31): the map's entry is the
\* "currently-programmed route".  The code breaks this one.
CurrentlyProgrammed ==
  \A n \in Nodes : routes[n] # None => kernel[routes[n].cidr] = routes[n].ip
=============================================================================
