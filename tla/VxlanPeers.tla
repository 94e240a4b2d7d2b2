----------------------------- MODULE VxlanPeers -----------------------------
(***************************************************************************)
(* pkg/nodesync, VXLAN mode, with the calls it makes in pkg/network: three *)
(* kernel objects per remote node, each made and removed by a netlink call *)
(* of its own.  Handlers are registered only when the cache has synced and *)
(* the device is set up, and run one at a time; what the informer sees     *)
(* before is told to nobody.                                               *)
(***************************************************************************)
EXTENDS NodeWatch

VARIABLES
  peers,     \* vxlanController.peers: node -> peer, lost on exit
  dev,       \* purenet-gw: made?, its MAC (named by the pod CIDR it is
             \* derived from), its VTEP addresses (likewise), up?
  kernel     \* per pod CIDR on purenet-gw: a route, a neighbour entry, and
             \* the node address in the forwarding entry

vars == <<watchVars, peers, dev, kernel>>

NoDevice == [made |-> FALSE, mac |-> None, addrs |-> {}, up |-> FALSE]
NoPaths  == [route |-> {}, arp |-> {}, fdb |-> [c \in Cidrs |-> None]]

Init == WatchInit /\ peers = NoNodes /\ dev = NoDevice /\ kernel = NoPaths

-----------------------------------------------------------------------------
\* Faulty variant for the mutation runs: EEXIST of AddrAdd ends the call.
SetupUntilThere(c, done) ==
  [made  |-> dev.made \/ done >= 1,
   mac   |-> IF done >= 2 THEN c ELSE dev.mac,
   addrs |-> IF done >= 3 THEN dev.addrs \cup {c} ELSE dev.addrs,
   up    |-> dev.up \/ (done >= 4 /\ c \notin dev.addrs)]

\* SetupVXLAN up to and including its first "done" netlink calls: LinkAdd (an
\* existing device will do), LinkSetHardwareAddr, AddrAdd (which leaves the
\* other addresses), LinkSetUp.
SetupVXLAN(c, done) ==
  [made  |-> dev.made \/ done >= 1,
   mac   |-> IF done >= 2 THEN c ELSE dev.mac,
   addrs |-> IF done >= 3 THEN dev.addrs \cup {c} ELSE dev.addrs,
   up    |-> dev.up \/ done >= 4]

\* Faulty variant for the mutation runs: EEXIST ends the call, the peer is taken
\* as there when its route is.
AddPeerOnce(k, r, done) ==
  IF r = None \/ r.cidr \in k.route THEN k
  ELSE [route |-> IF done >= 1 THEN k.route \cup {r.cidr} ELSE k.route,
        arp   |-> IF done >= 2 THEN k.arp \cup {r.cidr} ELSE k.arp,
        fdb   |-> IF done >= 3 THEN [k.fdb EXCEPT ![r.cidr] = r.ip] ELSE k.fdb]

\* Faulty variant for a mutation run: the neighbour entry is forgotten.
AddPeerWithoutArp(k, r, done) ==
  IF r = None THEN k
  ELSE [route |-> IF done >= 1 THEN k.route \cup {r.cidr} ELSE k.route,
        arp   |-> k.arp,
        fdb   |-> IF done >= 3 THEN [k.fdb EXCEPT ![r.cidr] = r.ip] ELSE k.fdb]

\* AddVXLANPeer up to and including its first "done" calls: the route (EEXIST
\* counts as success; no other gateway is possible), then two upserts.
AddVXLANPeer(k, r, done) ==
  IF r = None THEN k
  ELSE [route |-> IF done >= 1 THEN k.route \cup {r.cidr} ELSE k.route,
        arp   |-> IF done >= 2 THEN k.arp \cup {r.cidr} ELSE k.arp,
        fdb   |-> IF done >= 3 THEN [k.fdb EXCEPT ![r.cidr] = r.ip] ELSE k.fdb]

\* Faulty variant for the mutation runs: the forwarding entry is left.
DelPeerHalf(k, r, done) ==
  IF r = None THEN k
  ELSE [k EXCEPT !.route = IF done >= 1 THEN @ \ {r.cidr} ELSE @,
                 !.arp   = IF done >= 2 THEN @ \ {r.cidr} ELSE @]

\* DelVXLANPeer likewise.  A missing route is ESRCH and passes; a missing
\* neighbour entry is ENOENT, which the code takes for a failure, so that the
\* forwarding entry, removed only for the address it has, is not reached.
DelVXLANPeer(k, r, done) ==
  IF r = None THEN k
  ELSE [route |-> IF done >= 1 THEN k.route \ {r.cidr} ELSE k.route,
        arp   |-> IF done >= 2 THEN k.arp \ {r.cidr} ELSE k.arp,
        fdb   |-> IF done >= 3 /\ r.cidr \in k.arp /\ k.fdb[r.cidr] = r.ip
                  THEN [k.fdb EXCEPT ![r.cidr] = None] ELSE k.fdb]

\* The kernel refuses a route by way of an address of its own: the network
\* address of a pod CIDR this node has or had.
Refused(r) == r # None /\ r.cidr \in dev.addrs

\* How far the calls of addPeer for r come: none, if the kernel refuses.
AddDone(r) == IF Refused(r) THEN {0} ELSE 0..3

\* Every call succeeded, or there was none to make.
Ok(r, done) == r = None \/ done = 3

Failed(r, done) == {c \in Cidrs : r # None /\ r.cidr = c /\ done # 3}
Fresh(r, done)  == {c \in Cidrs : r # None /\ r.cidr = c /\ done = 3}

\* Faulty variant for the mutation runs: onUpdate does not enter the new peer.
EntryMissing(n, old, new, ok) == IF old # None THEN None ELSE peers[n]

\* The map's entry after onUpdate.
Entry(n, old, new, ok) ==
  IF new # None /\ ok THEN new ELSE IF old # None THEN None ELSE peers[n]

-----------------------------------------------------------------------------
onAdd(n) ==
  /\ phase = "running"
  /\ told[n] = None
  /\ Notify(n)
  /\ LET new == Peer(n, store[n]) IN
     \E done \in AddDone(new) :
       /\ Calls(Ok(new, done) \/ Refused(new))
       /\ kernel' = AddVXLANPeer(kernel, new, done)
       /\ peers' = [peers EXCEPT ![n] = IF new # None /\ done = 3 THEN new ELSE @]
       /\ Learn(n, Failed(new, done), Fresh(new, done))
  /\ UNCHANGED dev

\* A version with the same pod CIDR and address is no change at all.
onUpdate(n) ==
  /\ phase = "running"
  /\ told[n] # None
  /\ store[n] # None
  /\ Notify(n)
  /\ LET old == Peer(n, told[n])
         new == Peer(n, store[n]) IN
     \E gone \in 0..3, done \in AddDone(new) :
       /\ Calls(Ok(old, gone) /\ (Ok(new, done) \/ Refused(new)))
       /\ kernel' = AddVXLANPeer(DelVXLANPeer(kernel, old, gone), new, done)
       /\ peers' = [peers EXCEPT ![n] = Entry(n, old, new, done = 3)]
       /\ Learn(n, Failed(old, gone) \cup Failed(new, done), Fresh(new, done))
  /\ UNCHANGED dev

\* The peer to delete is the map's, not the object's.
onDelete(n) ==
  /\ phase = "running"
  /\ told[n] # None
  /\ store[n] = None
  /\ Notify(n)
  /\ \E gone \in 0..3 :
       /\ Calls(Ok(peers[n], gone))
       /\ kernel' = DelVXLANPeer(kernel, peers[n], gone)
       /\ peers' = [peers EXCEPT ![n] = None]
       /\ Learn(n, Failed(peers[n], gone), {})
  /\ UNCHANGED dev

\* Faulty variant for the mutation runs: no UpdateFunc is registered.
HandleNoUpdate(n) == onAdd(n) \/ onDelete(n)

Handle(n) == onAdd(n) \/ onUpdate(n) \/ onDelete(n)

-----------------------------------------------------------------------------
\* Peers that changed their pod CIDR or went since the handlers were last there
\* to see it: between two runs of the agent, or before AddEventHandler.  One
\* that only changed its address will be put right by onAdd.
Missed ==
  {n \in Nodes :
     /\ view[n] # None
     /\ Peer(n, store[n]) = None \/ store[n].cidr # view[n].cidr}

Run == Start /\ UNCHANGED <<view, suspect, peers, dev, kernel>>

\* The own node is looked up, the device made, and the handlers registered, for
\* which every object in the store is an addition.  It is one step: changes of
\* other nodes meanwhile might as well come before it, those of the own node,
\* of no concern to the handlers, after it.
Ready ==
  /\ Return
  /\ Lost(Missed)
  /\ dev' = SetupVXLAN(OwnPodCIDR, 4)
  /\ UNCHANGED <<peers, kernel>>

\* SetupVXLAN fails part of the way, or the handlers are not registered any
\* more, and the agent exits.
SetupFails ==
  /\ phase = "syncing"
  /\ OwnPodCIDR # None
  /\ MayFail /\ Upset
  /\ Exit
  /\ \E done \in 0..4 : dev' = SetupVXLAN(OwnPodCIDR, done)
  /\ UNCHANGED <<view, suspect, peers, kernel>>

GiveUp == NoOwnCidr /\ peers' = NoNodes /\ UNCHANGED <<dev, kernel>>
Die == Crash /\ peers' = NoNodes /\ UNCHANGED <<dev, kernel>>
Reboot == PowerOff /\ peers' = NoNodes /\ dev' = NoDevice /\ kernel' = NoPaths
Outside(n) == Change(n) /\ UNCHANGED <<peers, dev, kernel>>

\* With handlers registered a version that is still to be told stays in the
\* store; before, the store follows the API server unseen.
Observe(n) ==
  /\ phase = "running" => told[n] = store[n]
  /\ Watch(n)
  /\ UNCHANGED <<peers, dev, kernel>>

Next ==
  \/ Run \/ Ready \/ SetupFails \/ GiveUp \/ Die \/ Reboot
  \/ \E n \in Nodes : Handle(n) \/ Outside(n) \/ Observe(n)

Spec == Init /\ [][Next]_vars

\* As for HostGateway.
Fairness ==
  /\ WF_vars(Run) /\ WF_vars(GiveUp)
  /\ WF_vars(Ready)
  /\ \A n \in Nodes : WF_vars(Observe(n)) /\ WF_vars(Handle(n))

FairSpec == Spec /\ Fairness

-----------------------------------------------------------------------------
TypeOK ==
  /\ WatchTypeOK
  /\ peers \in [Nodes -> Peers \cup {None}]
  /\ dev \in [made : BOOLEAN, mac : Cidrs \cup {None},
              addrs : SUBSET Cidrs, up : BOOLEAN]
  /\ kernel \in [route : SUBSET Cidrs, arp : SUBSET Cidrs,
                 fdb : [Cidrs -> Ips \cup {None}]]

\* Where the kernel sends the traffic of a pod CIDR.
Path == [c \in Cidrs |-> IF c \in kernel.route \cap kernel.arp
                        THEN kernel.fdb[c] ELSE None]

\* VXLAN mode implements Forwarding (vxlan.go:138-214 over AddVXLANPeer and
\* DelVXLANPeer).  Unlike in host-gateway mode, an address that changed while
\* the agent did not run, or a call that failed, is put right by the next add.
Promise == INSTANCE Forwarding WITH path <- Path
PathsFollowNodes == Promise!Spec

\* The three kernel objects of a pod CIDR that is not suspect are there
\* together or not at all (network/vxlan.go:98-182), whichever adds, updates,
\* deletions, restarts and failures of other calls there have been.
WholePeers ==
  \A c \in Cidrs \ suspect :
    /\ c \in kernel.route <=> c \in kernel.arp
    /\ c \in kernel.arp <=> kernel.fdb[c] # None

\* The map names the version of a node the handlers last saw, and has every
\* such peer whose pod CIDR is not suspect: onDelete and a later onUpdate
\* remove what was made (vxlan.go:40, 195-214).
MapOwnsPeers ==
  \A n \in Nodes :
    /\ peers[n] # None => peers[n] = Peer(n, told[n])
    /\ told[n] # None /\ Peer(n, told[n]) # None /\ Peer(n, told[n]).cidr \notin suspect
         => peers[n] = Peer(n, told[n])

\* While handlers run, purenet-gw is up with the MAC the peers compute for the
\* pod CIDR Run returned (network/vxlan.go:63-67), also after a restart with
\* another pod CIDR or after a setup that ended half-way (network/vxlan.go:74-80).
DeviceReady ==
  phase = "running" => dev.made /\ dev.up /\ dev.mac = own /\ own \in dev.addrs

\* The kernel's paths are those the Node objects call for.
Agrees ==
  \A c \in Cidrs \ suspect :
    /\ \A n \in Nodes :
         Peer(n, objects[n]) # None /\ objects[n].cidr = c => Path[c] = objects[n].ip
    /\ Path[c] # None =>
         \E n \in Nodes : Peer(n, objects[n]) # None /\ objects[n].cidr = c

\* As in HostGateway: when handlers are registered and nothing is left to be
\* told the paths are right, in whatever order changes, restarts and failures
\* came (vxlan.go:92, 138-214).  A peer that went unseen, before its agent ran or
\* before AddEventHandler (vxlan.go:58-94), is an exception: its pod CIDR is
\* suspect.  In a calm cluster there is none, not for a pod CIDR that the kernel
\* refuses either: no stale VTEP address is in the way (network/vxlan.go:75).
SettledIsRight ==
  Settled /\ phase = "running" =>
    /\ Agrees
    /\ upsets = 0 => \A c \in Cidrs, ip \in Ips : Path[c] = ip <=> CalledFor(c, ip)

\* As HostGateway's RoutesConverge, with the VXLAN paths.
PathsConverge ==
  <>[](objects[Self] # None /\ objects[Self].cidr # None) => <>[]Agrees

\* The comment on DelVXLANPeer (network/vxlan.go:145-146): all deletions are
\* best effort and a missing entry is success, so a deletion none of whose
\* calls failed leaves none of the entries it is about.  The code breaks this.
BestEffortDelete ==
  [][\A n \in Nodes :
       onDelete(n) /\ peers[n] # None /\ UNCHANGED upsets =>
         /\ peers[n].cidr \notin kernel'.route \cup kernel'.arp
         /\ kernel'.fdb[peers[n].cidr] # peers[n].ip]_vars
=============================================================================
