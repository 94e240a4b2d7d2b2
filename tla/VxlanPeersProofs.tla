-------------------------- MODULE VxlanPeersProofs --------------------------
(***************************************************************************)
(* Proofs about VxlanPeers for any nodes, pod CIDRs and addresses, any     *)
(* initial cluster and any number of upsets: its invariants, and that the  *)
(* module implements Forwarding.                                           *)
(***************************************************************************)
EXTENDS VxlanPeers, TLAPS

\* What the handlers were told last is what the history has for the node.  Once
\* handlers are registered, a node they were not told of yet has kept its pod
\* CIDR, or was dropped as missed; until then the store may be anything.
HistoryInv ==
  \A n \in Nodes :
    /\ told[n] # None => view[n] = Peer(n, told[n])
    /\ phase = "running" /\ told[n] = None /\ view[n] # None =>
         Peer(n, store[n]) # None /\ Peer(n, store[n]).cidr = view[n].cidr

\* Before the handlers are registered nothing was told or entered.
IdleInv == phase # "running" => told = NoNodes /\ peers = NoNodes

\* A pod CIDR that is not suspect has one claimant at most, and its path.
ClaimInv ==
  \A c \in Cidrs \ suspect :
    /\ \A m, n \in Nodes : Claims(view, m, c) /\ Claims(view, n, c) => m = n
    /\ Promise!Right(c)

\* The map names the version told last, and the peer of every node told of.
EntryInv ==
  \A n \in Nodes :
    /\ peers[n] # None => peers[n] = Peer(n, told[n])
    /\ told[n] # None /\ view[n] # None /\ view[n].cidr \notin suspect => peers[n] = view[n]

IInv == TypeOK /\ HistoryInv /\ IdleInv /\ WholePeers /\ ClaimInv /\ EntryInv /\ DeviceReady

\* What the kernel can hold for the pod CIDRs.
Kernels == [route : SUBSET Cidrs, arp : SUBSET Cidrs, fdb : [Cidrs -> Ips \cup {None}]]

\* All three kernel objects of pod CIDR c, by way of address i; none of them.
Whole(k, c, i) == c \in k.route /\ c \in k.arp /\ k.fdb[c] = i
Bare(k, c)     == c \notin k.route /\ c \notin k.arp /\ k.fdb[c] = None

-----------------------------------------------------------------------------
\* Peers have a pod CIDR and an address; None is none of these.
LEMMA PeerFacts ==
  /\ None \notin Cidrs /\ None \notin Ips /\ None \notin Peers /\ None \notin Objects
  /\ \A n \in Nodes : Peer(n, None) = None
  /\ \A n \in Nodes, v \in Objects \cup {None} : Peer(n, v) \in Peers \cup {None}
  /\ \A p \in Peers : p.cidr \in Cidrs /\ p.ip \in Ips
<1>1. None \notin Peers
  BY NoneAssumption DEF Peers, Objects
<1>2. QED
  BY <1>1, NoneAssumption DEF Peer, Peers, Objects

\* The initial state satisfies the invariant.
LEMMA InitIInv == Init => IInv
<1> SUFFICES ASSUME Init PROVE IInv
  OBVIOUS
<1>1. TypeOK
  BY InitialAssumption, UpsetsAssumption
  DEF Init, WatchInit, TypeOK, WatchTypeOK, NoNodes, NoDevice, NoPaths
<1>2. QED
  BY <1>1, PeerFacts
  DEF Init, WatchInit, IInv, HistoryInv, IdleInv, WholePeers, ClaimInv, EntryInv,
      DeviceReady, NoNodes, NoPaths, Claims, Promise!Right, Path

\* A pod CIDR that is not suspect has either everything, by way of the one node
\* that claims it, or nothing.
LEMMA WholeOrBare ==
  ASSUME IInv, NEW c \in Cidrs, c \notin suspect
  PROVE  /\ \A n \in Nodes : Claims(view, n, c) => Whole(kernel, c, view[n].ip)
         /\ (\A n \in Nodes : ~Claims(view, n, c)) => Bare(kernel, c)
<1>1. /\ c \in kernel.route <=> c \in kernel.arp
      /\ c \in kernel.arp <=> kernel.fdb[c] # None
      /\ Promise!Right(c)
      /\ view \in [Nodes -> Peers \cup {None}]
  BY DEF IInv, WholePeers, ClaimInv, TypeOK, WatchTypeOK
<1>2. Path[c] = IF c \in kernel.route /\ c \in kernel.arp THEN kernel.fdb[c] ELSE None
  BY DEF Path
<1>3. \A n \in Nodes : Claims(view, n, c) => view[n].ip # None
  BY <1>1, PeerFacts DEF Claims
<1>4. QED
  BY <1>1, <1>2, <1>3 DEF Promise!Right, Claims, Whole, Bare

\* The other way round, of a state's paths.
LEMMA PathOf ==
  ASSUME NEW c \in Cidrs
  PROVE  /\ \A i : Whole(kernel, c, i) => Path[c] = i
         /\ Bare(kernel, c) => Path[c] = None
BY DEF Whole, Bare, Path

\* Peer calls act on the objects of one pod CIDR and keep the type: from k to
\* a for adding peer r, from k to d for deleting it.
Added(k, r, done, a) ==
  /\ a \in Kernels
  /\ \A c \in Cidrs : ~(r # None /\ r.cidr = c) =>
       /\ c \in a.route <=> c \in k.route
       /\ c \in a.arp <=> c \in k.arp
       /\ a.fdb[c] = k.fdb[c]
  /\ r # None /\ done = 3 => Whole(a, r.cidr, r.ip)

Deleted(k, r, done, d) ==
  /\ d \in Kernels
  /\ \A c \in Cidrs : ~(r # None /\ r.cidr = c) =>
       /\ c \in d.route <=> c \in k.route
       /\ c \in d.arp <=> c \in k.arp
       /\ d.fdb[c] = k.fdb[c]
  /\ r # None /\ done = 3 /\ Whole(k, r.cidr, r.ip) => Bare(d, r.cidr)

LEMMA AddCalls ==
  ASSUME NEW k \in Kernels, NEW r \in Peers \cup {None}, NEW done \in 0..3
  PROVE  Added(k, r, done, AddVXLANPeer(k, r, done))
BY PeerFacts DEF AddVXLANPeer, Kernels, Added, Whole

LEMMA DelCalls ==
  ASSUME NEW k \in Kernels, NEW r \in Peers \cup {None}, NEW done \in 0..3
  PROVE  Deleted(k, r, done, DelVXLANPeer(k, r, done))
BY PeerFacts DEF DelVXLANPeer, Kernels, Deleted, Whole, Bare

\* What every handler does: its notification, one entry of the map, and a
\* change of the objects and of the blame for the node's own pod CIDRs only.
Effect(n) ==
  LET new == Peer(n, store[n]) IN
  /\ Notify(n)
  /\ view' = [view EXCEPT ![n] = new]
  /\ suspect' \subseteq Cidrs
  /\ kernel' \in Kernels
  /\ upsets' \in 0..MaxUpsets
  /\ dev' = dev
  /\ \E e \in {None, new} : peers' = [peers EXCEPT ![n] = e]
  /\ \A c \in Cidrs : ~Claims(view, n, c) /\ ~(new # None /\ new.cidr = c) =>
       /\ c \in kernel'.route <=> c \in kernel.route
       /\ c \in kernel'.arp <=> c \in kernel.arp
       /\ kernel'.fdb[c] = kernel.fdb[c]
       /\ c \in suspect' <=> c \in suspect
  /\ \A c \in Cidrs \ suspect' : Claims(view, n, c) /\ ~(new # None /\ new.cidr = c) =>
       c \notin suspect /\ Bare(kernel', c)
  /\ new # None /\ new.cidr \notin suspect' =>
       /\ \A m \in Nodes \ {n} : ~Claims(view, m, new.cidr)
       /\ Whole(kernel', new.cidr, new.ip)
       /\ peers'[n] = new

\* The history after a handler call, pod CIDR by pod CIDR.
History(n, new, failed, fresh) ==
  /\ view' = [view EXCEPT ![n] = new]
  /\ suspect' \subseteq Cidrs
  /\ \A c \in Cidrs : c \in suspect' <=>
       \/ (c \in suspect \/ c \in failed) /\ c \notin fresh
       \/ new # None /\ new.cidr = c /\ Contested(n, c)

LEMMA Learned ==
  ASSUME TypeOK, NEW n \in Nodes, NEW failed \in SUBSET Cidrs, NEW fresh \in SUBSET Cidrs,
         Learn(n, failed, fresh)
  PROVE  History(n, Peer(n, store[n]), failed, fresh)
BY DEF Learn, TypeOK, WatchTypeOK, History

\* Adding a node completes whatever part of its peer the kernel still has.
LEMMA AddEffect ==
  ASSUME IInv, NEW n \in Nodes, onAdd(n)
  PROVE  Effect(n)
<1> DEFINE new == Peer(n, store[n])
<1>1. /\ told[n] = None /\ phase = "running" /\ Notify(n) /\ TypeOK
      /\ new \in Peers \cup {None}
      /\ peers[n] = None /\ peers \in [Nodes -> Peers \cup {None}]
      /\ view[n] # None => new # None /\ new.cidr = view[n].cidr
      /\ upsets \in 0..MaxUpsets /\ dev' = dev
  BY PeerFacts DEF onAdd, IInv, TypeOK, WatchTypeOK, EntryInv, HistoryInv
<1>2. kernel \in Kernels
  BY DEF IInv, TypeOK, Kernels
<1>3. PICK done \in AddDone(new) :
        /\ Calls(Ok(new, done) \/ Refused(new))
        /\ kernel' = AddVXLANPeer(kernel, new, done)
        /\ peers' = [peers EXCEPT ![n] = IF new # None /\ done = 3 THEN new ELSE @]
        /\ Learn(n, Failed(new, done), Fresh(new, done))
  BY DEF onAdd
<1>range. done \in 0..3
  BY DEF AddDone
<1>4. upsets' \in 0..MaxUpsets
  BY <1>1, <1>3, UpsetsAssumption DEF Calls, Upset
<1> HIDE DEF new
<1>5. /\ view' = [view EXCEPT ![n] = new]
      /\ suspect' \subseteq Cidrs
      /\ \A c \in Cidrs : c \in suspect' <=>
           \/ c \in suspect /\ ~(new # None /\ new.cidr = c /\ done = 3)
           \/ new # None /\ new.cidr = c /\ (done # 3 \/ Contested(n, c))
  <2>1. Failed(new, done) \in SUBSET Cidrs /\ Fresh(new, done) \in SUBSET Cidrs
    BY DEF Failed, Fresh
  <2>abbr. new = Peer(n, store[n])
    BY DEF new
  <2>2. History(n, new, Failed(new, done), Fresh(new, done))
    BY <1>1, <1>3, <2>abbr, <2>1, Learned
  <2>3. QED
    BY <2>2 DEF Failed, Fresh, History
<1>6. /\ kernel' \in Kernels
      /\ \A c \in Cidrs : ~(new # None /\ new.cidr = c) =>
           /\ c \in kernel'.route <=> c \in kernel.route
           /\ c \in kernel'.arp <=> c \in kernel.arp
           /\ kernel'.fdb[c] = kernel.fdb[c]
      /\ new # None /\ done = 3 => Whole(kernel', new.cidr, new.ip)
  <2>1. new \in Peers \cup {None}
    BY <1>1
  <2>2. Added(kernel, new, done, AddVXLANPeer(kernel, new, done))
    BY <1>range, <1>2, <2>1, AddCalls
  <2>3. QED
    BY <1>3, <2>2 DEF Added
<1>7. \E e \in {None, new} : peers' = [peers EXCEPT ![n] = e]
  BY <1>1, <1>3
<1>8. \A c \in Cidrs : ~(Claims(view, n, c) /\ ~(new # None /\ new.cidr = c))
  BY <1>1 DEF Claims
<1>9. ASSUME new # None, new.cidr \notin suspect'
      PROVE  /\ \A m \in Nodes \ {n} : ~Claims(view, m, new.cidr)
             /\ Whole(kernel', new.cidr, new.ip)
             /\ peers'[n] = new
  <2>1. new.cidr \in Cidrs
    BY <1>1, <1>9, PeerFacts
  <2>2. done = 3 /\ ~Contested(n, new.cidr)
    BY <1>5, <1>9, <2>1
  <2>3. QED
    BY <1>1, <1>3, <1>6, <1>9, <2>2 DEF Contested
<1>10. QED
  BY <1>1, <1>4, <1>5, <1>6, <1>7, <1>8, <1>9 DEF Effect, new

\* Replacing the peer of a node by that of its new version.
LEMMA UpdateEffect ==
  ASSUME IInv, NEW n \in Nodes, onUpdate(n)
  PROVE  Effect(n)
<1> DEFINE old == Peer(n, told[n])
           new == Peer(n, store[n])
<1>1. /\ told[n] # None /\ phase = "running" /\ Notify(n) /\ TypeOK
      /\ new \in Peers \cup {None} /\ old \in Peers \cup {None}
      /\ view[n] = old
      /\ peers[n] \in {None, old} /\ peers \in [Nodes -> Peers \cup {None}]
      /\ upsets \in 0..MaxUpsets /\ dev' = dev
  BY PeerFacts DEF onUpdate, IInv, TypeOK, WatchTypeOK, EntryInv, HistoryInv
<1>2. kernel \in Kernels
  BY DEF IInv, TypeOK, Kernels
<1>3. PICK gone \in 0..3, done \in AddDone(new) :
        /\ Calls(Ok(old, gone) /\ (Ok(new, done) \/ Refused(new)))
        /\ kernel' = AddVXLANPeer(DelVXLANPeer(kernel, old, gone), new, done)
        /\ peers' = [peers EXCEPT ![n] = Entry(n, old, new, done = 3)]
        /\ Learn(n, Failed(old, gone) \cup Failed(new, done), Fresh(new, done))
  BY DEF onUpdate
<1>range. done \in 0..3
  BY DEF AddDone
<1>4. upsets' \in 0..MaxUpsets
  BY <1>1, <1>3, UpsetsAssumption DEF Calls, Upset
<1> DEFINE between == DelVXLANPeer(kernel, old, gone)
<1> HIDE DEF old, new
<1>5. /\ view' = [view EXCEPT ![n] = new]
      /\ suspect' \subseteq Cidrs
      /\ \A c \in Cidrs : c \in suspect' <=>
           /\ \/ c \in suspect
              \/ old # None /\ old.cidr = c /\ gone # 3
              \/ new # None /\ new.cidr = c /\ (done # 3 \/ Contested(n, c))
           /\ ~(new # None /\ new.cidr = c /\ done = 3) \/ Contested(n, c)
  <2>1. Failed(old, gone) \cup Failed(new, done) \in SUBSET Cidrs /\ Fresh(new, done) \in SUBSET Cidrs
    BY DEF Failed, Fresh
  <2>abbr. new = Peer(n, store[n])
    BY DEF new
  <2>2. History(n, new, Failed(old, gone) \cup Failed(new, done), Fresh(new, done))
    BY <1>1, <1>3, <2>abbr, <2>1, Learned
  <2>3. QED
    BY <2>2 DEF Failed, Fresh, History
<1>6. /\ between \in Kernels
      /\ \A c \in Cidrs : ~(old # None /\ old.cidr = c) =>
           /\ c \in between.route <=> c \in kernel.route
           /\ c \in between.arp <=> c \in kernel.arp
           /\ between.fdb[c] = kernel.fdb[c]
      /\ old # None /\ gone = 3 /\ Whole(kernel, old.cidr, old.ip) => Bare(between, old.cidr)
  <2>1. old \in Peers \cup {None}
    BY <1>1
  <2>2. Deleted(kernel, old, gone, between)
    BY <1>2, <2>1, DelCalls
  <2>3. QED
    BY <2>2 DEF Deleted
<1>7. kernel' = AddVXLANPeer(between, new, done)
  BY <1>3
<1> HIDE DEF between
<1>8. /\ kernel' \in Kernels
      /\ \A c \in Cidrs : ~(new # None /\ new.cidr = c) =>
           /\ c \in kernel'.route <=> c \in between.route
           /\ c \in kernel'.arp <=> c \in between.arp
           /\ kernel'.fdb[c] = between.fdb[c]
      /\ new # None /\ done = 3 => Whole(kernel', new.cidr, new.ip)
  <2>1. new \in Peers \cup {None} /\ between \in Kernels
    BY <1>1, <1>6
  <2>2. Added(between, new, done, AddVXLANPeer(between, new, done))
    BY <1>range, <2>1, AddCalls
  <2>3. QED
    BY <1>7, <2>2 DEF Added
<1>9. \E e \in {None, new} : peers' = [peers EXCEPT ![n] = e]
  BY <1>1, <1>3 DEF Entry
<1>10. \A c \in Cidrs : Claims(view, n, c) <=> old # None /\ old.cidr = c
  BY <1>1 DEF Claims
<1>11. \A c \in Cidrs : ~Claims(view, n, c) /\ ~(new # None /\ new.cidr = c) =>
         /\ c \in kernel'.route <=> c \in kernel.route
         /\ c \in kernel'.arp <=> c \in kernel.arp
         /\ kernel'.fdb[c] = kernel.fdb[c]
         /\ c \in suspect' <=> c \in suspect
  BY <1>5, <1>6, <1>8, <1>10
<1>12. ASSUME NEW c \in Cidrs, c \notin suspect', Claims(view, n, c), ~(new # None /\ new.cidr = c)
       PROVE  c \notin suspect /\ Bare(kernel', c)
  <2>1. c \notin suspect /\ gone = 3 /\ old # None /\ old.cidr = c
    BY <1>5, <1>10, <1>12
  <2>2. Whole(kernel, c, old.ip)
    BY <1>1, <1>12, <2>1, WholeOrBare
  <2>3. QED
    BY <1>6, <1>8, <1>12, <2>1, <2>2 DEF Bare
<1>13. ASSUME new # None, new.cidr \notin suspect'
       PROVE  /\ \A m \in Nodes \ {n} : ~Claims(view, m, new.cidr)
              /\ Whole(kernel', new.cidr, new.ip)
              /\ peers'[n] = new
  <2>1. new.cidr \in Cidrs
    BY <1>1, <1>13, PeerFacts
  <2>2. done = 3 /\ ~Contested(n, new.cidr)
    BY <1>5, <1>13, <2>1
  <2>3. peers'[n] = new
    BY <1>1, <1>3, <1>13, <2>2 DEF Entry
  <2>4. QED
    BY <1>8, <1>13, <2>2, <2>3 DEF Contested
<1>14. QED
  BY <1>1, <1>4, <1>5, <1>8, <1>9, <1>11, <1>12, <1>13 DEF Effect, new

\* Removing the peer of a node that is gone.
LEMMA DeleteEffect ==
  ASSUME IInv, NEW n \in Nodes, onDelete(n)
  PROVE  Effect(n)
<1> DEFINE r == peers[n]
<1>1. /\ told[n] # None /\ store[n] = None /\ phase = "running" /\ Notify(n) /\ TypeOK
      /\ Peer(n, store[n]) = None
      /\ r \in Peers \cup {None} /\ r \in {None, view[n]}
      /\ upsets \in 0..MaxUpsets /\ dev' = dev
  BY PeerFacts DEF onDelete, IInv, TypeOK, WatchTypeOK, EntryInv, HistoryInv
<1>2. kernel \in Kernels
  BY DEF IInv, TypeOK, Kernels
<1>3. PICK gone \in 0..3 :
        /\ Calls(Ok(r, gone))
        /\ kernel' = DelVXLANPeer(kernel, r, gone)
        /\ peers' = [peers EXCEPT ![n] = None]
        /\ Learn(n, Failed(r, gone), {})
  BY DEF onDelete
<1>4. upsets' \in 0..MaxUpsets
  BY <1>1, <1>3, UpsetsAssumption DEF Calls, Upset
<1> HIDE DEF r
<1>5. /\ view' = [view EXCEPT ![n] = None]
      /\ suspect' \subseteq Cidrs
      /\ \A c \in Cidrs : c \in suspect' <=>
           c \in suspect \/ (r # None /\ r.cidr = c /\ gone # 3)
  <2>1. Failed(r, gone) \in SUBSET Cidrs
    BY DEF Failed
  <2>2. History(n, None, Failed(r, gone), {})
    BY <1>1, <1>3, <2>1, Learned
  <2>3. QED
    BY <2>2 DEF Failed, History
<1>6. /\ kernel' \in Kernels
      /\ \A c \in Cidrs : ~(r # None /\ r.cidr = c) =>
           /\ c \in kernel'.route <=> c \in kernel.route
           /\ c \in kernel'.arp <=> c \in kernel.arp
           /\ kernel'.fdb[c] = kernel.fdb[c]
      /\ r # None /\ gone = 3 /\ Whole(kernel, r.cidr, r.ip) => Bare(kernel', r.cidr)
  <2>1. r \in Peers \cup {None}
    BY <1>1
  <2>2. Deleted(kernel, r, gone, DelVXLANPeer(kernel, r, gone))
    BY <1>2, <2>1, DelCalls
  <2>3. QED
    BY <1>3, <2>2 DEF Deleted
<1>7. \A c \in Cidrs : ~Claims(view, n, c) =>
        /\ c \in kernel'.route <=> c \in kernel.route
        /\ c \in kernel'.arp <=> c \in kernel.arp
        /\ kernel'.fdb[c] = kernel.fdb[c]
        /\ c \in suspect' <=> c \in suspect
  BY <1>1, <1>5, <1>6 DEF Claims
<1>8. ASSUME NEW c \in Cidrs, c \notin suspect', Claims(view, n, c)
      PROVE  c \notin suspect /\ Bare(kernel', c)
  <2>1. c \notin suspect
    BY <1>5, <1>8
  <2>2. r = view[n] /\ r # None /\ r.cidr = c
    BY <1>1, <1>8, <2>1 DEF IInv, EntryInv, Claims, r
  <2>3. gone = 3
    BY <1>5, <1>8, <2>2
  <2>4. Whole(kernel, c, r.ip)
    BY <1>8, <2>1, <2>2, WholeOrBare
  <2>5. QED
    BY <1>6, <2>1, <2>2, <2>3, <2>4
<1>9. QED
  BY <1>1, <1>3, <1>4, <1>5, <1>6, <1>7, <1>8 DEF Effect

LEMMA HandleEffect ==
  ASSUME IInv, NEW n \in Nodes, Handle(n)
  PROVE  Effect(n) /\ phase = "running"
BY AddEffect, UpdateEffect, DeleteEffect DEF Handle, onAdd, onUpdate, onDelete

-----------------------------------------------------------------------------

\* What a handler does keeps the invariant.
LEMMA EffectIInv ==
  ASSUME IInv, NEW n \in Nodes, phase = "running", Effect(n)
  PROVE  IInv'
<1> DEFINE new == Peer(n, store[n])
<1>1. /\ store \in [Nodes -> Objects \cup {None}] /\ told \in [Nodes -> Objects \cup {None}]
      /\ view \in [Nodes -> Peers \cup {None}]
      /\ peers \in [Nodes -> Peers \cup {None}]
      /\ new \in Peers \cup {None}
  BY PeerFacts DEF IInv, TypeOK, WatchTypeOK
<1>2. /\ told' = [told EXCEPT ![n] = store[n]]
      /\ store' = store /\ phase' = phase /\ objects' = objects /\ own' = own /\ dev' = dev
      /\ view' = [view EXCEPT ![n] = new]
  BY DEF Effect, Notify
<1>3. PICK e \in {None, new} : peers' = [peers EXCEPT ![n] = e]
  BY DEF Effect
<1>4. /\ view'[n] = new /\ told'[n] = store[n] /\ peers'[n] \in {None, new}
      /\ \A m \in Nodes \ {n} : /\ view'[m] = view[m] /\ told'[m] = told[m]
                                /\ peers'[m] = peers[m]
  BY <1>1, <1>2, <1>3
<1>5. TypeOK'
  BY <1>1, <1>2, <1>3 DEF IInv, TypeOK, WatchTypeOK, Effect, Kernels
<1>6. HistoryInv'
  BY <1>2, <1>4, PeerFacts DEF IInv, HistoryInv
<1>7. IdleInv' /\ DeviceReady'
  BY <1>2 DEF IInv, IdleInv, DeviceReady
<1>8. ASSUME NEW c \in Cidrs, c \notin suspect'
      PROVE  /\ \A l, m \in Nodes : Claims(view', l, c) /\ Claims(view', m, c) => l = m
             /\ \A m \in Nodes : Claims(view', m, c) => Whole(kernel', c, view'[m].ip)
             /\ (\A m \in Nodes : ~Claims(view', m, c)) => Bare(kernel', c)
  <2>1. CASE new # None /\ new.cidr = c
    BY <1>4, <1>8, <2>1 DEF Effect, Claims
  <2>2. CASE ~(new # None /\ new.cidr = c) /\ Claims(view, n, c)
    <3>1. c \notin suspect /\ Bare(kernel', c)
      BY <1>8, <2>2 DEF Effect
    <3>2. \A m \in Nodes : ~Claims(view', m, c)
      BY <1>4, <2>2, <3>1 DEF IInv, ClaimInv, Claims
    <3>3. QED
      BY <3>1, <3>2
  <2>3. CASE ~(new # None /\ new.cidr = c) /\ ~Claims(view, n, c)
    <3>1. /\ c \notin suspect
          /\ c \in kernel'.route <=> c \in kernel.route
          /\ c \in kernel'.arp <=> c \in kernel.arp
          /\ kernel'.fdb[c] = kernel.fdb[c]
      BY <1>8, <2>3 DEF Effect
    <3>2. \A m \in Nodes : Claims(view', m, c) <=> Claims(view, m, c)
      BY <1>4, <2>3 DEF Claims
    <3>3. \A m \in Nodes : Claims(view, m, c) => view'[m] = view[m]
      BY <1>4, <2>3
    <3>4. \A l, m \in Nodes : Claims(view, l, c) /\ Claims(view, m, c) => l = m
      BY <3>1 DEF IInv, ClaimInv
    <3>5. /\ \A m \in Nodes : Claims(view, m, c) => Whole(kernel, c, view[m].ip)
          /\ (\A m \in Nodes : ~Claims(view, m, c)) => Bare(kernel, c)
      BY <3>1, WholeOrBare
    <3>6. QED
      BY <3>1, <3>2, <3>3, <3>4, <3>5 DEF Whole, Bare
  <2>4. QED
    BY <2>1, <2>2, <2>3
<1>9. \A m \in Nodes : view'[m] # None => view'[m].ip \in Ips
  BY <1>5, PeerFacts DEF TypeOK, WatchTypeOK
<1>10. WholePeers'
  <2> SUFFICES ASSUME NEW c \in Cidrs, c \notin suspect'
               PROVE  /\ c \in kernel'.route <=> c \in kernel'.arp
                      /\ c \in kernel'.arp <=> kernel'.fdb[c] # None
    BY DEF WholePeers
  <2>1. CASE \E m \in Nodes : Claims(view', m, c)
    BY <1>8, <1>9, <2>1, PeerFacts DEF Claims, Whole
  <2>2. CASE \A m \in Nodes : ~Claims(view', m, c)
    BY <1>8, <2>2 DEF Bare
  <2>3. QED
    BY <2>1, <2>2
<1>11. ClaimInv'
  <2> SUFFICES ASSUME NEW c \in Cidrs, c \notin suspect'
               PROVE  /\ \A l, m \in Nodes : Claims(view', l, c) /\ Claims(view', m, c) => l = m
                      /\ Promise!Right(c)'
    BY DEF ClaimInv, Claims
  <2>1. Path'[c] = IF c \in kernel'.route /\ c \in kernel'.arp THEN kernel'.fdb[c] ELSE None
    BY DEF Path
  <2>2. QED
    BY <1>8, <2>1 DEF Promise!Right, Claims, Whole, Bare
<1>12. EntryInv'
  <2> SUFFICES ASSUME NEW m \in Nodes
               PROVE  /\ peers'[m] # None => peers'[m] = Peer(m, told'[m])
                      /\ told'[m] # None /\ view'[m] # None /\ view'[m].cidr \notin suspect'
                           => peers'[m] = view'[m]
    BY DEF EntryInv, Peer
  <2>1. CASE m = n
    BY <1>4, <2>1 DEF Effect
  <2>2. CASE m # n
    <3>1. view'[m] = view[m] /\ told'[m] = told[m] /\ peers'[m] = peers[m]
      BY <1>4, <2>2
    <3>2. ASSUME told'[m] # None, view'[m] # None, view'[m].cidr \notin suspect'
          PROVE  view[m].cidr \notin suspect
      <4>1. view[m].cidr \in Cidrs /\ Claims(view, m, view[m].cidr)
        BY <1>1, <3>1, <3>2, PeerFacts DEF Claims
      <4>2. ~(new # None /\ new.cidr = view[m].cidr)
        BY <2>2, <3>1, <3>2, <4>1 DEF Effect
      <4>3. QED
        BY <3>1, <3>2, <4>1, <4>2 DEF Effect
    <3>3. QED
      BY <3>1, <3>2 DEF IInv, EntryInv
  <2>3. QED
    BY <2>1, <2>2
<1>13. QED
  BY <1>5, <1>6, <1>7, <1>10, <1>11, <1>12 DEF IInv

\* Setting the device up keeps its type, however far it comes, and makes it
\* ready if it comes to the end.
LEMMA SetupCalls ==
  ASSUME dev \in [made : BOOLEAN, mac : Cidrs \cup {None}, addrs : SUBSET Cidrs, up : BOOLEAN],
         NEW c \in Cidrs, NEW done \in 0..4
  PROVE  /\ SetupVXLAN(c, done) \in
              [made : BOOLEAN, mac : Cidrs \cup {None}, addrs : SUBSET Cidrs, up : BOOLEAN]
         /\ done = 4 => /\ SetupVXLAN(c, done).made /\ SetupVXLAN(c, done).up
                        /\ SetupVXLAN(c, done).mac = c /\ c \in SetupVXLAN(c, done).addrs
<1> DEFINE made  == dev.made \/ done >= 1
           mac   == IF done >= 2 THEN c ELSE dev.mac
           addrs == IF done >= 3 THEN dev.addrs \cup {c} ELSE dev.addrs
           up    == dev.up \/ done >= 4
<1>1. made \in BOOLEAN /\ up \in BOOLEAN
  OBVIOUS
<1>2. mac \in Cidrs \cup {None} /\ addrs \in SUBSET Cidrs
  OBVIOUS
<1>3. done = 4 => made /\ up /\ mac = c /\ c \in addrs
  OBVIOUS
<1>4. SetupVXLAN(c, done) = [made |-> made, mac |-> mac, addrs |-> addrs, up |-> up]
  BY DEF SetupVXLAN
<1> HIDE DEF made, mac, addrs, up
<1>5. QED
  BY <1>1, <1>2, <1>3, <1>4

LEMMA OwnCidrType == IInv => OwnPodCIDR \in Cidrs \cup {None}
BY SelfAssumption DEF IInv, TypeOK, WatchTypeOK, OwnPodCIDR, Objects

\* The device is ready and the handlers are registered, who know of nothing:
\* what does not agree with the history is missed.
LEMMA ReadyIInv ==
  ASSUME IInv, Ready
  PROVE  IInv'
<1>1. /\ told = NoNodes /\ peers = NoNodes /\ phase' = "running" /\ own' = OwnPodCIDR
      /\ OwnPodCIDR \in Cidrs /\ dev' = SetupVXLAN(OwnPodCIDR, 4)
      /\ UNCHANGED <<objects, store, told, upsets, peers, kernel>>
  BY OwnCidrType DEF IInv, IdleInv, Ready, Return, informer
<1>2. /\ dev' \in [made : BOOLEAN, mac : Cidrs \cup {None}, addrs : SUBSET Cidrs, up : BOOLEAN]
      /\ dev'.made /\ dev'.up /\ dev'.mac = own' /\ own' \in dev'.addrs
  BY <1>1, SetupCalls DEF IInv, TypeOK
<1>3. /\ view' = [n \in Nodes |-> IF n \in Missed THEN None ELSE view[n]]
      /\ suspect' = suspect \cup {view[n].cidr : n \in Missed}
      /\ \A n \in Missed : n \in Nodes /\ view[n] # None
  BY DEF Ready, Lost, Missed
<1>4. view \in [Nodes -> Peers \cup {None}]
  BY DEF IInv, TypeOK, WatchTypeOK
<1>5. view' \in [Nodes -> Peers \cup {None}] /\ suspect' \subseteq Cidrs
  BY <1>3, <1>4 DEF IInv, TypeOK, WatchTypeOK, Peers
<1>6. TypeOK' /\ DeviceReady'
  BY <1>1, <1>2, <1>5 DEF IInv, TypeOK, WatchTypeOK, DeviceReady
<1>7. \A n \in Nodes : told'[n] = None /\ peers'[n] = None
  BY <1>1 DEF NoNodes
<1>8. IdleInv' /\ EntryInv'
  BY <1>1, <1>7 DEF IdleInv, EntryInv
<1>9. \A n \in Nodes : view'[n] # None =>
        /\ view'[n] = view[n]
        /\ Peer(n, store[n]) # None /\ Peer(n, store[n]).cidr = view[n].cidr
  BY <1>3 DEF Missed, Peer
<1>10. HistoryInv'
  BY <1>1, <1>7, <1>9 DEF HistoryInv
<1>11. ASSUME NEW c \in Cidrs, c \notin suspect'
       PROVE  c \notin suspect /\ \A n \in Nodes : Claims(view, n, c) => view'[n] = view[n]
  BY <1>3, <1>11 DEF Claims
<1>12. WholePeers'
  BY <1>1, <1>11 DEF IInv, WholePeers
<1>13. ClaimInv'
  <2> SUFFICES ASSUME NEW c \in Cidrs, c \notin suspect'
               PROVE  /\ \A l, m \in Nodes : Claims(view, l, c)' /\ Claims(view, m, c)' => l = m
                      /\ Promise!Right(c)'
    BY DEF ClaimInv
  <2>1. \A n \in Nodes : Claims(view, n, c)' <=> Claims(view, n, c)
    BY <1>9, <1>11 DEF Claims
  <2>2. /\ \A l, m \in Nodes : Claims(view, l, c) /\ Claims(view, m, c) => l = m
        /\ Promise!Right(c)
    BY <1>11 DEF IInv, ClaimInv
  <2>3. Path' = Path
    BY <1>1 DEF Path
  <2>4. QED
    BY <1>11, <2>1, <2>2, <2>3 DEF Claims, Promise!Right
<1>14. QED
  BY <1>6, <1>8, <1>10, <1>12, <1>13 DEF IInv

\* The end of the process forgets the map and what was told.
LEMMA ExitIInv ==
  ASSUME IInv, Exit, peers' = NoNodes, upsets' \in 0..MaxUpsets,
         UNCHANGED <<view, suspect, kernel>>,
         dev' \in [made : BOOLEAN, mac : Cidrs \cup {None}, addrs : SUBSET Cidrs, up : BOOLEAN]
  PROVE  IInv'
<1>1. /\ \A n \in Nodes : told'[n] = None /\ peers'[n] = None
      /\ phase' = "down" /\ view' = view /\ suspect' = suspect
  BY DEF Exit, NoNodes
<1>2. TypeOK'
  BY DEF IInv, TypeOK, WatchTypeOK, Exit, NoNodes
<1>3. HistoryInv' /\ IdleInv' /\ EntryInv' /\ DeviceReady'
  BY <1>1 DEF HistoryInv, IdleInv, EntryInv, DeviceReady, Exit
<1>4. WholePeers'
  BY <1>1 DEF IInv, WholePeers
<1>5. Path' = Path
  BY DEF Path
<1>6. ClaimInv'
  BY <1>1, <1>5 DEF IInv, ClaimInv, Claims, Promise!Right
<1>7. QED
  BY <1>2, <1>3, <1>4, <1>6 DEF IInv

\* A node that has rebooted is as before the agent's first run, but for its
\* object.
LEMMA RebootIInv ==
  ASSUME IInv, Reboot
  PROVE  IInv'
<1>1. /\ phase' = "down" /\ own' = None /\ suspect' = {} /\ objects' = objects
      /\ store' = NoNodes /\ told' = NoNodes /\ view' = NoNodes /\ peers' = NoNodes
      /\ dev' = NoDevice /\ kernel' = NoPaths
      /\ upsets' \in 0..MaxUpsets
  BY UpsetsAssumption DEF Reboot, PowerOff, Exit, Upset, IInv, TypeOK, WatchTypeOK
<1>2. TypeOK'
  BY <1>1 DEF IInv, TypeOK, WatchTypeOK, NoNodes, NoDevice, NoPaths
<1>3. HistoryInv' /\ IdleInv' /\ EntryInv' /\ DeviceReady'
  BY <1>1 DEF NoNodes, HistoryInv, IdleInv, EntryInv, DeviceReady
<1>4. WholePeers' /\ ClaimInv'
  BY <1>1 DEF NoNodes, NoPaths, WholePeers, ClaimInv, Claims, Path, Promise!Right
<1>5. QED
  BY <1>2, <1>3, <1>4 DEF IInv

\* While handlers are registered the store moves on only once its last version
\* has been handed out; before, and when the informer starts, as it likes.
LEMMA StoreIInv ==
  ASSUME IInv, Run \/ \E n \in Nodes : Observe(n)
  PROVE  IInv'
<1>1. /\ phase' = phase \/ (phase = "down" /\ phase' = "syncing")
      /\ UNCHANGED <<objects, told, own, view, suspect, upsets, peers, dev, kernel>>
  BY DEF Run, Start, Observe, Watch
<1>2. store \in [Nodes -> Objects \cup {None}] /\ objects \in [Nodes -> Objects \cup {None}]
  BY DEF IInv, TypeOK, WatchTypeOK
<1>3. store' \in [Nodes -> Objects \cup {None}]
  BY <1>2 DEF Run, Start, Observe, Watch
<1>4. TypeOK'
  BY <1>1, <1>3 DEF IInv, TypeOK, WatchTypeOK
<1>5. HistoryInv'
  <2> SUFFICES ASSUME NEW n \in Nodes, phase' = "running", told[n] = None, view[n] # None
               PROVE  Peer(n, store'[n]) # None /\ Peer(n, store'[n]).cidr = view[n].cidr
    BY <1>1 DEF IInv, HistoryInv
  <2>1. PICK m \in Nodes : told[m] = store[m] /\ store' = [store EXCEPT ![m] = objects[m]]
    BY <1>1 DEF Run, Start, Observe, Watch
  <2>2. phase = "running"
    BY <1>1
  <2>3. m # n
    BY <2>1, <2>2, PeerFacts DEF IInv, HistoryInv
  <2>4. store'[n] = store[n]
    BY <1>2, <2>1, <2>3
  <2>5. QED
    BY <2>2, <2>4 DEF IInv, HistoryInv
<1>6. IdleInv' /\ EntryInv' /\ WholePeers' /\ DeviceReady'
  BY <1>1 DEF IInv, IdleInv, EntryInv, WholePeers, DeviceReady
<1>7. Path' = Path
  BY <1>1 DEF Path
<1>8. ClaimInv'
  BY <1>1, <1>7 DEF IInv, ClaimInv, Claims, Promise!Right
<1>9. QED
  BY <1>4, <1>5, <1>6, <1>8 DEF IInv

\* Changes at the API server do not touch the agent's state.
LEMMA QuietIInv ==
  ASSUME IInv, (\E n \in Nodes : Outside(n)) \/ UNCHANGED vars
  PROVE  IInv'
<1>1. UNCHANGED <<store, told, phase, own, view, suspect, peers, dev, kernel>>
  BY DEF Outside, Change, vars, watchVars
<1>2. TypeOK'
  BY UpsetsAssumption DEF IInv, TypeOK, WatchTypeOK, Outside, Change, Upset, vars, watchVars
<1>3. HistoryInv' /\ IdleInv' /\ EntryInv' /\ WholePeers' /\ DeviceReady'
  BY <1>1 DEF IInv, HistoryInv, IdleInv, EntryInv, WholePeers, DeviceReady
<1>4. Path' = Path
  BY <1>1 DEF Path
<1>5. ClaimInv'
  BY <1>1, <1>4 DEF IInv, ClaimInv, Claims, Promise!Right
<1>6. QED
  BY <1>2, <1>3, <1>5 DEF IInv

\* Every step keeps the invariant.
LEMMA NextIInv == IInv /\ [Next]_vars => IInv'
<1> SUFFICES ASSUME IInv, [Next]_vars PROVE IInv'
  OBVIOUS
<1>1. CASE Run \/ \E n \in Nodes : Observe(n)
  BY <1>1, StoreIInv
<1>2. CASE Ready
  BY <1>2, ReadyIInv
<1>3. CASE SetupFails \/ GiveUp \/ Die
  <2>1. Exit /\ UNCHANGED <<view, suspect, kernel>>
    BY <1>3 DEF SetupFails, GiveUp, NoOwnCidr, Die, Crash
  <2>2. upsets' \in 0..MaxUpsets
    BY <1>3, UpsetsAssumption
    DEF IInv, TypeOK, WatchTypeOK, SetupFails, GiveUp, NoOwnCidr, Die, Crash, Upset
  <2>3. peers' = NoNodes
    BY <1>3 DEF IInv, IdleInv, SetupFails, GiveUp, Die
  <2>4. dev' \in [made : BOOLEAN, mac : Cidrs \cup {None}, addrs : SUBSET Cidrs, up : BOOLEAN]
    <3>1. CASE SetupFails
      <4>1. PICK done \in 0..4 : dev' = SetupVXLAN(OwnPodCIDR, done)
        BY <3>1 DEF SetupFails
      <4>2. OwnPodCIDR \in Cidrs /\ done \in 0..4
        BY <3>1, OwnCidrType DEF SetupFails
      <4>3. QED
        BY <4>1, <4>2, SetupCalls DEF IInv, TypeOK
    <3>2. CASE GiveUp \/ Die
      BY <3>2 DEF IInv, TypeOK, GiveUp, Die
    <3>3. QED
      BY <1>3, <3>1, <3>2
  <2>5. QED
    BY <2>1, <2>2, <2>3, <2>4, ExitIInv
<1>4. CASE (\E n \in Nodes : Outside(n)) \/ UNCHANGED vars
  BY <1>4, QuietIInv
<1>5. CASE \E n \in Nodes : Handle(n)
  BY <1>5, HandleEffect, EffectIInv
<1>6. CASE Reboot
  BY <1>6, RebootIInv
<1>7. QED
  BY <1>1, <1>2, <1>3, <1>4, <1>5, <1>6 DEF Next

LEMMA Invariance == Spec => []IInv
BY InitIInv, NextIInv, PTL DEF Spec

\* Every variable has its type: a peer in the map or the kernel never lacks its
\* address (vxlan.go:142-147).
THEOREM TypeCorrect == Spec => []TypeOK
BY Invariance, PTL DEF IInv

\* A pod CIDR above suspicion has its three kernel objects or none of them
\* (network/vxlan.go:98-182).
THEOREM PeersWhole == Spec => []WholePeers
BY Invariance, PTL DEF IInv

\* The map owns every peer whose pod CIDR is above suspicion (vxlan.go:195-214).
THEOREM OwningMap == Spec => []MapOwnsPeers
<1>1. IInv => MapOwnsPeers
  BY DEF IInv, HistoryInv, EntryInv, MapOwnsPeers
<1>2. QED
  BY <1>1, Invariance, PTL

\* The device is set up for the own pod CIDR whenever handlers run
\* (vxlan.go:85-95).
THEOREM ReadyDevice == Spec => []DeviceReady
BY Invariance, PTL DEF IInv

\* Node sync in VXLAN mode implements Forwarding: a notification changes the
\* paths of its own node only, and all that are not suspect lead to the node
\* the agent last saw there (vxlan.go:138-214).
THEOREM Implements == Spec => PathsFollowNodes
<1>1. Init => Promise!Init
  BY DEF Init, WatchInit, NoNodes, NoPaths, Path, Promise!Init
<1>2. ASSUME IInv, IInv', [Next]_vars
      PROVE  [Promise!Next]_(Promise!forwardingVars)
  <2>1. CASE Ready
    <3>1. {view[n].cidr : n \in Missed} = UNION {Promise!CidrOf(view[n]) : n \in Missed}
      BY DEF Missed, Promise!CidrOf
    <3>2. Promise!Lose(Missed)
      BY <2>1, <3>1 DEF Ready, Lost, Path, Promise!Lose
    <3>3. Missed \in SUBSET Nodes
      BY DEF Missed
    <3>4. QED
      BY <3>2, <3>3 DEF Promise!Next
  <2>2. ASSUME NEW n \in Nodes, Handle(n) PROVE Promise!Next
    <3> DEFINE new == Peer(n, store[n])
    <3>1. Effect(n)
      BY <1>2, <2>2, HandleEffect
    <3>2. new \in Peers \cup {None} /\ view \in [Nodes -> Peers \cup {None}]
      BY <1>2, PeerFacts DEF IInv, TypeOK, WatchTypeOK
    <3>3. \A c \in Cidrs \ suspect' : Promise!Right(c)'
      BY <1>2 DEF IInv, ClaimInv
    <3>4. \A c \in Cidrs \ (Promise!CidrOf(view[n]) \cup Promise!CidrOf(new)) :
            Path'[c] = Path[c] /\ (c \in suspect' <=> c \in suspect)
      BY <3>1 DEF Promise!CidrOf, Claims, Effect, Path
    <3>5. Path' \in [Cidrs -> Ips \cup {None}]
      BY <1>2 DEF IInv, TypeOK, Path
    <3>6. Promise!Update(n, new)
      BY <3>1, <3>3, <3>4, <3>5 DEF Effect, Promise!Update
    <3>7. QED
      BY <3>2, <3>6 DEF Promise!Next, Promise!Peers, Peers
  <2>3. CASE Run \/ SetupFails \/ GiveUp \/ Die \/ (\E n \in Nodes : Outside(n) \/ Observe(n))
             \/ UNCHANGED vars
    <3>1. UNCHANGED <<view, kernel, suspect>>
      BY <2>3 DEF Run, Start, SetupFails, GiveUp, NoOwnCidr, Die, Crash, Exit, Outside,
                  Change, Observe, Watch, vars, watchVars
    <3>2. QED
      BY <3>1 DEF Path, Promise!forwardingVars
  <2>4. CASE Reboot
    <3>1. view' = NoNodes /\ suspect' = {} /\ kernel' = NoPaths
      BY <2>4 DEF Reboot, PowerOff
    <3>2. Promise!Forget
      BY <3>1 DEF NoNodes, NoPaths, Path, Promise!Forget
    <3>3. QED
      BY <3>2 DEF Promise!Next
  <2>5. QED
    BY <1>2, <2>1, <2>2, <2>3, <2>4 DEF Next
<1>3. QED
  BY <1>1, <1>2, Invariance, PTL DEF Spec, PathsFollowNodes, Promise!Spec

-----------------------------------------------------------------------------
\* When the handlers have been told of everything the history has it too.
LEMMA SettledView ==
  ASSUME IInv, Settled, phase = "running", NEW n \in Nodes
  PROVE  view[n] = Peer(n, objects[n])
<1>1. told[n] = objects[n] /\ store[n] = objects[n]
  BY DEF Settled
<1>2. QED
  BY <1>1, PeerFacts DEF IInv, HistoryInv

\* Then the paths are right wherever they are not exempt.
LEMMA SettledAgrees == IInv /\ Settled /\ phase = "running" => Agrees
<1> SUFFICES ASSUME IInv, Settled, phase = "running", NEW c \in Cidrs \ suspect
             PROVE  /\ \A n \in Nodes :
                         Peer(n, objects[n]) # None /\ objects[n].cidr = c
                           => Path[c] = objects[n].ip
                    /\ Path[c] # None =>
                         \E n \in Nodes : Peer(n, objects[n]) # None /\ objects[n].cidr = c
  BY DEF Agrees
<1>1. Promise!Right(c)
  BY DEF IInv, ClaimInv
<1>2. \A n \in Nodes : view[n] = Peer(n, objects[n])
  BY SettledView
<1>3. \A n \in Nodes : view[n] # None => view[n] = objects[n]
  BY <1>2 DEF Peer
<1>4. QED
  BY <1>1, <1>2, <1>3 DEF Promise!Right

-----------------------------------------------------------------------------
\* Until the first upset the agent has seen each object as it is or not at
\* all, no pod CIDR is suspect, and no VTEP address is another node's.
CalmInv ==
  upsets = 0 =>
    /\ Exclusive(objects)
    /\ suspect = {}
    /\ phase # "down" => store = objects
    /\ \A n \in Nodes : told[n] \in {None, objects[n]}
    /\ \A n \in Nodes : view[n] \in {None, Peer(n, objects[n])}
    /\ \A c \in dev.addrs : Claims(objects, Self, c)

\* Nothing but an addition can be notified; nobody contests it, and the kernel
\* does not refuse it.
LEMMA CalmHandle ==
  ASSUME IInv, CalmInv, NEW n \in Nodes, Handle(n)
  PROVE  CalmInv'
<1> SUFFICES ASSUME upsets' = 0 PROVE CalmInv'
  BY DEF CalmInv
<1>1. /\ Notify(n) /\ phase # "down" /\ upsets \in Nat /\ dev' = dev
      /\ told \in [Nodes -> Objects \cup {None}]
      /\ view \in [Nodes -> Peers \cup {None}]
      /\ dev.addrs \subseteq Cidrs
  BY UpsetsAssumption DEF Handle, onAdd, onUpdate, onDelete, IInv, TypeOK, WatchTypeOK
<1>2. \A ok \in BOOLEAN : Calls(ok) => ok /\ upsets = 0
  BY <1>1 DEF Calls, Upset
<1>3. upsets = 0
  <2>1. upsets' = upsets \/ Upset
    BY DEF Handle, onAdd, onUpdate, onDelete, Calls
  <2>2. QED
    BY <1>1, <2>1 DEF Upset
<1>4. store = objects /\ told[n] = None /\ told[n] # store[n]
  BY <1>1, <1>3 DEF CalmInv, Notify
<1>5. onAdd(n)
  BY <1>4 DEF Handle, onUpdate, onDelete
<1> DEFINE new == Peer(n, objects[n])
<1>6. PICK done \in AddDone(new) :
        Calls(Ok(new, done) \/ Refused(new)) /\ Learn(n, Failed(new, done), Fresh(new, done))
  BY <1>4, <1>5 DEF onAdd
<1>7. \A m \in Nodes \ {n}, c \in Cidrs : new # None /\ new.cidr = c => ~Claims(objects, m, c)
  <2>1. new # None => new = objects[n] /\ n # Self /\ objects[n] # None
    BY NoneAssumption DEF Peer
  <2>2. QED
    BY <1>3, <2>1 DEF CalmInv, Exclusive, Claims
<1>8. ~Refused(new)
  <2>1. new # None => n # Self /\ Self \in Nodes \ {n}
    BY SelfAssumption DEF Peer
  <2>2. QED
    BY <1>1, <1>3, <1>7, <2>1 DEF CalmInv, Refused
<1>9. Failed(new, done) = {}
  BY <1>2, <1>6, <1>8 DEF Failed, Ok
<1>10. \A c \in Cidrs : new # None /\ new.cidr = c => ~Contested(n, c)
  <2>1. \A m \in Nodes : view[m] # None => view[m] = objects[m]
    BY <1>3 DEF CalmInv, Peer
  <2>2. QED
    BY <1>7, <2>1 DEF Contested, Claims
<1>11. suspect' = {} /\ view' = [view EXCEPT ![n] = new]
  BY <1>3, <1>4, <1>6, <1>9, <1>10 DEF CalmInv, Learn
<1>12. /\ objects' = objects /\ store' = store
       /\ told' = [told EXCEPT ![n] = objects[n]]
  BY <1>1, <1>4 DEF Notify
<1>13. Exclusive(objects)' /\ \A c \in dev'.addrs : Claims(objects, Self, c)'
  BY <1>1, <1>3, <1>12 DEF CalmInv, Exclusive, Claims
<1>14. QED
  BY <1>1, <1>3, <1>4, <1>11, <1>12, <1>13 DEF CalmInv

LEMMA InitCalm == Init => CalmInv
BY DEF Init, WatchInit, CalmInv, NoNodes, NoDevice

LEMMA NextCalm == IInv /\ CalmInv /\ [Next]_vars => CalmInv'
<1> SUFFICES ASSUME IInv, CalmInv, [Next]_vars PROVE CalmInv'
  OBVIOUS
<1>0. upsets \in Nat
  BY UpsetsAssumption DEF IInv, TypeOK, WatchTypeOK
<1>1. CASE Run
  BY <1>1 DEF Run, Start, CalmInv, Exclusive, Claims
<1>2. CASE GiveUp
  BY <1>2 DEF CalmInv, GiveUp, NoOwnCidr, Exit, NoNodes, Exclusive, Claims
<1>3. CASE Die \/ Reboot \/ SetupFails \/ \E n \in Nodes : Outside(n)
  <2>1. upsets' # 0
    BY <1>0, <1>3 DEF Die, Crash, Reboot, PowerOff, SetupFails, Outside, Change, Upset
  <2>2. QED
    BY <2>1 DEF CalmInv
<1>4. CASE Ready
  <2> SUFFICES ASSUME upsets = 0 PROVE CalmInv'
    BY <1>4 DEF Ready, Return, CalmInv
  <2>0. phase # "down" /\ UNCHANGED <<objects, store, told>>
    BY <1>4 DEF Ready, Return, informer
  <2>nil. Missed = {}
    BY <2>0 DEF CalmInv, Missed, Peer
  <2>1. /\ UNCHANGED <<objects, store, told>> /\ store = objects
        /\ suspect' = {} /\ view' = [n \in Nodes |-> view[n]]
    BY <1>4, <2>0, <2>nil DEF CalmInv, Ready, Lost
  <2>2. dev'.addrs = dev.addrs \cup {OwnPodCIDR} /\ OwnPodCIDR # None
    BY <1>4 DEF Ready, Return, SetupVXLAN
  <2>3. Claims(objects, Self, OwnPodCIDR)
    BY <2>1, <2>2 DEF CalmInv, OwnPodCIDR, Claims
  <2>4. QED
    BY <2>0, <2>1, <2>2, <2>3 DEF CalmInv, Exclusive, Claims
<1>5. CASE UNCHANGED vars
  BY <1>5 DEF vars, watchVars, CalmInv, Exclusive, Claims
<1>6. CASE \E n \in Nodes : Handle(n)
  BY <1>6, CalmHandle
<1>7. ASSUME NEW n \in Nodes, Observe(n) PROVE CalmInv'
  <2>1. phase # "down" /\ objects[n] # store[n] /\ upsets' = upsets
    BY <1>7 DEF Observe, Watch
  <2>2. QED
    BY <2>1 DEF CalmInv
<1>8. QED
  BY <1>1, <1>2, <1>3, <1>4, <1>5, <1>6, <1>7 DEF Next

\* No sequence of adds, updates, deletions and restarts leaves a wrong path
\* outside the suspect pod CIDRs; and a first agent in a cluster at rest makes
\* exactly the paths to the other nodes: no pod CIDR is blamed, none refused by
\* the kernel (vxlan.go:92, 138-214, network/vxlan.go:75, 98-143).
THEOREM SettledRight == Spec => []SettledIsRight
<1>1. Spec => []CalmInv
  BY InitCalm, NextCalm, Invariance, PTL DEF Spec
<1>2. IInv /\ CalmInv => SettledIsRight
  <2> SUFFICES ASSUME IInv, upsets = 0, suspect = {}, Agrees,
                      NEW c \in Cidrs, NEW ip \in Ips
               PROVE  Path[c] = ip <=> CalledFor(c, ip)
    BY SettledAgrees DEF CalmInv, SettledIsRight
  <2>1. /\ \A n \in Nodes :
             Peer(n, objects[n]) # None /\ objects[n].cidr = c => Path[c] = objects[n].ip
        /\ Path[c] # None =>
             \E n \in Nodes : Peer(n, objects[n]) # None /\ objects[n].cidr = c
    BY DEF Agrees
  <2>2. \A n \in Nodes \ {Self} :
          objects[n] # None /\ objects[n].cidr = c /\ objects[n].ip = ip
            => Peer(n, objects[n]) # None
    BY NoneAssumption DEF Peer
  <2>3. QED
    BY <2>1, <2>2, NoneAssumption DEF CalledFor, Peer
<1>3. QED
  BY <1>1, <1>2, Invariance, PTL

\* What Forwarding promises holds of the paths in every state, also between
\* the notification of one node and that of the next.
THEOREM PathsKept == Spec => []Promise!Kept
BY Implements, Promise!PromiseKept, PTL DEF PathsFollowNodes
=============================================================================
