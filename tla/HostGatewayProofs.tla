------------------------- MODULE HostGatewayProofs -------------------------
(***************************************************************************)
(* Proofs about HostGateway for any nodes, pod CIDRs and addresses, any    *)
(* initial cluster and any number of upsets: the map's properties, and     *)
(* that the module implements Forwarding.                                  *)
(***************************************************************************)
EXTENDS HostGateway, TLAPS

\* What the handlers were told last is what the history has for the node.  A
\* node not told of since Run has kept its peer, or was dropped as missed.
HistoryInv ==
  \A n \in Nodes :
    /\ told[n] # None => view[n] = Peer(n, told[n])
    /\ phase # "down" /\ told[n] = None /\ view[n] # None => Peer(n, store[n]) = view[n]

DownInv == phase = "down" => told = NoNodes /\ routes = NoNodes

\* A pod CIDR that is not suspect has one claimant at most, and its path.
ClaimInv ==
  \A c \in Cidrs \ suspect :
    /\ \A m, n \in Nodes : Claims(view, m, c) /\ Claims(view, n, c) => m = n
    /\ Promise!Right(c)

\* The map has the peer of every node it was told of whose CIDR is not suspect.
EntryInv ==
  \A n \in Nodes :
    told[n] # None /\ view[n] # None /\ view[n].cidr \notin suspect => routes[n] = view[n]

IInv == TypeOK /\ MapIsCurrent /\ HistoryInv /\ DownInv /\ ClaimInv /\ EntryInv

-----------------------------------------------------------------------------
\* Peers have a pod CIDR and an address; None is none of these.
LEMMA PeerFacts ==
  /\ None \notin Cidrs /\ None \notin Ips /\ None \notin Peers /\ None \notin Objects
  /\ \A n \in Nodes : Peer(n, None) = None
  /\ \A n \in Nodes, v \in Objects \cup {None} : Peer(n, v) \in Peers \cup {None}
<1>1. None \notin Peers
  BY NoneAssumption DEF Peers, Objects
<1>2. QED
  BY <1>1, NoneAssumption DEF Peer, Peers, Objects

\* The initial state satisfies the invariant.
LEMMA InitIInv == Init => IInv
<1> SUFFICES ASSUME Init PROVE IInv
  OBVIOUS
<1>1. TypeOK
  BY InitialAssumption, UpsetsAssumption DEF Init, WatchInit, TypeOK, WatchTypeOK, NoNodes
<1>2. QED
  BY <1>1, PeerFacts
  DEF Init, WatchInit, IInv, MapIsCurrent, HistoryInv, DownInv, ClaimInv, EntryInv,
      NoNodes, Claims, Promise!Right

\* Route calls act on the route of one pod CIDR and keep the type.
LEMMA RouteCalls ==
  ASSUME NEW k \in [Cidrs -> Ips \cup {None}], NEW r \in Peers \cup {None},
         NEW ok \in BOOLEAN
  PROVE  /\ addRoute(k, r, ok) \in [Cidrs -> Ips \cup {None}]
         /\ delRoute(k, r, ok) \in [Cidrs -> Ips \cup {None}]
         /\ \A c \in Cidrs : ~(r # None /\ r.cidr = c) =>
              addRoute(k, r, ok)[c] = k[c] /\ delRoute(k, r, ok)[c] = k[c]
         /\ r # None /\ ok => addRoute(k, r, ok)[r.cidr] =
              IF k[r.cidr] = None THEN r.ip ELSE k[r.cidr]
         /\ r # None /\ ok => delRoute(k, r, ok)[r.cidr] =
              IF k[r.cidr] = r.ip THEN None ELSE k[r.cidr]
BY PeerFacts DEF addRoute, delRoute, Peers

\* What every handler does: its notification, one entry of the map, and a
\* change of the routes and of the blame for the node's own pod CIDRs only.
Effect(n) ==
  LET new == Peer(n, store[n]) IN
  /\ Notify(n)
  /\ view' = [view EXCEPT ![n] = new]
  /\ suspect' \subseteq Cidrs
  /\ kernel' \in [Cidrs -> Ips \cup {None}]
  /\ upsets' \in 0..MaxUpsets
  /\ \E e \in {None, new} : routes' = [routes EXCEPT ![n] = e]
  /\ \A c \in Cidrs : ~Claims(view, n, c) /\ ~(new # None /\ new.cidr = c) =>
       kernel'[c] = kernel[c] /\ (c \in suspect' <=> c \in suspect)
  /\ \A c \in Cidrs \ suspect' : Claims(view, n, c) /\ ~(new # None /\ new.cidr = c) =>
       c \notin suspect /\ kernel'[c] = None
  /\ new # None /\ new.cidr \notin suspect' =>
       /\ \A m \in Nodes \ {n} : ~Claims(view, m, new.cidr)
       /\ kernel'[new.cidr] = new.ip
       /\ routes'[n] = new

LEMMA UpsetsBounded ==
  ASSUME upsets \in 0..MaxUpsets, NEW ok \in BOOLEAN, Calls(ok)
  PROVE  upsets' \in 0..MaxUpsets
BY UpsetsAssumption DEF Calls, Upset

\* Adding a node, whether or not the kernel still has its route.
LEMMA AddEffect ==
  ASSUME IInv, NEW n \in Nodes, onAdd(n)
  PROVE  Effect(n)
<1> DEFINE new == Peer(n, store[n])
<1>1. /\ told[n] = None /\ phase # "down" /\ Notify(n)
      /\ new \in Peers \cup {None}
      /\ routes[n] = None
      /\ view[n] # None => new = view[n]
      /\ kernel \in [Cidrs -> Ips \cup {None}] /\ suspect \subseteq Cidrs
      /\ view \in [Nodes -> Peers \cup {None}] /\ upsets \in 0..MaxUpsets
  BY PeerFacts DEF onAdd, IInv, TypeOK, WatchTypeOK, MapIsCurrent, HistoryInv
<1>2. PICK ok \in BOOLEAN :
        /\ Calls(ok)
        /\ kernel' = addRoute(kernel, new, ok)
        /\ routes' = [routes EXCEPT ![n] = IF new # None /\ ok THEN new ELSE @]
        /\ Learn(n, Failed(new, ok), Fresh(kernel, new, ok))
  BY DEF onAdd
<1>3. /\ view' = [view EXCEPT ![n] = new]
      /\ suspect' \subseteq Cidrs
      /\ \A c \in Cidrs : c \in suspect' <=>
           \/ c \in suspect /\ ~(new # None /\ new.cidr = c /\ ok /\ kernel[c] = None)
           \/ new # None /\ new.cidr = c /\ (~ok \/ Contested(n, c))
  BY <1>1, <1>2 DEF Learn, Failed, Fresh
<1>4. /\ kernel' \in [Cidrs -> Ips \cup {None}]
      /\ \A c \in Cidrs : ~(new # None /\ new.cidr = c) => kernel'[c] = kernel[c]
      /\ new # None /\ ok =>
           kernel'[new.cidr] = IF kernel[new.cidr] = None THEN new.ip ELSE kernel[new.cidr]
  BY <1>1, <1>2, RouteCalls
<1>5. upsets' \in 0..MaxUpsets
  BY <1>1, <1>2, UpsetsBounded
<1>6. \E e \in {None, new} : routes' = [routes EXCEPT ![n] = e]
  BY <1>1, <1>2
<1>7. \A c \in Cidrs : ~Claims(view, n, c) /\ ~(new # None /\ new.cidr = c) =>
        kernel'[c] = kernel[c] /\ (c \in suspect' <=> c \in suspect)
  BY <1>3, <1>4
<1>8. \A c \in Cidrs : ~(Claims(view, n, c) /\ ~(new # None /\ new.cidr = c))
  BY <1>1 DEF Claims
<1>9. ASSUME new # None, new.cidr \notin suspect'
      PROVE  /\ \A m \in Nodes \ {n} : ~Claims(view, m, new.cidr)
             /\ kernel'[new.cidr] = new.ip
             /\ routes'[n] = new
  <2>1. new.cidr \in Cidrs /\ new.ip \in Ips
    BY <1>1, <1>9 DEF Peers
  <2>2. ok /\ ~Contested(n, new.cidr)
        /\ (new.cidr \in suspect => kernel[new.cidr] = None)
    BY <1>3, <1>9, <2>1
  <2>3. \A m \in Nodes \ {n} : ~Claims(view, m, new.cidr)
    BY <2>2 DEF Contested
  <2>4. new.cidr \notin suspect => kernel[new.cidr] \in {None, new.ip}
    <3>1. ASSUME new.cidr \notin suspect PROVE Promise!Right(new.cidr)
      BY <2>1, <3>1 DEF IInv, ClaimInv
    <3>2. QED
      BY <1>1, <2>1, <2>3, <3>1 DEF Promise!Right, Claims
  <2>5. kernel'[new.cidr] = new.ip
    BY <1>4, <1>9, <2>2, <2>4
  <2>6. routes'[n] = new
    BY <1>2, <1>9, <2>2 DEF IInv, TypeOK
  <2>7. QED
    BY <2>3, <2>5, <2>6
<1>10. QED
  BY <1>1, <1>3, <1>4, <1>5, <1>6, <1>7, <1>8, <1>9 DEF Effect

\* Replacing the route of a node by that of its new version.
LEMMA UpdateEffect ==
  ASSUME IInv, NEW n \in Nodes, onUpdate(n)
  PROVE  Effect(n)
<1> DEFINE old == Peer(n, told[n])
           new == Peer(n, store[n])
<1>1. /\ told[n] # None /\ phase # "down" /\ Notify(n)
      /\ new \in Peers \cup {None} /\ old \in Peers \cup {None}
      /\ view[n] = old
      /\ routes[n] \in {None, old}
      /\ kernel \in [Cidrs -> Ips \cup {None}] /\ suspect \subseteq Cidrs
      /\ view \in [Nodes -> Peers \cup {None}] /\ upsets \in 0..MaxUpsets
      /\ routes \in [Nodes -> Peers \cup {None}]
  BY PeerFacts DEF onUpdate, IInv, TypeOK, WatchTypeOK, MapIsCurrent, HistoryInv
<1>2. PICK deleted \in BOOLEAN, added \in BOOLEAN :
        /\ Calls(deleted /\ added)
        /\ kernel' = addRoute(delRoute(kernel, old, deleted), new, added)
        /\ routes' = [routes EXCEPT ![n] = Entry(n, old, new, added)]
        /\ Learn(n, Failed(old, deleted) \cup Failed(new, added),
                    Fresh(delRoute(kernel, old, deleted), new, added))
  BY DEF onUpdate
<1> DEFINE between == delRoute(kernel, old, deleted)
<1>3. /\ view' = [view EXCEPT ![n] = new]
      /\ suspect' \subseteq Cidrs
      /\ \A c \in Cidrs : c \in suspect' <=>
           /\ \/ c \in suspect
              \/ old # None /\ old.cidr = c /\ ~deleted
              \/ new # None /\ new.cidr = c /\ (~added \/ Contested(n, c))
           /\ \/ ~(new # None /\ new.cidr = c /\ added /\ between[c] = None)
              \/ Contested(n, c)
  BY <1>1, <1>2 DEF Learn, Failed, Fresh
<1>4. /\ between \in [Cidrs -> Ips \cup {None}]
      /\ \A c \in Cidrs : ~(old # None /\ old.cidr = c) => between[c] = kernel[c]
      /\ old # None /\ deleted =>
           between[old.cidr] = IF kernel[old.cidr] = old.ip THEN None ELSE kernel[old.cidr]
  BY <1>1, RouteCalls
<1>5. /\ kernel' \in [Cidrs -> Ips \cup {None}]
      /\ \A c \in Cidrs : ~(new # None /\ new.cidr = c) => kernel'[c] = between[c]
      /\ new # None /\ added =>
           kernel'[new.cidr] = IF between[new.cidr] = None THEN new.ip ELSE between[new.cidr]
  <2>1. kernel' = addRoute(between, new, added)
    BY <1>2
  <2>2. new \in Peers \cup {None} /\ between \in [Cidrs -> Ips \cup {None}]
    BY <1>1, <1>4
  <2> HIDE DEF new, between
  <2>3. QED
    BY <2>1, <2>2, PeerFacts DEF addRoute, Peers
<1>6. upsets' \in 0..MaxUpsets
  BY <1>1, <1>2, UpsetsBounded
<1>7. \E e \in {None, new} : routes' = [routes EXCEPT ![n] = e]
  BY <1>1, <1>2 DEF Entry
<1>8. \A c \in Cidrs : Claims(view, n, c) <=> old # None /\ old.cidr = c
  BY <1>1 DEF Claims
<1>9. \A c \in Cidrs : ~Claims(view, n, c) /\ ~(new # None /\ new.cidr = c) =>
        kernel'[c] = kernel[c] /\ (c \in suspect' <=> c \in suspect)
  BY <1>3, <1>4, <1>5, <1>8
<1>10. \A c \in Cidrs \ suspect : Promise!Right(c)
                              /\ (\A l, m \in Nodes : Claims(view, l, c) /\ Claims(view, m, c) => l = m)
  BY DEF IInv, ClaimInv
<1>11. ASSUME NEW c \in Cidrs, c \notin suspect', Claims(view, n, c), ~(new # None /\ new.cidr = c)
       PROVE  c \notin suspect /\ kernel'[c] = None
  <2>1. c \notin suspect /\ deleted /\ old # None /\ old.cidr = c
    BY <1>3, <1>8, <1>11
  <2>2. kernel[c] = old.ip
    BY <1>1, <1>10, <1>11, <2>1 DEF Promise!Right
  <2>3. QED
    BY <1>4, <1>5, <1>11, <2>1, <2>2
<1>12. ASSUME new # None, new.cidr \notin suspect'
       PROVE  /\ \A m \in Nodes \ {n} : ~Claims(view, m, new.cidr)
              /\ kernel'[new.cidr] = new.ip
              /\ routes'[n] = new
  <2>1. new.cidr \in Cidrs /\ new.ip \in Ips
    BY <1>1, <1>12 DEF Peers
  <2>2. added
    BY <1>3, <1>12, <2>1
  <2>3. ~Contested(n, new.cidr)
    BY <1>3, <1>12, <2>1, <2>2
  <2>4. \A m \in Nodes \ {n} : ~Claims(view, m, new.cidr)
    BY <2>3 DEF Contested
  <2>5. between[new.cidr] = None
    <3>1. CASE new.cidr \in suspect
      BY <1>3, <1>12, <2>1, <3>1
    <3>2. CASE new.cidr \notin suspect /\ old # None /\ old.cidr = new.cidr
      <4>1. kernel[old.cidr] = old.ip
        BY <1>1, <1>10, <2>1, <3>2 DEF Promise!Right
      <4>2. CASE deleted
        BY <1>4, <3>2, <4>1, <4>2
      <4>3. CASE ~deleted
        BY <1>3, <1>12, <2>1, <3>2, <4>3
      <4>4. QED
        BY <4>2, <4>3
    <3>3. CASE new.cidr \notin suspect /\ ~(old # None /\ old.cidr = new.cidr)
      <4>1. \A m \in Nodes : ~(view[m] # None /\ view[m].cidr = new.cidr)
        BY <1>1, <2>4, <3>3 DEF Claims
      <4>2. kernel[new.cidr] = None
        BY <1>10, <2>1, <3>3, <4>1 DEF Promise!Right
      <4>3. QED
        BY <1>4, <2>1, <3>3, <4>2
    <3>4. QED
      BY <3>1, <3>2, <3>3
  <2>6. kernel'[new.cidr] = new.ip
    BY <1>5, <1>12, <2>2, <2>5
  <2>7. routes'[n] = new
    BY <1>1, <1>2, <1>12, <2>2 DEF Entry
  <2>8. QED
    BY <2>4, <2>6, <2>7
<1>13. QED
  BY <1>1, <1>3, <1>5, <1>6, <1>7, <1>9, <1>11, <1>12 DEF Effect

\* Removing the route of a node that is gone.
LEMMA DeleteEffect ==
  ASSUME IInv, NEW n \in Nodes, onDelete(n)
  PROVE  Effect(n)
<1> DEFINE r == routes[n]
<1>1. /\ told[n] # None /\ store[n] = None /\ phase # "down" /\ Notify(n)
      /\ Peer(n, store[n]) = None
      /\ r \in Peers \cup {None} /\ r \in {None, view[n]}
      /\ kernel \in [Cidrs -> Ips \cup {None}] /\ suspect \subseteq Cidrs
      /\ view \in [Nodes -> Peers \cup {None}] /\ upsets \in 0..MaxUpsets
  BY PeerFacts DEF onDelete, IInv, TypeOK, WatchTypeOK, MapIsCurrent, HistoryInv
<1>2. PICK ok \in BOOLEAN :
        /\ Calls(ok)
        /\ kernel' = delRoute(kernel, r, ok)
        /\ routes' = [routes EXCEPT ![n] = None]
        /\ Learn(n, Failed(r, ok), {})
  BY DEF onDelete
<1>3. /\ view' = [view EXCEPT ![n] = None]
      /\ suspect' \subseteq Cidrs
      /\ \A c \in Cidrs : c \in suspect' <=>
           c \in suspect \/ (r # None /\ r.cidr = c /\ ~ok)
  BY <1>1, <1>2 DEF Learn, Failed
<1>4. /\ kernel' \in [Cidrs -> Ips \cup {None}]
      /\ \A c \in Cidrs : ~(r # None /\ r.cidr = c) => kernel'[c] = kernel[c]
      /\ r # None /\ ok =>
           kernel'[r.cidr] = IF kernel[r.cidr] = r.ip THEN None ELSE kernel[r.cidr]
  BY <1>1, <1>2, RouteCalls
<1>5. upsets' \in 0..MaxUpsets
  BY <1>1, <1>2, UpsetsBounded
<1>6. \A c \in Cidrs : ~Claims(view, n, c) =>
        kernel'[c] = kernel[c] /\ (c \in suspect' <=> c \in suspect)
  BY <1>1, <1>3, <1>4 DEF Claims
<1>7. ASSUME NEW c \in Cidrs, c \notin suspect', Claims(view, n, c)
      PROVE  c \notin suspect /\ kernel'[c] = None
  <2>1. c \notin suspect
    BY <1>3, <1>7
  <2>2. r = view[n] /\ r # None /\ r.cidr = c
    BY <1>1, <1>7, <2>1 DEF IInv, EntryInv, Claims
  <2>3. ok
    BY <1>3, <1>7, <2>2
  <2>4. kernel[c] = r.ip
    BY <2>1, <2>2 DEF IInv, ClaimInv, Promise!Right
  <2>5. QED
    BY <1>4, <2>1, <2>2, <2>3, <2>4
<1>8. QED
  BY <1>1, <1>2, <1>3, <1>4, <1>5, <1>6, <1>7 DEF Effect

-----------------------------------------------------------------------------
\* What a handler does keeps the invariant.
LEMMA EffectIInv ==
  ASSUME IInv, NEW n \in Nodes, phase # "down", Effect(n)
  PROVE  IInv'
<1> DEFINE new == Peer(n, store[n])
<1>1. /\ store \in [Nodes -> Objects \cup {None}] /\ told \in [Nodes -> Objects \cup {None}]
      /\ view \in [Nodes -> Peers \cup {None}]
      /\ routes \in [Nodes -> Peers \cup {None}]
      /\ new \in Peers \cup {None}
  BY PeerFacts DEF IInv, TypeOK, WatchTypeOK
<1>2. /\ told' = [told EXCEPT ![n] = store[n]]
      /\ store' = store /\ phase' = phase /\ objects' = objects /\ own' = own
      /\ view' = [view EXCEPT ![n] = new]
  BY DEF Effect, Notify
<1>3. PICK e \in {None, new} : routes' = [routes EXCEPT ![n] = e]
  BY DEF Effect
<1>4. /\ view'[n] = new /\ told'[n] = store[n] /\ routes'[n] \in {None, new}
      /\ \A m \in Nodes \ {n} : /\ view'[m] = view[m] /\ told'[m] = told[m]
                                /\ routes'[m] = routes[m]
  BY <1>1, <1>2, <1>3
<1>5. TypeOK'
  BY <1>1, <1>2, <1>3 DEF IInv, TypeOK, WatchTypeOK, Effect
<1>6. MapIsCurrent'
  BY <1>2, <1>4 DEF IInv, MapIsCurrent
<1>7. HistoryInv'
  BY <1>2, <1>4, PeerFacts DEF IInv, HistoryInv
<1>8. DownInv'
  BY <1>2 DEF DownInv
<1>9. ASSUME NEW c \in Cidrs, c \notin suspect'
      PROVE  /\ \A l, m \in Nodes : Claims(view, l, c)' /\ Claims(view, m, c)' => l = m
             /\ Promise!Right(c)'
  <2>1. CASE new # None /\ new.cidr = c
    BY <1>4, <1>9, <2>1 DEF Effect, Claims, Promise!Right
  <2>2. CASE ~(new # None /\ new.cidr = c) /\ Claims(view, n, c)
    <3>1. c \notin suspect /\ kernel'[c] = None
      BY <1>9, <2>2 DEF Effect
    <3>2. \A m \in Nodes : ~Claims(view, m, c)'
      BY <1>4, <2>2, <3>1 DEF IInv, ClaimInv, Claims
    <3>3. QED
      BY <3>1, <3>2 DEF Claims, Promise!Right
  <2>3. CASE ~(new # None /\ new.cidr = c) /\ ~Claims(view, n, c)
    <3>1. c \notin suspect /\ kernel'[c] = kernel[c]
      BY <1>9, <2>3 DEF Effect
    <3>2. \A m \in Nodes : Claims(view, m, c)' <=> Claims(view, m, c)
      BY <1>4, <2>3 DEF Claims
    <3>3. \A m \in Nodes : Claims(view, m, c) => view'[m] = view[m]
      BY <1>4, <2>3
    <3>4. QED
      BY <3>1, <3>2, <3>3 DEF IInv, ClaimInv, Claims, Promise!Right
  <2>4. QED
    BY <2>1, <2>2, <2>3
<1>10. ClaimInv'
  BY <1>9 DEF ClaimInv
<1>11. ASSUME NEW m \in Nodes, told'[m] # None, view'[m] # None, view'[m].cidr \notin suspect'
       PROVE  routes'[m] = view'[m]
  <2>1. CASE m = n
    BY <1>4, <1>11, <2>1 DEF Effect
  <2>2. CASE m # n
    <3>1. view[m] = view'[m] /\ told[m] # None /\ routes'[m] = routes[m]
      BY <1>4, <1>11, <2>2
    <3>2. view[m].cidr \in Cidrs /\ Claims(view, m, view[m].cidr)
      BY <1>1, <1>11, <3>1 DEF Peers, Claims
    <3>3. ~(new # None /\ new.cidr = view[m].cidr)
      BY <1>11, <2>2, <3>1, <3>2 DEF Effect
    <3>4. view[m].cidr \notin suspect
      BY <1>11, <3>1, <3>2, <3>3 DEF Effect
    <3>5. QED
      BY <1>11, <3>1, <3>4 DEF IInv, EntryInv
  <2>3. QED
    BY <2>1, <2>2
<1>12. EntryInv'
  BY <1>11 DEF EntryInv
<1>13. QED
  BY <1>5, <1>6, <1>7, <1>8, <1>10, <1>12 DEF IInv

\* Run lists the objects again; what has changed meanwhile is missed.
LEMMA RunIInv ==
  ASSUME IInv, Run
  PROVE  IInv'
<1>1. /\ told = NoNodes /\ routes = NoNodes /\ phase' = "syncing"
      /\ store' = objects /\ told' = told /\ routes' = routes /\ kernel' = kernel
      /\ objects' = objects /\ own' = own /\ upsets' = upsets
  BY DEF IInv, DownInv, Run, Start
<1>2. /\ objects \in [Nodes -> Objects \cup {None}]
      /\ view \in [Nodes -> Peers \cup {None}]
  BY DEF IInv, TypeOK, WatchTypeOK
<1>3. /\ view' = [n \in Nodes |-> IF n \in Missed THEN None ELSE view[n]]
      /\ suspect' = suspect \cup {view[n].cidr : n \in Missed}
      /\ \A n \in Missed : n \in Nodes /\ view[n] # None
  BY DEF Run, Lost, Missed
<1>4. TypeOK'
  BY <1>1, <1>2, <1>3 DEF IInv, TypeOK, WatchTypeOK, Peers
<1>5. MapIsCurrent' /\ DownInv' /\ EntryInv'
  BY <1>1 DEF MapIsCurrent, DownInv, EntryInv, NoNodes
<1>6. \A n \in Nodes : told'[n] = None
  BY <1>1 DEF NoNodes
<1>7. \A n \in Nodes : view'[n] # None => view'[n] = view[n] /\ Peer(n, objects[n]) = view[n]
  BY <1>3 DEF Missed
<1>8. HistoryInv'
  BY <1>1, <1>6, <1>7 DEF HistoryInv
<1>9. ASSUME NEW c \in Cidrs, c \notin suspect'
      PROVE  c \notin suspect /\ \A n \in Nodes : Claims(view, n, c) => view'[n] = view[n]
  BY <1>3, <1>9 DEF Claims
<1>10. ClaimInv'
  <2> SUFFICES ASSUME NEW c \in Cidrs, c \notin suspect'
               PROVE  /\ \A l, m \in Nodes : Claims(view, l, c)' /\ Claims(view, m, c)' => l = m
                      /\ Promise!Right(c)'
    BY DEF ClaimInv
  <2>1. \A n \in Nodes : Claims(view, n, c)' <=> Claims(view, n, c)
    BY <1>7, <1>9 DEF Claims
  <2>2. /\ \A l, m \in Nodes : Claims(view, l, c) /\ Claims(view, m, c) => l = m
        /\ Promise!Right(c)
    BY <1>9 DEF IInv, ClaimInv
  <2>3. QED
    BY <1>1, <1>9, <2>1, <2>2 DEF Claims, Promise!Right
<1>11. QED
  BY <1>4, <1>5, <1>8, <1>10 DEF IInv

\* The end of the process forgets the map and what was told.
LEMMA ExitIInv ==
  ASSUME IInv, Exit, routes' = NoNodes, upsets' \in 0..MaxUpsets,
         UNCHANGED <<view, suspect, kernel>>
  PROVE  IInv'
<1>1. /\ \A n \in Nodes : told'[n] = None /\ routes'[n] = None
      /\ phase' = "down" /\ view' = view /\ suspect' = suspect
  BY DEF Exit, NoNodes
<1>2. TypeOK'
  BY DEF IInv, TypeOK, WatchTypeOK, Exit, NoNodes
<1>3. MapIsCurrent' /\ HistoryInv' /\ DownInv' /\ EntryInv'
  BY <1>1 DEF MapIsCurrent, HistoryInv, DownInv, EntryInv, Exit
<1>4. ClaimInv'
  BY <1>1 DEF IInv, ClaimInv, Claims, Promise!Right
<1>5. QED
  BY <1>2, <1>3, <1>4 DEF IInv

\* A node that has rebooted is as before the agent's first run, but for its
\* object.
LEMMA RebootIInv ==
  ASSUME IInv, Reboot
  PROVE  IInv'
<1>1. /\ phase' = "down" /\ own' = None /\ suspect' = {} /\ objects' = objects
      /\ store' = NoNodes /\ told' = NoNodes /\ view' = NoNodes /\ routes' = NoNodes
      /\ kernel' = [c \in Cidrs |-> None]
      /\ upsets' \in 0..MaxUpsets
  BY UpsetsAssumption DEF Reboot, PowerOff, Exit, Upset, IInv, TypeOK, WatchTypeOK
<1>2. TypeOK'
  BY <1>1 DEF IInv, TypeOK, WatchTypeOK, NoNodes
<1>3. /\ MapIsCurrent' /\ HistoryInv' /\ DownInv' /\ EntryInv'
      /\ ClaimInv'
  BY <1>1 DEF NoNodes, MapIsCurrent, HistoryInv, DownInv, EntryInv, ClaimInv, Claims, Promise!Right
<1>4. QED
  BY <1>2, <1>3 DEF IInv

\* The store moves on only once its last version has been handed out.
LEMMA ObserveIInv ==
  ASSUME IInv, NEW n \in Nodes, Observe(n)
  PROVE  IInv'
<1>1. /\ told[n] = store[n] /\ store' = [store EXCEPT ![n] = objects[n]]
      /\ phase' = phase /\ phase # "down"
      /\ UNCHANGED <<objects, told, own, view, suspect, upsets, routes, kernel>>
  BY DEF Observe, Watch
<1>2. store \in [Nodes -> Objects \cup {None}] /\ objects \in [Nodes -> Objects \cup {None}]
  BY DEF IInv, TypeOK, WatchTypeOK
<1>3. TypeOK'
  BY <1>1, <1>2 DEF IInv, TypeOK, WatchTypeOK
<1>4. HistoryInv'
  <2>1. told[n] = None => view[n] = None
    BY <1>1, PeerFacts DEF IInv, HistoryInv
  <2>2. QED
    BY <1>1, <1>2, <2>1 DEF IInv, HistoryInv
<1>5. MapIsCurrent' /\ DownInv' /\ EntryInv' /\ ClaimInv'
  BY <1>1 DEF IInv, MapIsCurrent, DownInv, EntryInv, ClaimInv, Claims, Promise!Right
<1>6. QED
  BY <1>3, <1>4, <1>5 DEF IInv

\* Run's result and changes at the API server do not touch the agent's state.
LEMMA QuietIInv ==
  ASSUME IInv,
         Synced \/ (\E n \in Nodes : Outside(n)) \/ UNCHANGED vars
  PROVE  IInv'
<1>1. /\ phase' = phase \/ (phase = "syncing" /\ phase' = "running")
      /\ UNCHANGED <<store, told, view, suspect, routes, kernel>>
  BY DEF Synced, Return, informer, Outside, Change, vars, watchVars
<1>2. TypeOK'
  <2>1. CASE Synced
    <3>1. OwnPodCIDR \in Cidrs \cup {None}
      BY SelfAssumption DEF IInv, TypeOK, WatchTypeOK, OwnPodCIDR, Objects
    <3>2. QED
      BY <2>1, <3>1 DEF IInv, TypeOK, WatchTypeOK, Synced, Return, informer
  <2>2. CASE \E n \in Nodes : Outside(n)
    BY <2>2, UpsetsAssumption DEF IInv, TypeOK, WatchTypeOK, Outside, Change, Upset
  <2>3. CASE UNCHANGED vars
    BY <2>3 DEF IInv, TypeOK, WatchTypeOK, vars, watchVars
  <2>4. QED
    BY <2>1, <2>2, <2>3
<1>3. MapIsCurrent' /\ HistoryInv' /\ DownInv' /\ EntryInv' /\ ClaimInv'
  BY <1>1 DEF IInv, MapIsCurrent, HistoryInv, DownInv, EntryInv, ClaimInv, Claims, Promise!Right
<1>4. QED
  BY <1>2, <1>3 DEF IInv

LEMMA HandleEffect ==
  ASSUME IInv, NEW n \in Nodes, Handle(n)
  PROVE  Effect(n) /\ phase # "down"
BY AddEffect, UpdateEffect, DeleteEffect DEF Handle, onAdd, onUpdate, onDelete

\* Every step keeps the invariant.
LEMMA NextIInv == IInv /\ [Next]_vars => IInv'
<1> SUFFICES ASSUME IInv, [Next]_vars PROVE IInv'
  OBVIOUS
<1>1. CASE Run
  BY <1>1, RunIInv
<1>2. CASE GiveUp \/ Die
  <2>1. Exit /\ routes' = NoNodes /\ UNCHANGED <<view, suspect, kernel>>
    BY <1>2 DEF GiveUp, NoOwnCidr, Die, Crash
  <2>2. upsets' \in 0..MaxUpsets
    BY <1>2, UpsetsAssumption DEF IInv, TypeOK, WatchTypeOK, GiveUp, NoOwnCidr, Die, Crash, Upset
  <2>3. QED
    BY <2>1, <2>2, ExitIInv
<1>3. CASE Synced \/ (\E n \in Nodes : Outside(n)) \/ UNCHANGED vars
  BY <1>3, QuietIInv
<1>4. CASE \E n \in Nodes : Handle(n)
  BY <1>4, HandleEffect, EffectIInv
<1>5. CASE \E n \in Nodes : Observe(n)
  BY <1>5, ObserveIInv
<1>6. CASE Reboot
  BY <1>6, RebootIInv
<1>7. QED
  BY <1>1, <1>2, <1>3, <1>4, <1>5, <1>6 DEF Next

LEMMA Invariance == Spec => []IInv
BY InitIInv, NextIInv, PTL DEF Spec

\* Every variable has its type: a route in the map or the kernel never lacks
\* its address (hostgw.go:118-120).
THEOREM TypeCorrect == Spec => []TypeOK
BY Invariance, PTL DEF IInv

\* The map names only versions the handlers saw last (hostgw.go:30-31, 136-166).
THEOREM CurrentMap == Spec => []MapIsCurrent
BY Invariance, PTL DEF IInv

\* The map has what onDelete needs for every pod CIDR above suspicion
\* (hostgw.go:170-188).
THEOREM OwningMap == Spec => []MapOwnsRoutes
<1>1. IInv => MapOwnsRoutes
  <2> SUFFICES ASSUME IInv, NEW n \in Nodes
               PROVE  /\ routes[n] # None /\ routes[n].cidr \notin suspect
                           => kernel[routes[n].cidr] = routes[n].ip
                      /\ told[n] # None /\ Peer(n, told[n]) # None
                           /\ Peer(n, told[n]).cidr \notin suspect
                           => routes[n] = Peer(n, told[n])
    BY DEF MapOwnsRoutes
  <2>1. told[n] # None => view[n] = Peer(n, told[n])
    BY DEF IInv, HistoryInv
  <2>2. routes[n] # None => routes[n] = view[n] /\ told[n] # None
    BY <2>1, PeerFacts DEF IInv, MapIsCurrent
  <2>3. ASSUME routes[n] # None, routes[n].cidr \notin suspect
        PROVE  kernel[routes[n].cidr] = routes[n].ip
    <3>1. routes[n].cidr \in Cidrs
      BY <2>3 DEF IInv, TypeOK, Peers
    <3>2. Promise!Right(routes[n].cidr)
      BY <2>3, <3>1 DEF IInv, ClaimInv
    <3>3. QED
      BY <2>2, <2>3, <3>2 DEF Promise!Right
  <2>4. QED
    BY <2>1, <2>3 DEF IInv, EntryInv
<1>2. QED
  BY <1>1, Invariance, PTL

\* Node sync in host-gateway mode implements Forwarding: a notification
\* changes the routes of its own node only, and all that are not suspect lead
\* to the node the agent last saw there (hostgw.go:112-188).
THEOREM Implements == Spec => RoutesFollowNodes
<1>1. Init => Promise!Init
  BY DEF Init, WatchInit, NoNodes, Promise!Init
<1>2. ASSUME IInv, IInv', [Next]_vars
      PROVE  [Promise!Next]_(Promise!forwardingVars)
  <2>1. CASE Run
    <3>1. {view[n].cidr : n \in Missed} = UNION {Promise!CidrOf(view[n]) : n \in Missed}
      BY DEF Missed, Promise!CidrOf
    <3>2. Promise!Lose(Missed)
      BY <2>1, <3>1 DEF Run, Lost, Promise!Lose
    <3>3. Missed \in SUBSET Nodes
      BY DEF Missed
    <3>4. QED
      BY <3>2, <3>3 DEF Promise!Next
  <2>2. ASSUME NEW n \in Nodes, Handle(n) PROVE Promise!Next
    <3> DEFINE new == Peer(n, store[n])
    <3>1. Effect(n)
      BY <1>2, <2>2, HandleEffect
    <3>2. new \in Peers \cup {None} /\ view \in [Nodes -> Peers \cup {None}]
      BY <1>2, PeerFacts DEF IInv, TypeOK, WatchTypeOK
    <3>3. \A c \in Cidrs \ suspect' : Promise!Right(c)'
      BY <1>2 DEF IInv, ClaimInv
    <3>4. \A c \in Cidrs \ (Promise!CidrOf(view[n]) \cup Promise!CidrOf(new)) :
            ~Claims(view, n, c) /\ ~(new # None /\ new.cidr = c)
      BY DEF Promise!CidrOf, Claims
    <3>5. Promise!Update(n, new)
      BY <3>1, <3>3, <3>4 DEF Effect, Promise!Update
    <3>6. QED
      BY <3>2, <3>5 DEF Promise!Next, Promise!Peers, Peers
  <2>3. CASE Synced \/ GiveUp \/ Die \/ (\E n \in Nodes : Outside(n) \/ Observe(n))
             \/ UNCHANGED vars
    BY <2>3 DEF Synced, Return, GiveUp, NoOwnCidr, Die, Crash, Exit, Outside, Change,
                Observe, Watch, vars, watchVars, Promise!forwardingVars
  <2>4. CASE Reboot
    BY <2>4 DEF Reboot, PowerOff, NoNodes, Promise!Forget, Promise!Next
  <2>5. QED
    BY <1>2, <2>1, <2>2, <2>3, <2>4 DEF Next
<1>3. QED
  BY <1>1, <1>2, Invariance, PTL DEF Spec, RoutesFollowNodes, Promise!Spec

-----------------------------------------------------------------------------
\* When the handlers have been told of everything the history has it too.
LEMMA SettledView ==
  ASSUME IInv, Settled, NEW n \in Nodes
  PROVE  view[n] = Peer(n, objects[n])
<1>1. told[n] = objects[n] /\ store[n] = objects[n] /\ phase # "down"
  BY DEF Settled
<1>2. QED
  BY <1>1, PeerFacts DEF IInv, HistoryInv

\* Then the routes are right wherever they are not exempt.
LEMMA SettledAgrees == IInv /\ Settled => Agrees
<1> SUFFICES ASSUME IInv, Settled, NEW c \in Cidrs \ suspect
             PROVE  /\ \A n \in Nodes :
                         Peer(n, objects[n]) # None /\ objects[n].cidr = c
                           => kernel[c] = objects[n].ip
                    /\ kernel[c] # None =>
                         \E n \in Nodes : Peer(n, objects[n]) # None /\ objects[n].cidr = c
  BY DEF Agrees
<1>1. Promise!Right(c)
  BY DEF IInv, ClaimInv
<1>2. \A n \in Nodes : view[n] = Peer(n, objects[n])
  BY SettledView
<1>3. \A n \in Nodes : view[n] # None => view[n] = objects[n]
  BY <1>2 DEF Peer
<1>4. QED
  BY <1>1, <1>2, <1>3 DEF Promise!Right

-----------------------------------------------------------------------------
\* Until the first upset the agent has seen each object as it is or not at
\* all, and no pod CIDR is suspect.
CalmInv ==
  upsets = 0 =>
    /\ Exclusive(objects)
    /\ suspect = {}
    /\ phase # "down" => store = objects
    /\ \A n \in Nodes : told[n] \in {None, objects[n]}
    /\ \A n \in Nodes : view[n] \in {None, Peer(n, objects[n])}

\* Nothing but an addition can be notified, and nobody contests it.
LEMMA CalmHandle ==
  ASSUME IInv, CalmInv, NEW n \in Nodes, Handle(n)
  PROVE  CalmInv'
<1> SUFFICES ASSUME upsets' = 0 PROVE CalmInv'
  BY DEF CalmInv
<1>1. /\ Notify(n) /\ phase # "down" /\ upsets \in Nat
      /\ told \in [Nodes -> Objects \cup {None}]
      /\ view \in [Nodes -> Peers \cup {None}]
  BY UpsetsAssumption DEF Handle, onAdd, onUpdate, onDelete, IInv, TypeOK, WatchTypeOK
<1>2. \A ok \in BOOLEAN : Calls(ok) => ok /\ upsets = 0
  BY <1>1 DEF Calls, Upset
<1>3. upsets = 0
  BY <1>2 DEF Handle, onAdd, onUpdate, onDelete
<1>4. store = objects /\ told[n] = None /\ told[n] # store[n]
  BY <1>1, <1>3 DEF CalmInv, Notify
<1>5. onAdd(n)
  BY <1>4 DEF Handle, onUpdate, onDelete
<1> DEFINE new == Peer(n, objects[n])
<1>6. PICK ok \in BOOLEAN : Calls(ok) /\ Learn(n, Failed(new, ok), Fresh(kernel, new, ok))
  BY <1>4, <1>5 DEF onAdd
<1>7. Failed(new, ok) = {}
  BY <1>2, <1>6 DEF Failed
<1>8. \A c \in Cidrs : new # None /\ new.cidr = c => ~Contested(n, c)
  <2> SUFFICES ASSUME new # None, NEW m \in Nodes \ {n}, Claims(view, m, new.cidr), new.cidr \in Cidrs
               PROVE  FALSE
    BY DEF Contested
  <2>1. new = objects[n] /\ view[m] = objects[m] /\ objects[n] # None /\ objects[m] # None
    BY <1>3, NoneAssumption DEF CalmInv, Claims, Peer
  <2>2. Claims(objects, n, new.cidr) /\ Claims(objects, m, new.cidr)
    BY <2>1 DEF Claims
  <2>3. QED
    BY <1>3, <2>2 DEF CalmInv, Exclusive
<1>9. suspect' = {} /\ view' = [view EXCEPT ![n] = new]
  BY <1>3, <1>4, <1>6, <1>7, <1>8 DEF CalmInv, Learn
<1>10. /\ objects' = objects /\ store' = store
       /\ told' = [told EXCEPT ![n] = objects[n]]
  BY <1>1, <1>4 DEF Notify
<1>11. Exclusive(objects)'
  BY <1>3, <1>10 DEF CalmInv, Exclusive, Claims
<1>12. QED
  BY <1>1, <1>3, <1>4, <1>9, <1>10, <1>11 DEF CalmInv

LEMMA InitCalm == Init => CalmInv
BY DEF Init, WatchInit, CalmInv, NoNodes

LEMMA NextCalm == IInv /\ CalmInv /\ [Next]_vars => CalmInv'
<1> SUFFICES ASSUME IInv, CalmInv, [Next]_vars PROVE CalmInv'
  OBVIOUS
<1>0. upsets \in Nat
  BY UpsetsAssumption DEF IInv, TypeOK, WatchTypeOK
<1>1. CASE Run
  <2> SUFFICES ASSUME upsets = 0 PROVE CalmInv'
    BY <1>1 DEF Run, Start, CalmInv
  <2>1. Missed = {}
    BY DEF CalmInv, Missed
  <2>2. /\ suspect' = {} /\ view' = [n \in Nodes |-> view[n]]
        /\ store' = objects /\ objects' = objects /\ told' = told
    BY <1>1, <2>1 DEF CalmInv, Run, Start, Lost
  <2>3. QED
    BY <2>2 DEF CalmInv, Exclusive, Claims
<1>2. CASE GiveUp
  BY <1>2 DEF CalmInv, GiveUp, NoOwnCidr, Exit, NoNodes, Exclusive, Claims
<1>3. CASE Die \/ Reboot \/ \E n \in Nodes : Outside(n)
  <2>1. upsets' # 0
    BY <1>0, <1>3 DEF Die, Crash, Reboot, PowerOff, Outside, Change, Upset
  <2>2. QED
    BY <2>1 DEF CalmInv
<1>4. CASE Synced \/ UNCHANGED vars
  <2>1. /\ UNCHANGED <<objects, store, told, view, suspect, upsets>>
        /\ phase' # "down" => phase # "down"
    BY <1>4 DEF Synced, Return, informer, vars, watchVars
  <2>2. QED
    BY <2>1 DEF CalmInv, Exclusive, Claims
<1>5. CASE \E n \in Nodes : Handle(n)
  BY <1>5, CalmHandle
<1>6. ASSUME NEW n \in Nodes, Observe(n) PROVE CalmInv'
  <2>1. phase # "down" /\ objects[n] # store[n] /\ upsets' = upsets
    BY <1>6 DEF Observe, Watch
  <2>2. QED
    BY <2>1 DEF CalmInv
<1>7. QED
  BY <1>1, <1>2, <1>3, <1>4, <1>5, <1>6 DEF Next

\* No sequence of adds, updates, deletions and restarts leaves a wrong route
\* outside the suspect pod CIDRs; and the exemption is not what makes this true:
\* a first agent in a cluster at rest blames no pod CIDR and makes exactly the
\* routes of the other nodes (hostgw.go:47, 112-188).
THEOREM SettledRight == Spec => []SettledIsRight
<1>1. Spec => []CalmInv
  BY InitCalm, NextCalm, Invariance, PTL DEF Spec
<1>2. IInv /\ CalmInv => SettledIsRight
  <2> SUFFICES ASSUME IInv, upsets = 0, Settled, suspect = {}, Agrees,
                      NEW c \in Cidrs, NEW ip \in Ips
               PROVE  kernel[c] = ip <=> CalledFor(c, ip)
    BY SettledAgrees DEF CalmInv, SettledIsRight
  <2>1. /\ \A n \in Nodes :
             Peer(n, objects[n]) # None /\ objects[n].cidr = c => kernel[c] = objects[n].ip
        /\ kernel[c] # None =>
             \E n \in Nodes : Peer(n, objects[n]) # None /\ objects[n].cidr = c
    BY DEF Agrees
  <2>2. \A n \in Nodes \ {Self} :
          objects[n] # None /\ objects[n].cidr = c /\ objects[n].ip = ip
            => Peer(n, objects[n]) # None
    BY NoneAssumption DEF Peer
  <2>3. QED
    BY <2>1, <2>2, NoneAssumption DEF CalledFor, Peer
<1>3. QED
  BY <1>1, <1>2, Invariance, PTL

\* What Forwarding promises holds of the routes in every state, also between
\* the notification of one node and that of the next.
THEOREM RoutesKept == Spec => []Promise!Kept
BY Implements, Promise!PromiseKept, PTL DEF RoutesFollowNodes
=============================================================================
