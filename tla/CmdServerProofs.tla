--------------------------- MODULE CmdServerProofs ---------------------------
(***************************************************************************)
(* Proofs about CmdServer for any containers, handlers and pod CIDR.  The  *)
(* inductive invariant follows an ADD step by step: what it has set up by  *)
(* then is there, because the lock keeps other calls for its container     *)
(* away and the open namespace keeps the kernel from destroying it.        *)
(***************************************************************************)
EXTENDS CmdServer, TLAPS

\* The runtime has begun to delete the container.
Ending == {"stopping", "leaving", "stopped", "removed"}

\* A handler's step belongs to its operation, and the address it carries is
\* the one the allocator recorded.
HandlerInv ==
  \A h \in Handlers :
    /\ handlers[h].at \in AddSteps => handlers[h].op = "add"
    /\ handlers[h].at \in DelSteps => handlers[h].op = "del"
    /\ handlers[h].at \in CheckSteps => handlers[h].op = "check"
    /\ handlers[h].at \in {"route", "addr", "gateway", "convert"} =>
         handlers[h].ip \in HostAddresses /\ held[Pod(h)] = handlers[h].ip

LockInv ==
  \A g, h \in Handlers :
    handlers[g].at \in Inside /\ handlers[h].at \in Inside /\ Pod(g) = Pod(h) => g = h

\* The runtime waits for the one call it is in.
HeardInv ==
  /\ \A h \in Handlers : handlers[h].heard =>
       /\ handlers[h].op = "add" => phase[Pod(h)] = "adding"
       /\ handlers[h].op = "del" => phase[Pod(h)] = "stopping"
       /\ handlers[h].op = "check" => phase[Pod(h)] = "checking"
  /\ \A g, h \in Handlers :
       handlers[g].heard /\ handlers[h].heard /\ Pod(g) = Pod(h) => g = h

\* A DEL exists only once the runtime deletes the container, and the path of
\* its namespace goes only then.
EndingInv ==
  /\ \A h \in Handlers : handlers[h].op = "del" => phase[Pod(h)] \in Ending
  /\ \A c \in Containers : phase[c] \notin Ending => netns[c] = "mounted"

\* Addresses and host routes depend on the veth they were made on.
RouteInv ==
  /\ \A c \in Containers : addr[c] # None => route[addr[c]] = c
  /\ \A ip \in HostAddresses : route[ip] # None => OnHost(route[ip])

\* What an ADD has set up by each of its steps; no pod runs meanwhile.
AddInv ==
  \A h \in Handlers : LET c == Pod(h) IN
    /\ At(h, "move") => veth[c] = "inner"
    /\ At(h, "linkup") => veth[c] = "moved"
    /\ At(h, "arp") => veth[c] = "up"
    /\ handlers[h].at \in {"ipam", "route", "addr", "gateway", "convert"} => veth[c] = "ready"
    /\ handlers[h].at \in {"addr", "gateway", "convert"} => route[handlers[h].ip] = c
    /\ handlers[h].at \in {"gateway", "convert"} => addr[c] = handlers[h].ip
    /\ At(h, "convert") => gateway[c]
    /\ handlers[h].at \in {"move", "linkup", "arp", "ipam", "route", "addr", "gateway", "convert"} =>
         phase[c] \notin {"running", "checking"}

\* Once a DEL has released c, unless it overtook an ADD, no ADD of c is left.
ReleaseInv ==
  \A c \in Containers \ overtaken :
    /\ \/ phase[c] \in {"stopped", "removed"}
       \/ \E h \in Handlers : handlers[h].at \in DelSteps /\ Pod(h) = c
       => \A g \in Handlers : Pod(g) = c => handlers[g].op # "add"
    /\ \/ phase[c] \in {"stopped", "removed"}
       \/ \E h \in Handlers : handlers[h].at \in {"find", "delete"} /\ Pod(h) = c
       => held[c] = None

IInv ==
  /\ TypeOK /\ HandlerInv /\ LockInv /\ HeardInv /\ EndingInv /\ RouteInv /\ AddInv
  /\ RunningPodsConnected /\ ReleaseInv

-----------------------------------------------------------------------------
LEMMA Distinct ==
  /\ None \notin Containers
  /\ None \notin HostAddresses
BY NoneAssumption, CidrAssumption DEF HostAddresses, HostRange, IsCidr

\* A handler that is not idle executes a call for a container.
LEMMA BusyHandler ==
  ASSUME TypeOK, NEW h \in Handlers,
         handlers[h].at # "idle" \/ handlers[h].op # "none" \/ handlers[h].heard
  PROVE  handlers[h] \in Calls /\ Pod(h) \in Containers
BY DEF TypeOK, Calls, Idle, Pod

\* A handler goes on to another step: whatever it does to the kernel, except to
\* namespaces, and to the allocator.
LEMMA GotoFacts ==
  ASSUME IInv, NEW h \in Handlers, NEW from \in Inside, NEW to \in Inside,
         At(h, from), Goto(h, to), UNCHANGED netns
  PROVE  /\ handlers' \in [Handlers -> Calls \cup {Idle}]
         /\ handlers'[h].at = to
         /\ handlers'[h].op = handlers[h].op
         /\ handlers'[h].c = handlers[h].c
         /\ handlers'[h].ip = handlers[h].ip
         /\ \A g \in Handlers : g # h => handlers'[g] = handlers[g]
         /\ up' = up /\ phase' = phase /\ overtaken' = overtaken
         /\ Pod(h) \in Containers
         /\ \A g \in Handlers : g # h /\ handlers[g].at \in Inside => Pod(g) # Pod(h)
         /\ LockInv' /\ HeardInv' /\ EndingInv'
<1>1. handlers[h].at \in Inside /\ handlers[h].at # "idle"
  BY DEF At, Inside, AddSteps, DelSteps, CheckSteps
<1>2. handlers[h] \in Calls /\ Pod(h) \in Containers
  BY <1>1, BusyHandler DEF IInv
<1>3. handlers \in [Handlers -> Calls \cup {Idle}]
  BY DEF IInv, TypeOK
<1>4. handlers' = [handlers EXCEPT ![h].at = to]
  BY DEF Goto
<1>5. handlers'[h] = [handlers[h] EXCEPT !.at = to]
  BY <1>3, <1>4
<1>6. handlers'[h] \in Calls
  BY <1>2, <1>5 DEF Calls
<1>7. /\ handlers' \in [Handlers -> Calls \cup {Idle}]
      /\ handlers'[h].at = to
      /\ handlers'[h].op = handlers[h].op
      /\ handlers'[h].c = handlers[h].c
      /\ handlers'[h].ip = handlers[h].ip
      /\ handlers'[h].heard = handlers[h].heard
      /\ \A g \in Handlers : g # h => handlers'[g] = handlers[g]
      /\ up' = up /\ phase' = phase /\ overtaken' = overtaken
  BY <1>2, <1>3, <1>4, <1>5, <1>6 DEF Goto, Calls
<1>8. \A g \in Handlers : g # h /\ handlers[g].at \in Inside => Pod(g) # Pod(h)
  BY <1>1 DEF IInv, LockInv
<1>9. LockInv'
  BY <1>1, <1>7 DEF IInv, LockInv, Pod
<1>10. HeardInv'
  BY <1>7 DEF IInv, HeardInv, Pod
<1>11. EndingInv'
  BY <1>7 DEF IInv, EndingInv, Pod
<1>12. QED
  BY <1>2, <1>7, <1>8, <1>9, <1>10, <1>11

LEMMA PhaseAnswers ==
  ASSUME NEW p \in Phases
  PROVE  Answered(p) \in Phases /\ Unanswered(p) \in Phases
BY DEF Answered, Unanswered, Phases

\* A handler returns.  If the shim waits, the runtime moves on from the call.
LEMMA AnswerFacts ==
  ASSUME IInv, NEW h \in Handlers, handlers[h].at \in Inside,
         Ok(h) \/ Error(h), UNCHANGED netns
  PROVE  /\ handlers' \in [Handlers -> Calls \cup {Idle}]
         /\ handlers'[h] = Idle
         /\ \A g \in Handlers : g # h => handlers'[g] = handlers[g]
         /\ phase' \in [Containers -> Phases]
         /\ \A c \in Containers : c # Pod(h) => phase'[c] = phase[c]
         /\ \/ phase'[Pod(h)] = phase[Pod(h)]
            \/ /\ handlers[h].op = "add" /\ phase[Pod(h)] = "adding"
               /\ phase'[Pod(h)] \in {"running", "failed"}
               /\ Error(h) => phase'[Pod(h)] = "failed"
            \/ /\ handlers[h].op = "del" /\ phase[Pod(h)] = "stopping"
               /\ phase'[Pod(h)] \in {"stopped", "leaving"}
               /\ Error(h) => phase'[Pod(h)] = "leaving"
            \/ /\ handlers[h].op = "check" /\ phase[Pod(h)] = "checking"
               /\ phase'[Pod(h)] = "running"
         /\ up' = up /\ overtaken' = overtaken
         /\ Pod(h) \in Containers
         /\ \A g \in Handlers : g # h /\ handlers[g].at \in Inside => Pod(g) # Pod(h)
         /\ LockInv' /\ HeardInv' /\ EndingInv'
<1> DEFINE c == Pod(h)
<1>1. handlers[h] \in Calls /\ c \in Containers /\ phase[c] \in Phases /\ TypeOK
  BY BusyHandler DEF IInv, TypeOK, Inside, AddSteps, DelSteps, CheckSteps
<1>2. PICK p \in Phases : Answer(h, p) /\ (p = Answered(phase[c]) \/ p = Unanswered(phase[c]))
                          /\ (Error(h) => p = Unanswered(phase[c]))
  BY <1>1, PhaseAnswers DEF Ok, Error
<1>3. /\ handlers' \in [Handlers -> Calls \cup {Idle}]
      /\ handlers'[h] = Idle
      /\ \A g \in Handlers : g # h => handlers'[g] = handlers[g]
      /\ phase' \in [Containers -> Phases]
      /\ \A d \in Containers : d # c => phase'[d] = phase[d]
      /\ phase'[c] = IF handlers[h].heard THEN p ELSE phase[c]
      /\ up' = up /\ overtaken' = overtaken
  BY <1>1, <1>2 DEF TypeOK, Answer
<1>4. handlers[h].heard => \/ handlers[h].op = "add" /\ phase[c] = "adding"
                           \/ handlers[h].op = "del" /\ phase[c] = "stopping"
                           \/ handlers[h].op = "check" /\ phase[c] = "checking"
  BY <1>1 DEF IInv, HeardInv, Calls
<1>5. \/ phase'[c] = phase[c]
      \/ /\ handlers[h].op = "add" /\ phase[c] = "adding"
         /\ phase'[c] \in {"running", "failed"}
         /\ Error(h) => phase'[c] = "failed"
      \/ /\ handlers[h].op = "del" /\ phase[c] = "stopping"
         /\ phase'[c] \in {"stopped", "leaving"}
         /\ Error(h) => phase'[c] = "leaving"
      \/ /\ handlers[h].op = "check" /\ phase[c] = "checking"
         /\ phase'[c] = "running"
  BY <1>2, <1>3, <1>4 DEF Answered, Unanswered
<1>6. \A g \in Handlers : g # h /\ handlers[g].at \in Inside => Pod(g) # c
  BY DEF IInv, LockInv
<1>7. LockInv'
  BY <1>3 DEF IInv, LockInv, Idle, Inside, AddSteps, DelSteps, CheckSteps, Pod
<1>8. HeardInv'
  <2>1. ASSUME NEW g \in Handlers, g # h, handlers[g].heard
        PROVE  /\ Pod(g) \in Containers
               /\ phase'[Pod(g)] = phase[Pod(g)]
    BY <1>1, <1>3, <1>5, <2>1, BusyHandler DEF IInv, HeardInv, TypeOK, Calls
  <2>2. QED
    BY <1>3, <2>1 DEF IInv, HeardInv, Idle, Pod
<1>9. EndingInv'
  <2>1. phase[c] \in Ending <=> phase'[c] \in Ending
    BY <1>5 DEF Ending
  <2>2. \A g \in Handlers : handlers[g].op = "del" => Pod(g) \in Containers
    BY BusyHandler DEF IInv
  <2>3. QED
    BY <1>3, <2>1, <2>2 DEF IInv, EndingInv, Idle, Pod
<1>10. QED
  BY <1>1, <1>3, <1>5, <1>6, <1>7, <1>8, <1>9

-----------------------------------------------------------------------------
\* A handler goes on and nothing else changes: GetNS, and the lookup of CHECK.
LEMMA MoveIInv ==
  ASSUME IInv, NEW h \in Handlers, NEW from \in Inside, NEW to \in Inside,
         \/ from = "open" /\ to = "veth"
         \/ from = "find" /\ to = "delete"
         \/ from = "lookup" /\ to = "look"
         \/ from = "look" /\ to = "inspect",
         At(h, from), Goto(h, to), UNCHANGED <<kernel, held>>
  PROVE  IInv'
<1> USE DEF IInv, kernel
<1>1. /\ handlers' \in [Handlers -> Calls \cup {Idle}]
      /\ handlers'[h].at = to
      /\ handlers'[h].op = handlers[h].op
      /\ handlers'[h].c = handlers[h].c
      /\ handlers'[h].ip = handlers[h].ip
      /\ \A g \in Handlers : g # h => handlers'[g] = handlers[g]
      /\ up' = up /\ phase' = phase /\ overtaken' = overtaken
      /\ LockInv' /\ HeardInv' /\ EndingInv'
  BY GotoFacts
<1>2. TypeOK'
  BY <1>1 DEF TypeOK, KernelTypeOK
<1>3. HandlerInv'
  BY <1>1 DEF HandlerInv, At, Pod, AddSteps, DelSteps, CheckSteps
<1>4. RouteInv'
  BY DEF RouteInv, OnHost
<1>5. AddInv'
  BY <1>1 DEF AddInv, At, Pod
<1>6. RunningPodsConnected'
  BY <1>1 DEF RunningPodsConnected
<1>7. ReleaseInv'
  BY <1>1 DEF ReleaseInv, At, Pod, DelSteps
<1>8. QED
  BY <1>1, <1>2, <1>3, <1>4, <1>5, <1>6, <1>7

\* A veth pair is made where there was none, so no pod runs there.
LEMMA AddVethIInv ==
  ASSUME IInv, NEW h \in Handlers, AddVeth(h)
  PROVE  IInv'
<1> USE Distinct DEF IInv, At, SetupVeth
<1>1. "move" \in Inside /\ "veth" \in Inside /\ handlers[h].at = "veth"
  BY DEF Inside, AddSteps, AddVeth, SetupVeth
<1>2. /\ handlers' \in [Handlers -> Calls \cup {Idle}]
      /\ handlers'[h].at = "move"
      /\ handlers'[h].op = handlers[h].op
      /\ handlers'[h].c = handlers[h].c
      /\ handlers'[h].ip = handlers[h].ip
      /\ \A g \in Handlers : g # h => handlers'[g] = handlers[g]
      /\ up' = up /\ phase' = phase /\ overtaken' = overtaken
      /\ Pod(h) \in Containers
      /\ \A g \in Handlers : g # h /\ handlers[g].at \in Inside => Pod(g) # Pod(h)
      /\ LockInv' /\ HeardInv' /\ EndingInv'
  BY <1>1, GotoFacts DEF AddVeth, SetupVeth
<1>3. phase[Pod(h)] \notin {"running", "checking"}
  BY <1>2 DEF RunningPodsConnected, AddVeth
<1>4. TypeOK'
  BY <1>2 DEF TypeOK, KernelTypeOK, VethStates, AddVeth
<1>5. HandlerInv'
  BY <1>1, <1>2 DEF HandlerInv, Pod, AddSteps, DelSteps, CheckSteps, AddVeth
<1>6. RouteInv'
  BY <1>2 DEF TypeOK, KernelTypeOK, RouteInv, OnHost, AddVeth
<1>7. AddInv'
  BY <1>1, <1>2, <1>3 DEF TypeOK, KernelTypeOK, AddInv, Pod, Inside, AddSteps, AddVeth
<1>8. RunningPodsConnected'
  BY <1>2, <1>3 DEF TypeOK, KernelTypeOK, RunningPodsConnected, AddVeth
<1>9. ReleaseInv'
  BY <1>2 DEF ReleaseInv, Pod, DelSteps, AddVeth
<1>10. QED
  BY <1>2, <1>4, <1>5, <1>6, <1>7, <1>8, <1>9

\* The host end leaves the pod, comes up, answers ARP.
LEMMA HostEndIInv ==
  ASSUME IInv, NEW h \in Handlers, NEW from, NEW to, NEW v, NEW w,
         \/ from = "move" /\ to = "linkup" /\ v = "inner" /\ w = "moved"
         \/ from = "linkup" /\ to = "arp" /\ v = "moved" /\ w = "up"
         \/ from = "arp" /\ to = "ipam" /\ v = "up" /\ w = "ready",
         At(h, from), HostEnd(Pod(h), v, w), Goto(h, to), UNCHANGED held
  PROVE  IInv'
<1> USE Distinct DEF IInv, At, HostEnd
<1>1. from \in Inside /\ to \in Inside
  BY DEF Inside, AddSteps
<1>2. /\ handlers' \in [Handlers -> Calls \cup {Idle}]
      /\ handlers'[h].at = to
      /\ handlers'[h].op = handlers[h].op
      /\ handlers'[h].c = handlers[h].c
      /\ handlers'[h].ip = handlers[h].ip
      /\ \A g \in Handlers : g # h => handlers'[g] = handlers[g]
      /\ up' = up /\ phase' = phase /\ overtaken' = overtaken
      /\ Pod(h) \in Containers
      /\ \A g \in Handlers : g # h /\ handlers[g].at \in Inside => Pod(g) # Pod(h)
      /\ LockInv' /\ HeardInv' /\ EndingInv'
  BY <1>1, GotoFacts
<1>3. phase[Pod(h)] \notin {"running", "checking"}
  BY DEF AddInv
<1>4. TypeOK'
  BY <1>2 DEF TypeOK, KernelTypeOK, VethStates
<1>5. HandlerInv'
  BY <1>2 DEF HandlerInv, Pod, AddSteps, DelSteps, CheckSteps
<1>6. RouteInv'
  BY <1>2 DEF TypeOK, KernelTypeOK, RouteInv, OnHost
<1>7. AddInv'
  BY <1>1, <1>2, <1>3 DEF TypeOK, KernelTypeOK, AddInv, Pod, Inside, AddSteps
<1>8. RunningPodsConnected'
  BY <1>2, <1>3 DEF TypeOK, KernelTypeOK, RunningPodsConnected
<1>9. ReleaseInv'
  BY <1>2 DEF ReleaseInv, Pod, DelSteps
<1>10. QED
  BY <1>2, <1>4, <1>5, <1>6, <1>7, <1>8, <1>9

\* The allocator answers with the address it has recorded.
LEMMA AddIpamIInv ==
  ASSUME IInv, NEW h \in Handlers, AddIpam(h)
  PROVE  IInv'
<1> USE Distinct DEF IInv, At
<1>1. /\ handlers[h].at = "ipam" /\ handlers[h].op = "add"
      /\ handlers[h] \in Calls /\ Pod(h) \in Containers
  BY BusyHandler DEF AddIpam, HandlerInv, AddSteps
<1>2. PICK ip \in HostAddresses :
        /\ held' = [held EXCEPT ![Pod(h)] = ip]
        /\ handlers' = [handlers EXCEPT ![h].at = "route", ![h].ip = ip]
  BY DEF AddIpam
<1>3. handlers'[h] = [handlers[h] EXCEPT !.at = "route", !.ip = ip]
  BY <1>1, <1>2 DEF TypeOK
<1>4. /\ handlers'[h] \in Calls /\ handlers'[h].at = "route" /\ handlers'[h].ip = ip
      /\ handlers'[h].op = "add" /\ handlers'[h].c = handlers[h].c
      /\ handlers'[h].heard = handlers[h].heard
      /\ \A g \in Handlers : g # h => handlers'[g] = handlers[g]
  BY <1>1, <1>2, <1>3 DEF TypeOK, Calls, Inside, AddSteps, Pod
<1>5. /\ held'[Pod(h)] = ip /\ \A d \in Containers : d # Pod(h) => held'[d] = held[d]
      /\ UNCHANGED <<netns, veth, addr, gateway, route, up, phase, overtaken>>
  BY <1>1, <1>2 DEF TypeOK, AddIpam, kernel
<1>6. \A g \in Handlers : g # h /\ handlers[g].at \in Inside => Pod(g) # Pod(h)
  BY <1>1 DEF LockInv, Inside, AddSteps
<1>7. TypeOK'
  BY <1>2, <1>4, <1>5 DEF TypeOK, KernelTypeOK
<1>8. HandlerInv'
  <2>1. ASSUME NEW g \in Handlers, g # h, handlers[g].at \in {"route", "addr", "gateway", "convert"}
        PROVE  Pod(g) \in Containers /\ Pod(g) # Pod(h)
    BY <1>6, <2>1, BusyHandler DEF Inside, AddSteps
  <2>2. QED
    BY <1>4, <1>5, <2>1 DEF HandlerInv, Pod, AddSteps, DelSteps, CheckSteps
<1>9. LockInv'
  BY <1>1, <1>4, <1>6 DEF LockInv, Pod, Inside, AddSteps
<1>10. HeardInv' /\ EndingInv'
  BY <1>1, <1>4, <1>5 DEF HeardInv, EndingInv, Pod
<1>11. RouteInv'
  BY <1>5 DEF RouteInv, OnHost
<1>12. AddInv'
  BY <1>1, <1>4, <1>5 DEF AddInv, Pod
<1>13. RunningPodsConnected'
  BY <1>1, <1>5 DEF AddInv, RunningPodsConnected
<1>14. ReleaseInv'
  BY <1>1, <1>4, <1>5 DEF ReleaseInv, Pod, DelSteps
<1>15. QED
  BY <1>7, <1>8, <1>9, <1>10, <1>11, <1>12, <1>13, <1>14

\* The host route is made only where there was none.
LEMMA AddHostRouteIInv ==
  ASSUME IInv, NEW h \in Handlers, AddHostRoute(h)
  PROVE  IInv'
<1> USE Distinct DEF IInv, At, SetupHostRoute, OnHost
<1>1. "addr" \in Inside /\ "route" \in Inside /\ handlers[h].at = "route"
  BY DEF Inside, AddSteps, AddHostRoute
<1>2. /\ handlers' \in [Handlers -> Calls \cup {Idle}]
      /\ handlers'[h].at = "addr"
      /\ handlers'[h].op = handlers[h].op
      /\ handlers'[h].c = handlers[h].c
      /\ handlers'[h].ip = handlers[h].ip
      /\ \A g \in Handlers : g # h => handlers'[g] = handlers[g]
      /\ up' = up /\ phase' = phase /\ overtaken' = overtaken
      /\ Pod(h) \in Containers
      /\ \A g \in Handlers : g # h /\ handlers[g].at \in Inside => Pod(g) # Pod(h)
      /\ LockInv' /\ HeardInv' /\ EndingInv'
  BY <1>1, GotoFacts DEF AddHostRoute
<1>3. phase[Pod(h)] \notin {"running", "checking"} /\ handlers[h].ip \in HostAddresses
  BY <1>1 DEF AddInv, HandlerInv
<1>4. TypeOK'
  BY <1>2, <1>3 DEF TypeOK, KernelTypeOK, AddHostRoute
<1>5. HandlerInv'
  BY <1>1, <1>2 DEF HandlerInv, Pod, AddSteps, DelSteps, CheckSteps, AddHostRoute
<1>6. RouteInv'
  BY <1>2, <1>3 DEF TypeOK, KernelTypeOK, RouteInv, AddHostRoute
<1>7. AddInv'
  <2>1. ASSUME NEW g \in Handlers, g # h, handlers[g].at \in {"addr", "gateway", "convert"}
        PROVE  handlers[g].ip \in HostAddresses /\ handlers[g].ip # handlers[h].ip
    BY <1>1, <2>1, BusyHandler DEF AddInv, HandlerInv, AddHostRoute
  <2>2. route'[handlers[h].ip] = Pod(h)
    BY <1>2, <1>3 DEF TypeOK, KernelTypeOK, AddHostRoute
  <2>3. QED
    BY <1>1, <1>2, <1>3, <2>1, <2>2 DEF TypeOK, KernelTypeOK, AddInv, Pod, AddHostRoute
<1>8. RunningPodsConnected'
  BY <1>2, <1>3 DEF TypeOK, KernelTypeOK, RunningPodsConnected, AddHostRoute
<1>9. ReleaseInv'
  BY <1>2 DEF ReleaseInv, Pod, DelSteps, AddHostRoute
<1>10. QED
  BY <1>2, <1>4, <1>5, <1>6, <1>7, <1>8, <1>9

\* The address follows its host route.
LEMMA AddAddressIInv ==
  ASSUME IInv, NEW h \in Handlers, AddAddress(h)
  PROVE  IInv'
<1> USE Distinct DEF IInv, At, ConfigureInterface
<1>1. "gateway" \in Inside /\ "addr" \in Inside /\ handlers[h].at = "addr"
  BY DEF Inside, AddSteps, AddAddress, ConfigureInterface
<1>2. /\ handlers' \in [Handlers -> Calls \cup {Idle}]
      /\ handlers'[h].at = "gateway"
      /\ handlers'[h].op = handlers[h].op
      /\ handlers'[h].c = handlers[h].c
      /\ handlers'[h].ip = handlers[h].ip
      /\ \A g \in Handlers : g # h => handlers'[g] = handlers[g]
      /\ up' = up /\ phase' = phase /\ overtaken' = overtaken
      /\ Pod(h) \in Containers
      /\ \A g \in Handlers : g # h /\ handlers[g].at \in Inside => Pod(g) # Pod(h)
      /\ LockInv' /\ HeardInv' /\ EndingInv'
  BY <1>1, GotoFacts DEF AddAddress, ConfigureInterface
<1>3. phase[Pod(h)] \notin {"running", "checking"} /\ handlers[h].ip \in HostAddresses
  BY <1>1 DEF AddInv, HandlerInv
<1>4. TypeOK'
  BY <1>2, <1>3 DEF TypeOK, KernelTypeOK, AddAddress
<1>5. HandlerInv'
  BY <1>1, <1>2 DEF HandlerInv, Pod, AddSteps, DelSteps, CheckSteps, AddAddress
<1>6. RouteInv'
  BY <1>1, <1>2, <1>3 DEF TypeOK, KernelTypeOK, AddInv, RouteInv, OnHost, AddAddress
<1>7. AddInv'
  BY <1>1, <1>2, <1>3 DEF TypeOK, KernelTypeOK, AddInv, Pod, Inside, AddSteps, AddAddress
<1>8. RunningPodsConnected'
  BY <1>2, <1>3 DEF TypeOK, KernelTypeOK, RunningPodsConnected, AddAddress
<1>9. ReleaseInv'
  BY <1>2 DEF ReleaseInv, Pod, DelSteps, AddAddress
<1>10. QED
  BY <1>2, <1>4, <1>5, <1>6, <1>7, <1>8, <1>9

\* DEL releases the address; its lock keeps every ADD of the container away.
LEMMA DelReleaseIInv ==
  ASSUME IInv, NEW h \in Handlers, DelRelease(h)
  PROVE  IInv'
<1> USE Distinct DEF IInv, At, kernel
<1>1. "find" \in Inside /\ "release" \in Inside /\ handlers[h].at = "release"
  BY DEF Inside, DelSteps, DelRelease
<1>2. /\ handlers' \in [Handlers -> Calls \cup {Idle}]
      /\ handlers'[h].at = "find"
      /\ handlers'[h].op = handlers[h].op
      /\ handlers'[h].c = handlers[h].c
      /\ handlers'[h].ip = handlers[h].ip
      /\ \A g \in Handlers : g # h => handlers'[g] = handlers[g]
      /\ up' = up /\ phase' = phase /\ overtaken' = overtaken
      /\ Pod(h) \in Containers
      /\ \A g \in Handlers : g # h /\ handlers[g].at \in Inside => Pod(g) # Pod(h)
      /\ LockInv' /\ HeardInv' /\ EndingInv'
  BY <1>1, GotoFacts DEF DelRelease
<1>3. phase[Pod(h)] \in Ending
  BY <1>1 DEF HandlerInv, EndingInv, DelSteps
<1>4. /\ held' \in [Containers -> HostAddresses \cup {None}]
      /\ held'[Pod(h)] = None
      /\ \A d \in Containers : d # Pod(h) => held'[d] = held[d]
      /\ UNCHANGED <<netns, veth, addr, gateway, route>>
  BY <1>2 DEF TypeOK, DelRelease
<1>5. TypeOK'
  BY <1>2, <1>4 DEF TypeOK, KernelTypeOK
<1>6. HandlerInv'
  <2>1. ASSUME NEW g \in Handlers, g # h, handlers[g].at \in {"route", "addr", "gateway", "convert"}
        PROVE  Pod(g) \in Containers /\ Pod(g) # Pod(h)
    BY <1>2, <2>1, BusyHandler DEF Inside, AddSteps
  <2>2. QED
    BY <1>1, <1>2, <1>4, <2>1 DEF HandlerInv, Pod, AddSteps, DelSteps, CheckSteps
<1>7. RouteInv'
  BY <1>4 DEF RouteInv, OnHost
<1>8. AddInv'
  BY <1>2, <1>4 DEF AddInv, Pod
<1>9. RunningPodsConnected'
  BY <1>2, <1>3, <1>4 DEF RunningPodsConnected, Ending
<1>10. ReleaseInv'
  <2> SUFFICES ASSUME NEW c \in Containers, c \notin overtaken
               PROVE  /\ \/ phase[c] \in {"stopped", "removed"}
                         \/ \E g \in Handlers : handlers'[g].at \in DelSteps /\ Pod(g)' = c
                         => \A g \in Handlers : Pod(g)' = c => handlers'[g].op # "add"
                      /\ \/ phase[c] \in {"stopped", "removed"}
                         \/ \E g \in Handlers : handlers'[g].at \in {"find", "delete"} /\ Pod(g)' = c
                         => held'[c] = None
    BY <1>2 DEF ReleaseInv
  <2>1. \A g \in Handlers : /\ Pod(g)' = Pod(g) /\ handlers'[g].op = handlers[g].op
                            /\ handlers'[g].at \in DelSteps => handlers[g].at \in DelSteps
                            /\ g # h => handlers'[g].at = handlers[g].at
    BY <1>1, <1>2 DEF Pod, DelSteps
  <2>2. QED
    BY <1>2, <1>4, <2>1 DEF ReleaseInv
<1>11. QED
  BY <1>2, <1>5, <1>6, <1>7, <1>8, <1>9, <1>10

\* The default route follows the address.
LEMMA AddGatewayIInv ==
  ASSUME IInv, NEW h \in Handlers, AddGateway(h)
  PROVE  IInv'
<1> USE Distinct DEF IInv, At, AddDefaultRoute
<1>1. "convert" \in Inside /\ "gateway" \in Inside /\ handlers[h].at = "gateway"
  BY DEF Inside, AddSteps, AddGateway, AddDefaultRoute
<1>2. /\ handlers' \in [Handlers -> Calls \cup {Idle}]
      /\ handlers'[h].at = "convert"
      /\ handlers'[h].op = handlers[h].op
      /\ handlers'[h].c = handlers[h].c
      /\ handlers'[h].ip = handlers[h].ip
      /\ \A g \in Handlers : g # h => handlers'[g] = handlers[g]
      /\ up' = up /\ phase' = phase /\ overtaken' = overtaken
      /\ Pod(h) \in Containers
      /\ \A g \in Handlers : g # h /\ handlers[g].at \in Inside => Pod(g) # Pod(h)
      /\ LockInv' /\ HeardInv' /\ EndingInv'
  BY <1>1, GotoFacts DEF AddGateway, AddDefaultRoute
<1>3. phase[Pod(h)] \notin {"running", "checking"} /\ handlers[h].ip \in HostAddresses
  BY <1>1 DEF AddInv, HandlerInv
<1>4. TypeOK'
  BY <1>2, <1>3 DEF TypeOK, KernelTypeOK, AddGateway
<1>5. HandlerInv'
  BY <1>1, <1>2 DEF HandlerInv, Pod, AddSteps, DelSteps, CheckSteps, AddGateway
<1>6. RouteInv'
  BY <1>1, <1>2, <1>3 DEF TypeOK, KernelTypeOK, AddInv, RouteInv, OnHost, AddGateway
<1>7. AddInv'
  BY <1>1, <1>2, <1>3 DEF TypeOK, KernelTypeOK, AddInv, Pod, Inside, AddSteps, AddGateway
<1>8. RunningPodsConnected'
  BY <1>2, <1>3 DEF TypeOK, KernelTypeOK, RunningPodsConnected, AddGateway
<1>9. ReleaseInv'
  BY <1>2 DEF ReleaseInv, Pod, DelSteps, AddGateway
<1>10. QED
  BY <1>2, <1>4, <1>5, <1>6, <1>7, <1>8, <1>9

\* ADD has done all it does; if it is heard, the pod runs.
LEMMA AddConvertIInv ==
  ASSUME IInv, NEW h \in Handlers, AddConvert(h)
  PROVE  IInv'
<1> USE Distinct DEF IInv, At, kernel
<1>1. handlers[h].at \in Inside
  BY DEF Inside, AddSteps, DelSteps, CheckSteps, AddConvert
<1>2. /\ handlers' \in [Handlers -> Calls \cup {Idle}]
      /\ handlers'[h] = Idle
      /\ \A g \in Handlers : g # h => handlers'[g] = handlers[g]
      /\ phase' \in [Containers -> Phases]
      /\ \A c \in Containers : c # Pod(h) => phase'[c] = phase[c]
      /\ \/ phase'[Pod(h)] = phase[Pod(h)]
         \/ /\ handlers[h].op = "add" /\ phase[Pod(h)] = "adding"
            /\ phase'[Pod(h)] \in {"running", "failed"}
            /\ Error(h) => phase'[Pod(h)] = "failed"
         \/ /\ handlers[h].op = "del" /\ phase[Pod(h)] = "stopping"
            /\ phase'[Pod(h)] \in {"stopped", "leaving"}
            /\ Error(h) => phase'[Pod(h)] = "leaving"
         \/ /\ handlers[h].op = "check" /\ phase[Pod(h)] = "checking"
            /\ phase'[Pod(h)] = "running"
      /\ up' = up /\ overtaken' = overtaken
      /\ Pod(h) \in Containers
      /\ \A g \in Handlers : g # h /\ handlers[g].at \in Inside => Pod(g) # Pod(h)
      /\ LockInv' /\ HeardInv' /\ EndingInv'
  BY <1>1, AnswerFacts DEF AddConvert
<1>3. /\ handlers[h].at = "convert" /\ handlers[h].op = "add"
      /\ UNCHANGED <<netns, veth, addr, gateway, route, held>>
  BY DEF AddConvert, HandlerInv, AddSteps
<1>4. TypeOK'
  BY <1>2, <1>3 DEF TypeOK, KernelTypeOK
<1>5. HandlerInv'
  BY <1>2, <1>3 DEF HandlerInv, Pod, Idle, AddSteps, DelSteps, CheckSteps
<1>6. RouteInv'
  BY <1>3 DEF RouteInv, OnHost
<1>7. AddInv'
  <2>1. \A g \in Handlers : g # h /\ handlers[g].at \in Inside =>
          Pod(g) \in Containers /\ phase'[Pod(g)] = phase[Pod(g)]
    BY <1>2, BusyHandler DEF Inside, AddSteps, DelSteps, CheckSteps
  <2>2. QED
    BY <1>2, <1>3, <2>1 DEF AddInv, Pod, Idle, Inside, AddSteps
<1>8. RunningPodsConnected'
  <2>1. /\ veth[Pod(h)] = "ready" /\ gateway[Pod(h)]
        /\ addr[Pod(h)] # None /\ addr[Pod(h)] = held[Pod(h)] /\ route[addr[Pod(h)]] = Pod(h)
    BY <1>2, <1>3 DEF AddInv, HandlerInv, TypeOK, KernelTypeOK
  <2>2. QED
    BY <1>2, <1>3, <2>1 DEF RunningPodsConnected, TypeOK, KernelTypeOK
<1>9. ReleaseInv'
  BY <1>2, <1>3 DEF ReleaseInv, Pod, Idle, DelSteps
<1>10. QED
  BY <1>2, <1>4, <1>5, <1>6, <1>7, <1>8, <1>9

\* DEL ends without having looked for the veth.
LEMMA DelSkipsIInv ==
  ASSUME IInv, NEW h \in Handlers, DelSkips(h)
  PROVE  IInv'
<1> USE Distinct DEF IInv, At, kernel
<1>1. handlers[h].at \in Inside
  BY DEF Inside, AddSteps, DelSteps, CheckSteps, DelSkips
<1>2. /\ handlers' \in [Handlers -> Calls \cup {Idle}]
      /\ handlers'[h] = Idle
      /\ \A g \in Handlers : g # h => handlers'[g] = handlers[g]
      /\ phase' \in [Containers -> Phases]
      /\ \A c \in Containers : c # Pod(h) => phase'[c] = phase[c]
      /\ \/ phase'[Pod(h)] = phase[Pod(h)]
         \/ /\ handlers[h].op = "add" /\ phase[Pod(h)] = "adding"
            /\ phase'[Pod(h)] \in {"running", "failed"}
            /\ Error(h) => phase'[Pod(h)] = "failed"
         \/ /\ handlers[h].op = "del" /\ phase[Pod(h)] = "stopping"
            /\ phase'[Pod(h)] \in {"stopped", "leaving"}
            /\ Error(h) => phase'[Pod(h)] = "leaving"
         \/ /\ handlers[h].op = "check" /\ phase[Pod(h)] = "checking"
            /\ phase'[Pod(h)] = "running"
      /\ up' = up /\ overtaken' = overtaken
      /\ Pod(h) \in Containers
      /\ \A g \in Handlers : g # h /\ handlers[g].at \in Inside => Pod(g) # Pod(h)
      /\ LockInv' /\ HeardInv' /\ EndingInv'
  BY <1>1, AnswerFacts DEF DelSkips
<1>3. /\ handlers[h].at = "find" /\ handlers[h].op = "del"
      /\ UNCHANGED <<netns, veth, addr, gateway, route, held>>
  BY DEF DelSkips, HandlerInv, DelSteps
<1>4. TypeOK'
  BY <1>2, <1>3 DEF TypeOK, KernelTypeOK
<1>5. HandlerInv'
  BY <1>2, <1>3 DEF HandlerInv, Pod, Idle, AddSteps, DelSteps, CheckSteps
<1>6. RouteInv'
  BY <1>3 DEF RouteInv, OnHost
<1>7. AddInv'
  <2>1. \A g \in Handlers : g # h /\ handlers[g].at \in Inside =>
          Pod(g) \in Containers /\ phase'[Pod(g)] = phase[Pod(g)]
    BY <1>2, BusyHandler DEF Inside, AddSteps, DelSteps, CheckSteps
  <2>2. QED
    BY <1>2, <1>3, <2>1 DEF AddInv, Pod, Idle, Inside, AddSteps
<1>8. RunningPodsConnected'
  BY <1>2, <1>3 DEF RunningPodsConnected
<1>9. ReleaseInv'
  BY <1>2, <1>3 DEF ReleaseInv, Pod, Idle, DelSteps
<1>10. QED
  BY <1>2, <1>4, <1>5, <1>6, <1>7, <1>8, <1>9

\* A call ends that is not a DEL that succeeds nor an ADD that does.
LEMMA QuietAnswerIInv ==
  ASSUME IInv, NEW h \in Handlers, CheckPasses(h) \/ StepFails(h)
  PROVE  IInv'
<1> USE Distinct DEF IInv, At, kernel
<1>1. handlers[h].at \in Inside
  BY DEF Inside, AddSteps, DelSteps, CheckSteps, CheckPasses, StepFails
<1>2. /\ handlers' \in [Handlers -> Calls \cup {Idle}]
      /\ handlers'[h] = Idle
      /\ \A g \in Handlers : g # h => handlers'[g] = handlers[g]
      /\ phase' \in [Containers -> Phases]
      /\ \A c \in Containers : c # Pod(h) => phase'[c] = phase[c]
      /\ \/ phase'[Pod(h)] = phase[Pod(h)]
         \/ /\ handlers[h].op = "add" /\ phase[Pod(h)] = "adding"
            /\ phase'[Pod(h)] \in {"running", "failed"}
            /\ Error(h) => phase'[Pod(h)] = "failed"
         \/ /\ handlers[h].op = "del" /\ phase[Pod(h)] = "stopping"
            /\ phase'[Pod(h)] \in {"stopped", "leaving"}
            /\ Error(h) => phase'[Pod(h)] = "leaving"
         \/ /\ handlers[h].op = "check" /\ phase[Pod(h)] = "checking"
            /\ phase'[Pod(h)] = "running"
      /\ up' = up /\ overtaken' = overtaken
      /\ Pod(h) \in Containers
      /\ \A g \in Handlers : g # h /\ handlers[g].at \in Inside => Pod(g) # Pod(h)
      /\ LockInv' /\ HeardInv' /\ EndingInv'
  BY <1>1, AnswerFacts DEF CheckPasses, StepFails
<1>3. /\ Error(h) \/ handlers[h].op = "check"
      /\ UNCHANGED <<netns, veth, addr, gateway, route, held>>
  BY DEF CheckPasses, StepFails, HandlerInv, CheckSteps
<1>4. TypeOK'
  BY <1>2, <1>3 DEF TypeOK, KernelTypeOK
<1>5. HandlerInv'
  BY <1>2, <1>3 DEF HandlerInv, Pod, Idle, AddSteps, DelSteps, CheckSteps
<1>6. RouteInv'
  BY <1>3 DEF RouteInv, OnHost
<1>7. AddInv'
  <2>1. \A g \in Handlers : g # h /\ handlers[g].at \in Inside =>
          Pod(g) \in Containers /\ phase'[Pod(g)] = phase[Pod(g)]
    BY <1>2, BusyHandler DEF Inside, AddSteps, DelSteps, CheckSteps
  <2>2. QED
    BY <1>2, <1>3, <2>1 DEF AddInv, Pod, Idle, Inside, AddSteps
<1>8. RunningPodsConnected'
  BY <1>2, <1>3 DEF RunningPodsConnected
<1>9. ReleaseInv'
  BY <1>2, <1>3 DEF ReleaseInv, Pod, Idle, DelSteps
<1>10. QED
  BY <1>2, <1>4, <1>5, <1>6, <1>7, <1>8, <1>9

\* What goes with a veth pair belongs to no other container.
LEMMA DropVethFacts ==
  ASSUME IInv, NEW c \in Containers, DropVeth(c)
  PROVE  /\ KernelTypeOK' /\ RouteInv' /\ UNCHANGED netns
         /\ \A d \in Containers : d # c =>
              UNCHANGED <<veth[d], addr[d], gateway[d]>>
         /\ \A ip \in HostAddresses : route[ip] # c => route'[ip] = route[ip]
<1> USE Distinct DEF IInv, TypeOK, KernelTypeOK, DropVeth
<1>1. /\ KernelTypeOK' /\ UNCHANGED netns
      /\ veth'[c] = "none" /\ addr'[c] = None
      /\ \A d \in Containers : d # c =>
           veth'[d] = veth[d] /\ addr'[d] = addr[d] /\ gateway'[d] = gateway[d]
      /\ \A ip \in HostAddresses : route'[ip] = IF route[ip] = c THEN None ELSE route[ip]
  BY DEF VethStates
<1>2. RouteInv'
  BY <1>1 DEF RouteInv, OnHost
<1>3. QED
  BY <1>1, <1>2

\* DEL deletes the veth pair of a pod that is on its way out.
LEMMA DelVethIInv ==
  ASSUME IInv, NEW h \in Handlers, DelVeth(h)
  PROVE  IInv'
<1> USE Distinct DEF IInv, At
<1>1. /\ handlers[h].at = "delete" /\ handlers[h].op = "del" /\ handlers[h].at \in Inside
      /\ Pod(h) \in Containers
  BY BusyHandler DEF DelVeth, HandlerInv, DelSteps, Inside
<1>2. /\ KernelTypeOK' /\ RouteInv' /\ UNCHANGED <<netns, held>>
      /\ \A d \in Containers : d # Pod(h) => UNCHANGED <<veth[d], addr[d], gateway[d]>>
      /\ \A ip \in HostAddresses : route[ip] # Pod(h) => route'[ip] = route[ip]
  BY <1>1, DropVethFacts DEF DelVeth
<1>3. /\ handlers' \in [Handlers -> Calls \cup {Idle}]
      /\ handlers'[h] = Idle
      /\ \A g \in Handlers : g # h => handlers'[g] = handlers[g]
      /\ phase' \in [Containers -> Phases]
      /\ \A c \in Containers : c # Pod(h) => phase'[c] = phase[c]
      /\ \/ phase'[Pod(h)] = phase[Pod(h)]
         \/ phase[Pod(h)] = "stopping" /\ phase'[Pod(h)] \in {"stopped", "leaving"}
      /\ up' = up /\ overtaken' = overtaken
      /\ \A g \in Handlers : g # h /\ handlers[g].at \in Inside => Pod(g) # Pod(h)
      /\ LockInv' /\ HeardInv' /\ EndingInv'
  BY <1>1, <1>2, AnswerFacts DEF DelVeth
<1>4. phase[Pod(h)] \in Ending
  BY <1>1 DEF EndingInv
<1>5. TypeOK'
  BY <1>2, <1>3 DEF TypeOK
<1>6. HandlerInv'
  BY <1>2, <1>3 DEF HandlerInv, Pod, Idle, AddSteps, DelSteps, CheckSteps
<1>7. AddInv'
  <2>1. \A g \in Handlers : g # h /\ handlers[g].at \in Inside =>
          /\ Pod(g) \in Containers /\ Pod(g) # Pod(h) /\ phase'[Pod(g)] = phase[Pod(g)]
          /\ veth'[Pod(g)] = veth[Pod(g)] /\ addr'[Pod(g)] = addr[Pod(g)]
          /\ gateway'[Pod(g)] = gateway[Pod(g)]
    BY <1>2, <1>3, BusyHandler DEF Inside, AddSteps, DelSteps, CheckSteps
  <2>2. \A g \in Handlers : g # h /\ handlers[g].at \in {"addr", "gateway", "convert"} =>
          route'[handlers[g].ip] = route[handlers[g].ip]
    BY <1>2, <2>1 DEF HandlerInv, AddInv, Inside, AddSteps
  <2>3. QED
    BY <1>3, <2>1, <2>2 DEF AddInv, Pod, Idle, Inside, AddSteps
<1>8. RunningPodsConnected'
  BY <1>2, <1>3, <1>4 DEF RunningPodsConnected, Ending, TypeOK, KernelTypeOK
<1>9. ReleaseInv'
  BY <1>1, <1>2, <1>3 DEF ReleaseInv, Pod, Idle, DelSteps
<1>10. QED
  BY <1>2, <1>3, <1>5, <1>6, <1>7, <1>8, <1>9

\* The kernel destroys a namespace that no handler is in.
LEMMA DestroyNetnsIInv ==
  ASSUME IInv, NEW c \in Containers, DestroyNetns(c)
  PROVE  IInv'
<1> USE Distinct DEF IInv, At
<1>1. /\ KernelTypeOK' /\ RouteInv' /\ UNCHANGED <<netns, up, held, handlers, phase, overtaken>>
      /\ \A d \in Containers : d # c => UNCHANGED <<veth[d], addr[d], gateway[d]>>
      /\ \A ip \in HostAddresses : route[ip] # c => route'[ip] = route[ip]
  BY DropVethFacts DEF DestroyNetns
<1>2. phase[c] \in Ending
  BY DEF DestroyNetns, EndingInv
<1>3. TypeOK' /\ LockInv' /\ HeardInv' /\ EndingInv' /\ HandlerInv' /\ ReleaseInv'
  BY <1>1 DEF TypeOK, LockInv, HeardInv, EndingInv, HandlerInv, ReleaseInv, Pod
<1>4. AddInv'
  <2>1. \A g \in Handlers : handlers[g].at \in AddSteps \ {"open"} =>
          /\ Pod(g) \in Containers /\ Pod(g) # c
          /\ veth'[Pod(g)] = veth[Pod(g)] /\ addr'[Pod(g)] = addr[Pod(g)]
          /\ gateway'[Pod(g)] = gateway[Pod(g)]
    BY <1>1, BusyHandler DEF DestroyNetns, NetnsOpen, AddSteps, Pod
  <2>2. \A g \in Handlers : handlers[g].at \in {"addr", "gateway", "convert"} =>
          route'[handlers[g].ip] = route[handlers[g].ip]
    BY <1>1, <2>1 DEF HandlerInv, AddInv, AddSteps
  <2>3. QED
    BY <1>1, <2>1, <2>2 DEF AddInv, Pod, AddSteps
<1>5. RunningPodsConnected'
  BY <1>1, <1>2 DEF RunningPodsConnected, Ending, TypeOK, KernelTypeOK
<1>6. QED
  BY <1>1, <1>3, <1>4, <1>5

\* A call gets in when no other call for its container is.
LEMMA EnterIInv ==
  ASSUME IInv, NEW h \in Handlers, Enter(h)
  PROVE  IInv'
<1> USE Distinct DEF IInv, At, kernel
<1>1. handlers[h] \in Calls /\ Pod(h) \in Containers
  BY BusyHandler DEF Enter
<1>2. PICK step : step = FirstStep(handlers[h].op)
  OBVIOUS
<1>3. /\ step \in Inside
      /\ \/ handlers[h].op = "add" /\ step = "open"
         \/ handlers[h].op = "del" /\ step = "release"
         \/ handlers[h].op = "check" /\ step = "lookup"
  BY <1>1, <1>2 DEF FirstStep, Calls, Inside, AddSteps, DelSteps, CheckSteps
<1>4. handlers'[h] = [handlers[h] EXCEPT !.at = step]
  BY <1>2 DEF Enter, TypeOK
<1>5. /\ handlers'[h] \in Calls /\ handlers'[h].at = step
      /\ handlers'[h].op = handlers[h].op /\ handlers'[h].c = handlers[h].c
      /\ handlers'[h].heard = handlers[h].heard
      /\ \A g \in Handlers : g # h => handlers'[g] = handlers[g]
      /\ UNCHANGED <<netns, veth, addr, gateway, route, up, held, phase>>
  BY <1>1, <1>3, <1>4 DEF TypeOK, Calls, Pod, Enter
<1>6. \A g \in Handlers : Pod(g) = Pod(h) => handlers[g].at \notin Inside
  BY DEF Enter, Pod
<1>7. /\ overtaken' \subseteq Containers
      /\ \A d \in Containers : d \notin overtaken' => d \notin overtaken /\ ~Overtakes(h, d)
  BY DEF Enter, TypeOK
<1>8. TypeOK'
  BY <1>5, <1>7 DEF TypeOK, KernelTypeOK, Enter
<1>9. HandlerInv'
  BY <1>3, <1>5 DEF HandlerInv, Pod, AddSteps, DelSteps, CheckSteps
<1>10. LockInv'
  BY <1>5, <1>6 DEF LockInv, Pod
<1>11. HeardInv' /\ EndingInv'
  BY <1>5 DEF HeardInv, EndingInv, Pod
<1>12. RouteInv' /\ RunningPodsConnected'
  BY <1>5 DEF RouteInv, OnHost, RunningPodsConnected
<1>13. AddInv'
  BY <1>3, <1>5 DEF AddInv, Pod
<1>14. ReleaseInv'
  <2>1. handlers[h].op = "del" /\ ~Overtakes(h, Pod(h)) =>
          \A g \in Handlers : Pod(g) = Pod(h) => handlers[g].op # "add"
    BY <1>6, BusyHandler DEF Overtakes, Calls
  <2>2. \A g \in Handlers : Pod(g)' = Pod(g) /\ handlers'[g].op = handlers[g].op
    BY <1>5 DEF Pod
  <2>3. \A g \in Handlers : /\ handlers'[g].at \in DelSteps =>
                                 handlers[g].at \in DelSteps \/ (g = h /\ handlers[h].op = "del")
                            /\ handlers'[g].at \in {"find", "delete"} =>
                                 handlers[g].at \in {"find", "delete"}
    BY <1>3, <1>5 DEF DelSteps
  <2>4. QED
    BY <1>5, <1>7, <2>1, <2>2, <2>3 DEF ReleaseInv
<1>15. QED
  BY <1>8, <1>9, <1>10, <1>11, <1>12, <1>13, <1>14

\* The runtime starts a call for a container that it waits for no other call of.
LEMMA CallIInv ==
  ASSUME IInv, NEW h \in Handlers, NEW c \in Containers, CallAdd(h, c) \/ CallDel(h, c) \/ CallCheck(h, c)
  PROVE  IInv'
<1> USE Distinct DEF IInv, At, kernel
<1>1. PICK op \in {"add", "del", "check"} :
        /\ handlers' = [handlers EXCEPT ![h] =
             [op |-> op, c |-> c, at |-> "arriving", ip |-> None, heard |-> TRUE]]
        /\ op = "add" => phase[c] \in {"new", "failed"} /\ phase' = [phase EXCEPT ![c] = "adding"]
        /\ op = "del" => /\ phase[c] \in {"running", "failed", "leaving"}
                         /\ phase' = [phase EXCEPT ![c] = "stopping"]
        /\ op = "check" => phase[c] = "running" /\ phase' = [phase EXCEPT ![c] = "checking"]
        /\ handlers[h] = Idle
        /\ UNCHANGED <<netns, veth, addr, gateway, route, up, held, overtaken>>
  BY DEF CallAdd, CallDel, CallCheck, Call
<1>2. /\ handlers'[h] = [op |-> op, c |-> c, at |-> "arriving", ip |-> None, heard |-> TRUE]
      /\ \A g \in Handlers : g # h => handlers'[g] = handlers[g]
      /\ \A d \in Containers : d # c => phase'[d] = phase[d]
  BY <1>1 DEF TypeOK
<1>3. /\ handlers'[h] \in Calls /\ handlers'[h].op = op /\ handlers'[h].c = c
      /\ handlers'[h].at = "arriving" /\ handlers'[h].heard
  BY <1>2 DEF Calls
<1>4. /\ op = "add" => phase[c] \in {"new", "failed"} /\ phase'[c] = "adding"
      /\ op = "del" => phase[c] \in {"running", "failed", "leaving"} /\ phase'[c] = "stopping"
      /\ op = "check" => phase[c] = "running" /\ phase'[c] = "checking"
      /\ phase' \in [Containers -> Phases]
  BY <1>1 DEF TypeOK, Phases
<1>5. \A g \in Handlers : g # h /\ handlers[g].heard => Pod(g) \in Containers /\ Pod(g) # c
  BY <1>4, BusyHandler DEF HeardInv, Calls
<1>6. \A g \in Handlers : g # h /\ handlers[g].op # "none" => Pod(g) \in Containers
  BY BusyHandler
<1>7. TypeOK'
  BY <1>1, <1>2, <1>3, <1>4 DEF TypeOK, KernelTypeOK
<1>8. HandlerInv'
  BY <1>1, <1>2, <1>3 DEF HandlerInv, Pod, AddSteps, DelSteps, CheckSteps
<1>9. LockInv'
  BY <1>2, <1>3 DEF LockInv, Pod, Inside, AddSteps, DelSteps, CheckSteps
<1>10. HeardInv'
  BY <1>2, <1>3, <1>4, <1>5 DEF HeardInv, Pod
<1>11. EndingInv'
  BY <1>1, <1>2, <1>3, <1>4, <1>6 DEF EndingInv, Pod, Ending
<1>12. RouteInv'
  BY <1>1 DEF RouteInv, OnHost
<1>13. AddInv'
  <2>1. \A g \in Handlers : handlers[g].at # "idle" => Pod(g) \in Containers
    BY BusyHandler
  <2>2. QED
    BY <1>1, <1>2, <1>3, <1>4, <2>1 DEF AddInv, Pod
<1>14. RunningPodsConnected'
  BY <1>1, <1>2, <1>4 DEF RunningPodsConnected
<1>15. ReleaseInv'
  <2>1. \A g \in Handlers : handlers'[g].at \in DelSteps =>
          g # h /\ handlers[g].at \in DelSteps /\ handlers[g].op = "del"
    BY <1>2, <1>3 DEF HandlerInv, DelSteps
  <2>2. op = "add" => \A g \in Handlers : handlers[g].at \in DelSteps => Pod(g) # c
    BY <1>4, <2>1 DEF EndingInv, Ending, HandlerInv
  <2>3. \A d \in Containers : phase'[d] \in {"stopped", "removed"} => phase[d] = phase'[d] /\ d # c
    BY <1>2, <1>4
  <2>4. QED
    BY <1>1, <1>2, <1>3, <2>1, <2>2, <2>3 DEF ReleaseInv, Pod, DelSteps
<1>16. QED
  BY <1>7, <1>8, <1>9, <1>10, <1>11, <1>12, <1>13, <1>14, <1>15

\* The shim gives up a call; its handler goes on.
LEMMA GiveUpIInv ==
  ASSUME IInv, NEW h \in Handlers, GiveUp(h)
  PROVE  IInv'
<1> USE Distinct DEF IInv, At, kernel
<1>1. handlers[h] \in Calls /\ Pod(h) \in Containers /\ handlers[h].heard
  BY BusyHandler DEF GiveUp
<1>2. handlers'[h] = [handlers[h] EXCEPT !.heard = FALSE]
  BY DEF GiveUp, TypeOK
<1>3. /\ handlers'[h] \in Calls /\ handlers'[h].heard = FALSE
      /\ handlers'[h].op = handlers[h].op /\ handlers'[h].c = handlers[h].c
      /\ handlers'[h].at = handlers[h].at /\ handlers'[h].ip = handlers[h].ip
      /\ \A g \in Handlers : g # h => handlers'[g] = handlers[g]
      /\ UNCHANGED <<netns, veth, addr, gateway, route, up, held, overtaken>>
  BY <1>1, <1>2 DEF Calls, GiveUp, TypeOK
<1>4. /\ phase'[Pod(h)] = Unanswered(phase[Pod(h)])
      /\ \A d \in Containers : d # Pod(h) => phase'[d] = phase[d]
  BY <1>1 DEF GiveUp, TypeOK, Pod
<1>5. /\ \/ phase[Pod(h)] = "adding" /\ phase'[Pod(h)] = "failed"
         \/ phase[Pod(h)] = "stopping" /\ phase'[Pod(h)] = "leaving"
         \/ phase[Pod(h)] = "checking" /\ phase'[Pod(h)] = "running"
      /\ phase' \in [Containers -> Phases]
  <2>1. phase[Pod(h)] \in {"adding", "stopping", "checking"}
    BY <1>1 DEF HeardInv, Calls
  <2>2. phase'[Pod(h)] \in Phases
    BY <1>1, <1>4, PhaseAnswers DEF TypeOK
  <2>3. QED
    BY <1>1, <1>4, <2>1, <2>2 DEF Unanswered, GiveUp, TypeOK
<1>6. \A g \in Handlers : handlers'[g].at = handlers[g].at /\ handlers'[g].op = handlers[g].op
                          /\ handlers'[g].c = handlers[g].c /\ handlers'[g].ip = handlers[g].ip
  BY <1>3
<1>7. \A g \in Handlers : handlers[g].op # "none" \/ handlers[g].at # "idle" => Pod(g) \in Containers
  BY BusyHandler
<1>8. TypeOK'
  BY <1>3, <1>5 DEF TypeOK, KernelTypeOK, GiveUp
<1>9. HandlerInv' /\ LockInv'
  BY <1>3, <1>6 DEF HandlerInv, LockInv, Pod
<1>10. HeardInv'
  <2>1. \A g \in Handlers : g # h /\ handlers[g].heard => Pod(g) \in Containers /\ Pod(g) # Pod(h)
    BY <1>1, BusyHandler DEF HeardInv
  <2>2. QED
    BY <1>3, <1>4, <2>1 DEF HeardInv, Pod
<1>11. EndingInv'
  BY <1>3, <1>4, <1>5, <1>6, <1>7 DEF EndingInv, Pod, Ending
<1>12. RouteInv'
  BY <1>3 DEF RouteInv, OnHost
<1>13. AddInv'
  BY <1>3, <1>4, <1>5, <1>6, <1>7 DEF AddInv, Pod
<1>14. RunningPodsConnected'
  BY <1>3, <1>4, <1>5 DEF RunningPodsConnected
<1>15. ReleaseInv'
  BY <1>3, <1>4, <1>5, <1>6 DEF ReleaseInv, Pod
<1>16. QED
  BY <1>8, <1>9, <1>10, <1>11, <1>12, <1>13, <1>14, <1>15

\* The runtime goes on without a call.
LEMMA RuntimeIInv ==
  ASSUME IInv, NEW c \in Containers, Refused(c) \/ RemoveNetns(c)
  PROVE  IInv'
<1> USE Distinct DEF IInv, At, kernel
<1>1. /\ \/ phase[c] = "new" /\ phase'[c] = "failed"
         \/ phase[c] \in {"running", "failed"} /\ phase'[c] = "leaving"
         \/ phase[c] = "stopped" /\ phase'[c] = "removed"
      /\ netns' = netns \/ phase[c] = "stopped"
      /\ netns' \in [Containers -> {"mounted", "unlinked"}]
      /\ \A d \in Containers : d # c => phase'[d] = phase[d] /\ netns'[d] = netns[d]
      /\ phase' \in [Containers -> Phases]
      /\ UNCHANGED <<veth, addr, gateway, route, up, held, handlers, overtaken>>
  BY DEF Refused, RemoveNetns, TypeOK, KernelTypeOK, Phases
<1>2. \A g \in Handlers : handlers[g].op # "none" \/ handlers[g].at # "idle" => Pod(g) \in Containers
  BY BusyHandler
<1>3. TypeOK'
  BY <1>1 DEF TypeOK, KernelTypeOK
<1>4. HandlerInv' /\ LockInv' /\ RouteInv'
  BY <1>1 DEF HandlerInv, LockInv, RouteInv, OnHost, Pod
<1>5. HeardInv'
  <2>1. \A g \in Handlers : handlers[g].heard => Pod(g) \in Containers /\ Pod(g) # c
    BY <1>1, BusyHandler DEF HeardInv, Calls
  <2>2. QED
    BY <1>1, <2>1 DEF HeardInv, Pod
<1>6. EndingInv'
  BY <1>1, <1>2 DEF EndingInv, Pod, Ending
<1>7. AddInv'
  BY <1>1, <1>2 DEF AddInv, Pod
<1>8. RunningPodsConnected'
  BY <1>1 DEF RunningPodsConnected
<1>9. ReleaseInv'
  BY <1>1 DEF ReleaseInv, Pod
<1>10. QED
  BY <1>3, <1>4, <1>5, <1>6, <1>7, <1>8, <1>9

\* The handlers vanish; what they did stays.
LEMMA CrashIInv ==
  ASSUME IInv, Crash
  PROVE  IInv'
<1> USE Distinct DEF IInv, At, kernel
<1>1. /\ up' = FALSE /\ \A h \in Handlers : handlers'[h] = Idle
      /\ handlers' \in [Handlers -> Calls \cup {Idle}]
      /\ phase' = [c \in Containers |-> Unanswered(phase[c])]
      /\ UNCHANGED <<netns, veth, addr, gateway, route, held, overtaken>>
  BY DEF Crash
<1>2. /\ phase' \in [Containers -> Phases]
      /\ \A c \in Containers :
           \/ phase'[c] = phase[c]
           \/ phase[c] = "adding" /\ phase'[c] = "failed"
           \/ phase[c] = "stopping" /\ phase'[c] = "leaving"
           \/ phase[c] = "checking" /\ phase'[c] = "running"
  BY <1>1 DEF TypeOK, Unanswered, Phases
<1>3. TypeOK'
  BY <1>1, <1>2 DEF TypeOK, KernelTypeOK
<1>4. HandlerInv' /\ LockInv' /\ HeardInv' /\ AddInv'
  BY <1>1 DEF HandlerInv, LockInv, HeardInv, AddInv, Idle, Pod, Inside, AddSteps, DelSteps, CheckSteps
<1>5. EndingInv'
  BY <1>1, <1>2 DEF EndingInv, Ending, Idle
<1>6. RouteInv'
  BY <1>1 DEF RouteInv, OnHost
<1>7. RunningPodsConnected'
  BY <1>1, <1>2 DEF RunningPodsConnected
<1>8. ReleaseInv'
  BY <1>1, <1>2 DEF ReleaseInv, Idle, Pod, DelSteps
<1>9. QED
  BY <1>3, <1>4, <1>5, <1>6, <1>7, <1>8

\* The kernel starts afresh; the allocator keeps what it held.
LEMMA RebootIInv ==
  ASSUME IInv, Reboot
  PROVE  IInv'
<1> USE Distinct DEF IInv, At, kernel
<1>1. /\ up' = FALSE /\ \A h \in Handlers : handlers'[h] = Idle
      /\ handlers' \in [Handlers -> Calls \cup {Idle}]
      /\ UNCHANGED <<held, overtaken>>
  BY DEF Reboot
<1>2. /\ phase' \in [Containers -> Phases]
      /\ \A c \in Containers :
           /\ phase'[c] \in {"stopped", "removed"} => phase'[c] = phase[c]
           /\ phase'[c] \notin {"running", "checking"}
           /\ phase'[c] \notin Ending => netns'[c] = "mounted"
  BY DEF Reboot, TypeOK, Ending, Phases
<1>3. KernelTypeOK'
  BY DEF Reboot, KernelTypeOK, VethStates
<1>4. TypeOK'
  BY <1>1, <1>2, <1>3 DEF TypeOK
<1>5. HandlerInv' /\ LockInv' /\ HeardInv' /\ AddInv'
  BY <1>1 DEF HandlerInv, LockInv, HeardInv, AddInv, Idle, Pod, Inside, AddSteps, DelSteps, CheckSteps
<1>6. EndingInv'
  BY <1>1, <1>2 DEF EndingInv, Idle
<1>7. RouteInv'
  BY DEF Reboot, RouteInv
<1>8. RunningPodsConnected'
  BY <1>2 DEF RunningPodsConnected
<1>9. ReleaseInv'
  BY <1>1, <1>2 DEF ReleaseInv, Idle, Pod, DelSteps
<1>10. QED
  BY <1>4, <1>5, <1>6, <1>7, <1>8, <1>9

\* Restarting the agent brings back what the state file holds.
LEMMA UnchangedIInv ==
  ASSUME IInv, Start \/ UNCHANGED vars
  PROVE  IInv'
<1>1. UNCHANGED <<netns, veth, addr, gateway, route, held, handlers, phase, overtaken>>
      /\ up' \in BOOLEAN
  BY DEF IInv, Start, vars, kernel, TypeOK
<1>2. QED
  BY <1>1 DEF IInv, TypeOK, KernelTypeOK, HandlerInv, LockInv, HeardInv, EndingInv, RouteInv, OnHost,
              AddInv, At, Pod, RunningPodsConnected, ReleaseInv

-----------------------------------------------------------------------------
LEMMA InitIInv ==
  ASSUME Init
  PROVE  IInv
<1> USE Distinct DEF Init, KernelInit
<1>1. \A h \in Handlers : handlers[h] = Idle
  OBVIOUS
<1>2. TypeOK
  BY DEF TypeOK, KernelTypeOK, VethStates, Phases
<1>3. HandlerInv /\ LockInv /\ HeardInv /\ AddInv
  BY <1>1 DEF HandlerInv, LockInv, HeardInv, AddInv, Idle, At, Pod, Inside, AddSteps, DelSteps, CheckSteps
<1>4. EndingInv /\ RouteInv /\ RunningPodsConnected
  BY <1>1 DEF EndingInv, RouteInv, RunningPodsConnected, Idle
<1>5. ReleaseInv
  BY <1>1 DEF ReleaseInv, Idle, Pod, DelSteps
<1>6. QED
  BY <1>2, <1>3, <1>4, <1>5 DEF IInv

LEMMA StepIInv ==
  ASSUME IInv, NEW h \in Handlers, Step(h)
  PROVE  IInv'
<1>1. CASE AddMove(h)
  BY <1>1, HostEndIInv DEF AddMove
<1>2. CASE AddLinkUp(h)
  BY <1>2, HostEndIInv DEF AddLinkUp
<1>3. CASE AddProxyArp(h)
  BY <1>3, HostEndIInv DEF AddProxyArp
<1>4. CASE AddOpen(h) \/ DelFind(h) \/ CheckLookup(h) \/ CheckOpen(h)
  BY <1>4, MoveIInv
     DEF AddOpen, DelFind, CheckLookup, CheckOpen, Inside, AddSteps, DelSteps, CheckSteps
<1>5. QED
  BY <1>1, <1>2, <1>3, <1>4, EnterIInv, AddVethIInv, AddIpamIInv, AddHostRouteIInv,
     AddAddressIInv, AddGatewayIInv, AddConvertIInv, DelReleaseIInv, DelSkipsIInv, DelVethIInv,
     QuietAnswerIInv
     DEF Step

LEMMA NextIInv ==
  ASSUME IInv, [Next]_vars
  PROVE  IInv'
BY StepIInv, GiveUpIInv, CallIInv, RuntimeIInv, DestroyNetnsIInv, CrashIInv, RebootIInv,
   UnchangedIInv
   DEF Next

\* The invariant holds in every reachable state.
THEOREM Invariance == Spec => []IInv
BY InitIInv, NextIInv, PTL DEF Spec

\* TypeOK: every variable of the agent, the runtime and the kernel has its type.
THEOREM TypeCorrect == Spec => []TypeOK
BY Invariance, PTL DEF IInv

\* UniqueAddress: no two pods have the same address configured, although cmdDel
\* releases the address before it deletes the veth.
THEOREM AddressesUnique == Spec => []UniqueAddress
<1>1. IInv => UniqueAddress
  BY Distinct DEF IInv, RouteInv, UniqueAddress
<1>2. QED
  BY <1>1, Invariance, PTL

\* RunningPodsConnected: what cmdAdd answered for stays wired up until the
\* runtime deletes the pod, whatever other calls, time-outs and crashes do.
THEOREM PodsStayConnected == Spec => []RunningPodsConnected
BY Invariance, PTL DEF IInv

\* NoLeakUnlessOvertaken: after the runtime is done with a container so is the
\* allocator, unless the lock let a DEL in before an ADD that came earlier.
THEOREM NothingLeaks == Spec => []NoLeakUnlessOvertaken
<1>1. IInv => NoLeakUnlessOvertaken
  BY DEF IInv, ReleaseInv, NoLeakUnlessOvertaken
<1>2. QED
  BY <1>1, Invariance, PTL

\* AnswerIsTrue: what cmdAdd answers is so at the moment it answers, although
\* it read the address it returns four steps earlier (server.go:223-265).
THEOREM AnswersAreTrue == Spec => []AnswerIsTrue
<1>1. IInv => AnswerIsTrue
  <2> SUFFICES ASSUME IInv, NEW h \in Handlers, At(h, "convert")
               PROVE  /\ handlers[h].ip # None
                      /\ held[Pod(h)] = handlers[h].ip
                      /\ addr[Pod(h)] = handlers[h].ip /\ gateway[Pod(h)]
                      /\ route[handlers[h].ip] = Pod(h)
    BY DEF AnswerIsTrue
  <2>1. handlers[h].ip \in HostAddresses /\ held[Pod(h)] = handlers[h].ip
    BY DEF IInv, HandlerInv, At
  <2>2. /\ addr[Pod(h)] = handlers[h].ip /\ gateway[Pod(h)]
        /\ route[handlers[h].ip] = Pod(h)
    BY DEF IInv, AddInv, At
  <2>3. QED
    BY <2>1, <2>2, Distinct
<1>2. QED
  BY <1>1, Invariance, PTL

-----------------------------------------------------------------------------
\* The namespace of a container the runtime is done with has no path any more.
RemovedInv == \A c \in Containers : phase[c] = "removed" => netns[c] = "unlinked"

\* Neither an answer nor the lack of one changes what the runtime is done with.
LEMMA RemovedAnswers ==
  \A p : /\ Answered(p) = "removed" <=> p = "removed"
         /\ Unanswered(p) = "removed" <=> p = "removed"
BY DEF Answered, Unanswered

\* A handler's step does not finish or revive a container, and it comes to work
\* on a namespace only by a path that is there.
LEMMA StepFacts ==
  ASSUME TypeOK, NEW h \in Handlers, Step(h)
  PROVE  /\ Pod(h) \in Containers
         /\ \A g \in Handlers \ {h} : handlers'[g] = handlers[g]
         /\ \A c \in Containers : phase'[c] = "removed" <=> phase[c] = "removed"
         /\ handlers'[h].at \in NetnsOpen =>
              /\ handlers'[h].c = Pod(h)
              /\ handlers[h].at \in NetnsOpen \/ netns[Pod(h)] = "mounted"
<1>1. handlers[h].at # "idle"
  BY DEF Step, Enter, AddOpen, AddVeth, AddMove, AddLinkUp, AddProxyArp, AddIpam, AddHostRoute,
         AddAddress, AddGateway, AddConvert, DelRelease, DelFind, DelSkips, DelVeth, CheckLookup,
         CheckOpen, CheckPasses, StepFails, At, Inside, AddSteps, DelSteps, CheckSteps
<1>2. /\ handlers[h] \in Calls /\ Pod(h) \in Containers
      /\ handlers \in [Handlers -> Calls \cup {Idle}]
      /\ phase \in [Containers -> Phases]
  BY <1>1, BusyHandler DEF TypeOK
<1>3. CASE Enter(h)
  <2>1. handlers'[h].at = FirstStep(handlers[h].op) /\ handlers[h].op \in {"add", "del", "check"}
    BY <1>2, <1>3 DEF Enter, Calls
  <2>2. handlers'[h].at \notin NetnsOpen
    BY <2>1 DEF FirstStep, NetnsOpen, AddSteps
  <2>3. QED
    BY <1>2, <1>3, <2>2 DEF Enter
<1>4. ASSUME NEW p \in {Answered(phase[Pod(h)]), Unanswered(phase[Pod(h)])}, Answer(h, p)
      PROVE  /\ handlers'[h] = Idle
             /\ \A g \in Handlers \ {h} : handlers'[g] = handlers[g]
             /\ \A c \in Containers : phase'[c] = "removed" <=> phase[c] = "removed"
  BY <1>2, <1>4, RemovedAnswers DEF Answer
<1>5. CASE AddConvert(h) \/ DelSkips(h) \/ DelVeth(h) \/ CheckPasses(h) \/ StepFails(h)
  <2>1. Ok(h) \/ Error(h)
    BY <1>5 DEF AddConvert, DelSkips, DelVeth, CheckPasses, StepFails
  <2>2. QED
    BY <1>2, <1>4, <2>1 DEF Ok, Error, Idle, NetnsOpen, AddSteps
<1>6. ASSUME NEW to, Goto(h, to)
      PROVE  /\ handlers'[h].c = Pod(h) /\ handlers'[h].at = to
             /\ \A g \in Handlers \ {h} : handlers'[g] = handlers[g]
             /\ phase' = phase
  BY <1>2, <1>6 DEF Goto, Pod, Calls
<1>7. CASE AddVeth(h) \/ AddMove(h) \/ AddLinkUp(h) \/ AddProxyArp(h) \/ AddHostRoute(h)
             \/ AddAddress(h) \/ AddGateway(h)
  BY <1>2, <1>6, <1>7 DEF AddVeth, AddMove, AddLinkUp, AddProxyArp, AddHostRoute, AddAddress,
     AddGateway, At, NetnsOpen, AddSteps
<1>8. CASE AddOpen(h) \/ DelFind(h) \/ CheckOpen(h)
  BY <1>2, <1>6, <1>8 DEF AddOpen, DelFind, CheckOpen
<1>9. CASE DelRelease(h) \/ CheckLookup(h)
  BY <1>2, <1>6, <1>9 DEF DelRelease, CheckLookup, NetnsOpen, AddSteps
<1>10. CASE AddIpam(h)
  BY <1>2, <1>10 DEF AddIpam, At, Pod, NetnsOpen, AddSteps
<1>11. QED
  BY <1>3, <1>5, <1>7, <1>8, <1>9, <1>10 DEF Step

\* A step of a handler neither makes nor records anything for a container that
\* is gone: those that do have its namespace open.
LEMMA StepGone ==
  ASSUME TypeOK, NEW h \in Handlers, Step(h), NEW c \in Containers, Gone(c), netns[c] = "unlinked"
  PROVE  Gone(c)'
<1>1. Pod(h) \in Containers /\ (handlers[h].at \in NetnsOpen => Pod(h) # c)
  BY StepFacts DEF Gone
<1>2. /\ held \in [Containers -> HostAddresses \cup {None}]
      /\ veth \in [Containers -> VethStates]
      /\ addr \in [Containers -> HostAddresses \cup {None}]
      /\ route \in [HostAddresses -> Containers \cup {None}]
  BY DEF TypeOK, KernelTypeOK
<1>3. held'[c] = None
  <2>1. CASE AddIpam(h)
    BY <1>1, <1>2, <2>1 DEF AddIpam, At, NetnsOpen, AddSteps, Gone
  <2>2. CASE DelRelease(h)
    BY <1>2, <2>2 DEF DelRelease, Gone
  <2>3. CASE ~AddIpam(h) /\ ~DelRelease(h)
    BY <2>3 DEF Gone, Step, Enter, AddOpen, AddVeth, AddMove, AddLinkUp, AddProxyArp, AddHostRoute,
                AddAddress, AddGateway, AddConvert, DelFind, DelSkips, DelVeth, CheckLookup,
                CheckOpen, CheckPasses, StepFails
  <2>4. QED
    BY <2>1, <2>2, <2>3
<1>4. /\ veth'[c] = "none" /\ addr'[c] = None
      /\ \A ip \in HostAddresses : route'[ip] # c
  <2>1. CASE AddVeth(h) \/ AddMove(h) \/ AddLinkUp(h) \/ AddProxyArp(h)
    BY <1>1, <1>2, <2>1 DEF AddVeth, AddMove, AddLinkUp, AddProxyArp, SetupVeth, HostEnd, At,
       NetnsOpen, AddSteps, Gone
  <2>2. CASE AddHostRoute(h) \/ AddAddress(h) \/ AddGateway(h)
    BY <1>1, <1>2, <2>2 DEF AddHostRoute, AddAddress, AddGateway, SetupHostRoute,
       ConfigureInterface, AddDefaultRoute, At, NetnsOpen, AddSteps, Gone
  <2>3. CASE DelVeth(h)
    BY <1>1, <1>2, <2>3, Distinct DEF DelVeth, DropVeth, Gone
  <2>4. CASE UNCHANGED kernel
    BY <2>4 DEF kernel, Gone
  <2>5. QED
    BY <2>1, <2>2, <2>3, <2>4 DEF Step, Enter, AddOpen, AddIpam, AddConvert, DelRelease, DelFind,
       DelSkips, CheckLookup, CheckOpen, CheckPasses, StepFails, kernel
<1>5. ASSUME NEW g \in Handlers, handlers'[g].c = c
      PROVE  handlers'[g].at \notin NetnsOpen
  BY <1>5, StepFacts DEF Gone, Pod
<1>6. QED
  BY <1>3, <1>4, <1>5, StepFacts DEF Gone, Pod

\* Nor do the runtime, the kernel, the end of the agent or a reboot.
LEMMA OutsideGone ==
  ASSUME TypeOK, NEW c \in Containers, Gone(c), netns[c] = "unlinked",
         \/ \E h \in Handlers : GiveUp(h)
         \/ \E h \in Handlers, d \in Containers : CallAdd(h, d) \/ CallDel(h, d) \/ CallCheck(h, d)
         \/ \E d \in Containers : Refused(d) \/ RemoveNetns(d) \/ DestroyNetns(d)
         \/ Crash \/ Reboot \/ Start \/ UNCHANGED vars
  PROVE  Gone(c)'
<1>1. /\ handlers \in [Handlers -> Calls \cup {Idle}]
      /\ phase \in [Containers -> Phases]
      /\ veth \in [Containers -> VethStates]
      /\ addr \in [Containers -> HostAddresses \cup {None}]
  BY DEF TypeOK, KernelTypeOK
<1>2. ASSUME NEW h \in Handlers, GiveUp(h) PROVE Gone(c)'
  <2>1. Pod(h) \in Containers
    BY <1>2, BusyHandler DEF GiveUp
  <2>2. phase' = [phase EXCEPT ![Pod(h)] = Unanswered(@)]
    BY <1>2 DEF GiveUp, Pod
  <2>3. phase'[c] = "removed"
    BY <1>1, <2>1, <2>2, RemovedAnswers DEF Gone
  <2>4. \A g \in Handlers : handlers'[g].c = handlers[g].c /\ handlers'[g].at = handlers[g].at
    BY <1>1, <1>2, BusyHandler DEF GiveUp, Calls, Idle
  <2>5. QED
    BY <1>2, <2>3, <2>4 DEF GiveUp, Gone, Pod, kernel
<1>3. ASSUME NEW h \in Handlers, NEW d \in Containers, CallAdd(h, d) \/ CallDel(h, d) \/ CallCheck(h, d)
      PROVE  Gone(c)'
  <2>1. /\ d # c
        /\ phase'[c] = phase[c]
        /\ UNCHANGED <<kernel, held>>
        /\ handlers'[h].at = "arriving"
        /\ \A g \in Handlers \ {h} : handlers'[g] = handlers[g]
    BY <1>1, <1>3 DEF CallAdd, CallDel, CallCheck, Call, Gone
  <2>2. QED
    BY <2>1 DEF Gone, Pod, kernel, NetnsOpen, AddSteps
<1>4. ASSUME NEW d \in Containers, Refused(d) \/ RemoveNetns(d) \/ DestroyNetns(d)
      PROVE  Gone(c)'
  <2>1. CASE Refused(d)
    BY <1>1, <2>1 DEF Refused, Gone, Pod, kernel
  <2>2. CASE RemoveNetns(d)
    BY <1>1, <2>2 DEF RemoveNetns, Gone, Pod
  <2>3. CASE DestroyNetns(d)
    BY <1>1, <2>3, Distinct DEF DestroyNetns, DropVeth, Gone, Pod
  <2>4. QED
    BY <1>4, <2>1, <2>2, <2>3
<1>5. CASE Crash
  <2>1. phase'[c] = "removed"
    BY <1>5, RemovedAnswers DEF Crash, Gone
  <2>2. QED
    BY <1>5, <2>1 DEF Crash, Gone, Pod, Idle, kernel, NetnsOpen, AddSteps
<1>6. CASE Reboot
  BY <1>6, Distinct DEF Reboot, Gone, Pod, Idle, NetnsOpen, AddSteps
<1>7. CASE Start \/ UNCHANGED vars
  BY <1>7 DEF Start, vars, Gone, Pod, kernel
<1>8. QED
  BY <1>2, <1>3, <1>4, <1>5, <1>6, <1>7

LEMMA NextRemoved ==
  ASSUME TypeOK, RemovedInv, [Next]_vars
  PROVE  RemovedInv'
<1> SUFFICES ASSUME NEW c \in Containers, phase'[c] = "removed" PROVE netns'[c] = "unlinked"
  BY DEF RemovedInv
<1>1. phase \in [Containers -> Phases] /\ netns \in [Containers -> {"mounted", "unlinked"}]
  BY DEF TypeOK, KernelTypeOK
<1>2. CASE \E h \in Handlers : Step(h)
  <2>1. PICK h \in Handlers : Step(h)
    BY <1>2
  <2>2. phase[c] = "removed"
    BY <2>1, StepFacts
  <2>3. netns' = netns
    BY <2>1 DEF Step, Enter, AddOpen, AddVeth, AddMove, AddLinkUp, AddProxyArp, AddIpam,
       AddHostRoute, AddAddress, AddGateway, AddConvert, DelRelease, DelFind, DelSkips, DelVeth,
       CheckLookup, CheckOpen, CheckPasses, StepFails, kernel, SetupVeth, HostEnd, SetupHostRoute,
       ConfigureInterface, AddDefaultRoute, DropVeth
  <2>4. QED
    BY <2>2, <2>3 DEF RemovedInv
<1>3. CASE \E h \in Handlers : GiveUp(h)
  <2>1. PICK h \in Handlers : GiveUp(h)
    BY <1>3
  <2>2. phase' = [phase EXCEPT ![Pod(h)] = Unanswered(@)] /\ netns' = netns
    BY <2>1 DEF GiveUp, Pod, kernel
  <2>3. phase[c] = "removed"
    BY <1>1, <2>2, RemovedAnswers
  <2>4. QED
    BY <2>2, <2>3 DEF RemovedInv
<1>4. CASE \E h \in Handlers, d \in Containers : CallAdd(h, d) \/ CallDel(h, d) \/ CallCheck(h, d)
  BY <1>1, <1>4 DEF RemovedInv, CallAdd, CallDel, CallCheck, Call, kernel
<1>5. CASE \E d \in Containers : Refused(d) \/ RemoveNetns(d) \/ DestroyNetns(d)
  BY <1>1, <1>5 DEF RemovedInv, Refused, RemoveNetns, DestroyNetns, DropVeth, kernel
<1>6. CASE Crash
  BY <1>6, RemovedAnswers DEF RemovedInv, Crash, kernel
<1>7. CASE Reboot
  BY <1>7 DEF RemovedInv, Reboot
<1>8. CASE Start \/ UNCHANGED vars
  BY <1>8 DEF RemovedInv, Start, vars, kernel
<1>9. QED
  BY <1>2, <1>3, <1>4, <1>5, <1>6, <1>7, <1>8 DEF Next

\* GoneForGood: no late, abandoned or overtaken call, no crash and no reboot
\* brings back anything of a container that is gone (server.go:60, 75).
THEOREM GoneStaysGone == Spec => GoneForGood
<1>1. Init => RemovedInv
  BY DEF Init, RemovedInv
<1>2. Spec => []RemovedInv
  BY <1>1, NextRemoved, TypeCorrect, PTL DEF Spec
<1>3. ASSUME TypeOK, RemovedInv, [Next]_vars
      PROVE  [\A c \in Containers : Gone(c) => Gone(c)']_vars
  <2>1. ASSUME NEW c \in Containers, Gone(c) PROVE Gone(c)'
    BY <1>3, <2>1, StepGone, OutsideGone DEF RemovedInv, Gone, Next
  <2>2. QED
    BY <2>1
<1>4. QED
  BY <1>2, <1>3, TypeCorrect, PTL DEF Spec, GoneForGood

-----------------------------------------------------------------------------
\* With one pod CIDR no address is dormant.
LEMMA ActiveIsHeld ==
  ASSUME TypeOK
  PROVE  \A c \in Containers : Pool!Active(c) = held[c]
<1>1. HostAddresses \subseteq Pool!Block(Cidr)
  BY CidrAssumption DEF HostAddresses, HostRange, Pool!Block, IsCidr
<1>2. QED
  BY <1>1 DEF TypeOK, Pool!Active

LEMMA AddIpamAllocates ==
  ASSUME TypeOK, NEW h \in Handlers, AddIpam(h)
  PROVE  UNCHANGED held \/ \E c \in Containers : Pool!Allocate(c)
<1>1. Pod(h) \in Containers
  BY BusyHandler DEF AddIpam, At
<1>2. PICK ip \in HostAddresses :
        /\ \/ held[Pod(h)] = ip
           \/ /\ held[Pod(h)] = None
              /\ IsNextFree(ip, Cidr, {held[d] : d \in Containers} \ {None})
        /\ held' = [held EXCEPT ![Pod(h)] = ip]
  BY DEF AddIpam
<1>3. CASE held[Pod(h)] = ip
  BY <1>1, <1>2, <1>3 DEF TypeOK
<1>4. CASE held[Pod(h)] # ip
  <2>1. /\ Pool!Active(Pod(h)) = None
        /\ \A d \in Containers : Pool!Active(d) # ip
    BY <1>1, <1>2, <1>4, ActiveIsHeld, Distinct DEF IsNextFree
  <2>2. Pool!Settle(Pod(h), ip)
    BY <1>1, <1>2, ActiveIsHeld DEF TypeOK, Pool!Settle
  <2>3. QED
    BY <1>1, <2>1, <2>2 DEF Pool!Allocate, Pool!HostRange, HostAddresses, HostRange
<1>5. QED
  BY <1>3, <1>4

LEMMA DelReleaseReleases ==
  ASSUME TypeOK, NEW h \in Handlers, DelRelease(h)
  PROVE  UNCHANGED held \/ \E c \in Containers : Pool!Release(c)
<1>1. Pod(h) \in Containers /\ held' = [held EXCEPT ![Pod(h)] = None]
  BY BusyHandler DEF DelRelease, At
<1>2. CASE held[Pod(h)] = None
  BY <1>1, <1>2 DEF TypeOK
<1>3. CASE held[Pod(h)] # None
  <2>1. Pool!Settle(Pod(h), None)
    BY <1>1, ActiveIsHeld DEF TypeOK, Pool!Settle
  <2>2. QED
    BY <1>1, <1>3, <2>1, ActiveIsHeld DEF Pool!Release
<1>4. QED
  BY <1>2, <1>3

\* PoolUse: the handlers, the crashes and the restarts together change the
\* allocator only as AddressPool, which Ipam implements, allows.
THEOREM PoolUsed == Spec => PoolUse
<1>1. Init => Pool!Init
  BY DEF Init, Pool!Init
<1>2. TypeOK /\ [Next]_vars => [Pool!Next]_Pool!poolVars
  <2> SUFFICES ASSUME TypeOK, [Next]_vars
               PROVE  UNCHANGED held \/ Pool!Next
    BY DEF Pool!poolVars
  <2>1. CASE \E h \in Handlers : AddIpam(h) \/ DelRelease(h)
    BY <2>1, AddIpamAllocates, DelReleaseReleases DEF Pool!Next
  <2>2. CASE \E h \in Handlers : Step(h) /\ ~AddIpam(h) /\ ~DelRelease(h)
    BY <2>2 DEF Step, Enter, AddOpen, AddVeth, AddMove, AddLinkUp, AddProxyArp, AddHostRoute,
                AddAddress, AddGateway, AddConvert, DelFind, DelSkips, DelVeth, CheckLookup, CheckOpen,
                CheckPasses, StepFails
  <2>3. CASE \E h \in Handlers : GiveUp(h)
    BY <2>3 DEF GiveUp
  <2>4. CASE \E h \in Handlers, c \in Containers : CallAdd(h, c) \/ CallDel(h, c) \/ CallCheck(h, c)
    BY <2>4 DEF CallAdd, CallDel, CallCheck, Call
  <2>5. CASE \E c \in Containers : Refused(c) \/ RemoveNetns(c) \/ DestroyNetns(c)
    BY <2>5 DEF Refused, RemoveNetns, DestroyNetns
  <2>6. CASE Crash \/ Reboot \/ Start \/ UNCHANGED vars
    BY <2>6 DEF Crash, Reboot, Start, vars
  <2>7. QED
    BY <2>1, <2>2, <2>3, <2>4, <2>5, <2>6 DEF Next
<1>3. QED
  BY <1>1, <1>2, TypeCorrect, PTL DEF Spec, PoolUse, Pool!Spec

\* No two containers hold the same address, across handlers, crashes and
\* reboots: AddressPool promises it to whoever uses it so.
THEOREM HeldIsExclusive == Spec => []Pool!Exclusive
<1>1. \A n \in {Cidr} : IsCidr(n)
  BY CidrAssumption
<1>2. QED
  BY <1>1, PoolUsed, Pool!PoolIsExclusive, PTL DEF PoolUse, IsCidr, Pool!IsCidr
=============================================================================
