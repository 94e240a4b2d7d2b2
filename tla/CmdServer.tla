------------------------------ MODULE CmdServer ------------------------------
(***************************************************************************)
(* pkg/agent on one node: the handlers of CmdAdd, CmdDel and CmdCheck, run *)
(* concurrently against the allocator and the kernel, together with the    *)
(* shim that waits ten seconds for an answer and the runtime that drives   *)
(* it.                                                                     *)
(*                                                                         *)
(* A handler ignores its context: once the shim has given up it goes on to *)
(* its end.  It can fail at every step, and leaves what it did in place.   *)
(* When the agent dies its handlers vanish between two steps; the kernel   *)
(* and the state file stay.  The per-container lock is the abstract one of *)
(* ContainerLock and the allocator the one of AddressPool, which modules   *)
(* ContainerAccess and Ipam implement.                                     *)
(***************************************************************************)
EXTENDS NodeKernel

CONSTANTS Handlers      \* as many handlers as the agent runs at once

VARIABLES
  up,         \* the agent process is running
  held,       \* the allocator: container -> address
  handlers,   \* the RPC each handler executes
  phase,      \* how far the runtime is with each container
  overtaken   \* history: a DEL got in before an ADD that came earlier

vars == <<kernel, up, held, handlers, phase, overtaken>>

Pool == INSTANCE AddressPool WITH net <- Cidr, Cidrs <- {Cidr}

\* "ip" is podIP of cmdAdd, "heard" says that the shim waits for the answer.
Idle == [op |-> "none", c |-> None, at |-> "idle", ip |-> None, heard |-> FALSE]

\* The steps between lock and unlock, and those at which netNS is open.
AddSteps   == {"open", "veth", "move", "linkup", "arp", "ipam", "route", "addr", "gateway", "convert"}
DelSteps   == {"release", "find", "delete"}
CheckSteps == {"lookup", "look", "inspect"}
Inside     == AddSteps \cup DelSteps \cup CheckSteps
NetnsOpen  == (AddSteps \ {"open"}) \cup {"delete", "inspect"}

FirstStep(op) == CASE op = "add"   -> "open"
                   [] op = "del"   -> "release"
                   [] op = "check" -> "lookup"

Phases == {"new", "adding", "running", "checking", "failed", "stopping",
           "leaving", "stopped", "removed"}

\* What the runtime makes of an answer, and of an error or no answer.
Answered(p)   == CASE p = "adding"   -> "running"
                   [] p = "checking" -> "running"
                   [] p = "stopping" -> "stopped"
                   [] OTHER -> p
Unanswered(p) == CASE p = "adding"   -> "failed"
                   [] p = "checking" -> "running"
                   [] p = "stopping" -> "leaving"
                   [] OTHER -> p

Init ==
  /\ KernelInit
  /\ up = FALSE
  /\ held = [c \in Containers |-> None]
  /\ handlers = [h \in Handlers |-> Idle]
  /\ phase = [c \in Containers |-> "new"]
  /\ overtaken = {}

-----------------------------------------------------------------------------
(* The runtime and the shim                                                *)

\* The shim's request reaches the agent, which starts a handler for it.
Call(h, c, op, before, during) ==
  /\ up
  /\ handlers[h] = Idle
  /\ phase[c] \in before
  /\ handlers' = [handlers EXCEPT ![h] =
                   [op |-> op, c |-> c, at |-> "arriving", ip |-> None, heard |-> TRUE]]
  /\ phase' = [phase EXCEPT ![c] = during]
  /\ UNCHANGED <<kernel, up, held, overtaken>>

CallAdd(h, c)   == Call(h, c, "add", {"new", "failed"}, "adding")
CallDel(h, c)   == Call(h, c, "del", {"running", "failed", "leaving"}, "stopping")
CallCheck(h, c) == Call(h, c, "check", {"running"}, "checking")

\* The agent is not there: the shim answers TryAgainLater.
Refused(c) ==
  /\ ~up
  /\ \/ phase[c] = "new" /\ phase' = [phase EXCEPT ![c] = "failed"]
     \/ phase[c] \in {"running", "failed"} /\ phase' = [phase EXCEPT ![c] = "leaving"]
  /\ UNCHANGED <<kernel, up, held, handlers, overtaken>>

\* The shim's context expires; nothing stops the handler.
GiveUp(h) ==
  /\ handlers[h].heard
  /\ handlers' = [handlers EXCEPT ![h].heard = FALSE]
  /\ phase' = [phase EXCEPT ![handlers[h].c] = Unanswered(@)]
  /\ UNCHANGED <<kernel, up, held, overtaken>>

\* After a successful DEL the runtime removes the namespace.
RemoveNetns(c) ==
  /\ phase[c] = "stopped"
  /\ phase' = [phase EXCEPT ![c] = "removed"]
  /\ netns' = [netns EXCEPT ![c] = "unlinked"]
  /\ UNCHANGED <<veth, addr, gateway, route, up, held, handlers, overtaken>>

\* The kernel destroys a namespace that has no path and that nobody holds open.
DestroyNetns(c) ==
  /\ netns[c] = "unlinked"
  /\ veth[c] # "none"
  /\ \A h \in Handlers : handlers[h].c = c => handlers[h].at \notin NetnsOpen
  /\ DropVeth(c)
  /\ UNCHANGED <<up, held, handlers, phase, overtaken>>

-----------------------------------------------------------------------------
(* The handlers                                                            *)

At(h, step) == handlers[h].at = step
Pod(h) == handlers[h].c

Goto(h, step) ==
  /\ handlers' = [handlers EXCEPT ![h].at = step]
  /\ UNCHANGED <<up, phase, overtaken>>

\* The handler returns and unlocks; the runtime learns of it if the shim waits.
Answer(h, p) ==
  /\ handlers' = [handlers EXCEPT ![h] = Idle]
  /\ phase' = IF handlers[h].heard THEN [phase EXCEPT ![Pod(h)] = p] ELSE phase
  /\ UNCHANGED <<up, overtaken>>

\* Faulty variant for a mutation run: an error return leaves the lock taken.
ErrorWithoutUnlock(h) ==
  /\ handlers' = [handlers EXCEPT ![h] = [Idle EXCEPT !.c = handlers[h].c]]
  /\ UNCHANGED <<up, phase, overtaken>>

Ok(h)    == Answer(h, Answered(phase[Pod(h)]))
Error(h) == Answer(h, Unanswered(phase[Pod(h)]))

\* h is a DEL of c that gets in while an ADD of c waits to.
Overtakes(h, c) ==
  /\ handlers[h].op = "del"
  /\ Pod(h) = c
  /\ \E g \in Handlers : handlers[g].op = "add" /\ Pod(g) = c /\ At(g, "arriving")

\* Faulty variant for a mutation run: there is no per-container lock.
EnterUnlocked(h) ==
  /\ At(h, "arriving")
  /\ handlers' = [handlers EXCEPT ![h].at = FirstStep(handlers[h].op)]
  /\ overtaken' = overtaken \cup {c \in Containers : Overtakes(h, c)}
  /\ UNCHANGED <<kernel, up, held, phase>>

\* containerAccess.lock: any of the calls for a free container gets in.
Enter(h) ==
  /\ At(h, "arriving")
  /\ \A g \in Handlers : handlers[g].c = Pod(h) => handlers[g].at \notin Inside
  /\ handlers' = [handlers EXCEPT ![h].at = FirstStep(handlers[h].op)]
  /\ overtaken' = overtaken \cup {c \in Containers : Overtakes(h, c)}
  /\ UNCHANGED <<kernel, up, held, phase>>

\* Faulty variant for a mutation run: a namespace that is gone is made again.
AddOpenAnew(h) ==
  /\ At(h, "open")
  /\ Goto(h, "veth")
  /\ UNCHANGED <<kernel, held>>

\* cmdAdd: LoadConf and GetNS.
AddOpen(h) ==
  /\ At(h, "open")
  /\ netns[Pod(h)] = "mounted"
  /\ Goto(h, "veth")
  /\ UNCHANGED <<kernel, held>>

AddVeth(h) ==
  /\ At(h, "veth")
  /\ SetupVeth(Pod(h))
  /\ Goto(h, "move")
  /\ UNCHANGED held

\* LinkSetNsFd of the host end, LinkSetUp, EnableProxyARP.
AddMove(h)     == At(h, "move")   /\ HostEnd(Pod(h), "inner", "moved") /\ Goto(h, "linkup") /\ UNCHANGED held
AddLinkUp(h)   == At(h, "linkup") /\ HostEnd(Pod(h), "moved", "up")    /\ Goto(h, "arp")    /\ UNCHANGED held
AddProxyArp(h) == At(h, "arp")    /\ HostEnd(Pod(h), "up", "ready")    /\ Goto(h, "ipam")   /\ UNCHANGED held

\* alloc.Add: the address the container has, or the next free one.
AddIpam(h) ==
  LET c == Pod(h) IN
  /\ At(h, "ipam")
  /\ \E ip \in HostAddresses :
       /\ \/ held[c] = ip
          \/ /\ held[c] = None
             /\ IsNextFree(ip, Cidr, {held[d] : d \in Containers} \ {None})
       /\ held' = [held EXCEPT ![c] = ip]
       /\ handlers' = [handlers EXCEPT ![h].at = "route", ![h].ip = ip]
  /\ UNCHANGED <<kernel, up, phase, overtaken>>

AddHostRoute(h) ==
  /\ At(h, "route")
  /\ SetupHostRoute(Pod(h), handlers[h].ip)
  /\ Goto(h, "addr")
  /\ UNCHANGED held

AddAddress(h) ==
  /\ At(h, "addr")
  /\ ConfigureInterface(Pod(h), handlers[h].ip)
  /\ Goto(h, "gateway")
  /\ UNCHANGED held

AddGateway(h) ==
  /\ At(h, "gateway")
  /\ AddDefaultRoute(Pod(h))
  /\ Goto(h, "convert")
  /\ UNCHANGED held

\* The result is converted and printed, which can still fail.
AddConvert(h) ==
  /\ At(h, "convert")
  /\ Ok(h)
  /\ UNCHANGED <<kernel, held>>

\* cmdDel: alloc.Del comes first.
DelRelease(h) ==
  /\ At(h, "release")
  /\ held' = [held EXCEPT ![Pod(h)] = None]
  /\ Goto(h, "find")
  /\ UNCHANGED kernel

DelFind(h) ==
  /\ At(h, "find")
  /\ netns[Pod(h)] = "mounted"
  /\ Goto(h, "delete")
  /\ UNCHANGED <<kernel, held>>

\* There is no netns, or GetNS fails for whatever reason: the teardown is
\* skipped and DEL succeeds.
DelSkips(h) ==
  /\ At(h, "find")
  /\ Ok(h)
  /\ UNCHANGED <<kernel, held>>

\* DeleteVeth: a link that is not there is a success.
DelVeth(h) ==
  /\ At(h, "delete")
  /\ DropVeth(Pod(h))
  /\ Ok(h)
  /\ UNCHANGED held

\* cmdCheck: alloc.Check, GetNS.
CheckLookup(h) ==
  /\ At(h, "lookup")
  /\ held[Pod(h)] # None
  /\ Goto(h, "look")
  /\ UNCHANGED <<kernel, held>>

CheckOpen(h) ==
  /\ At(h, "look")
  /\ netns[Pod(h)] = "mounted"
  /\ Goto(h, "inspect")
  /\ UNCHANGED <<kernel, held>>

\* The interface is there, up since SetupVeth, and has an address, which may
\* be the IPv6 link-local one that the kernel gave it.
CheckPasses(h) ==
  /\ At(h, "inspect")
  /\ veth[Pod(h)] # "none"
  /\ Ok(h)
  /\ UNCHANGED <<kernel, held>>

\* Faulty variant for a mutation run: a step that fails is tried again, for ever.
StepRetries(h) ==
  /\ handlers[h].at \in Inside \ {"find"}
  /\ UNCHANGED vars

\* A step fails, because of the state of the node (the link or the route
\* exists, the veth is gone, no address is free) or because a system call, a
\* netlink request or a write of the state file does; nothing is undone.
StepFails(h) ==
  /\ handlers[h].at \in Inside \ {"find"}
  /\ Error(h)
  /\ UNCHANGED <<kernel, held>>

-----------------------------------------------------------------------------
\* The agent dies: the connections break, the open namespaces are closed.
Crash ==
  /\ up
  /\ up' = FALSE
  /\ handlers' = [h \in Handlers |-> Idle]
  /\ phase' = [c \in Containers |-> Unanswered(phase[c])]
  /\ UNCHANGED <<kernel, held, overtaken>>

\* The node reboots: the namespaces are gone and all that was in them, and so are
\* the host routes.  The state file is on disk, and the runtime still has to
\* delete the containers it had begun with.
Reboot ==
  /\ up' = FALSE
  /\ handlers' = [h \in Handlers |-> Idle]
  /\ netns' = [c \in Containers |-> IF phase[c] = "new" THEN "mounted" ELSE "unlinked"]
  /\ veth' = [c \in Containers |-> "none"]
  /\ addr' = [c \in Containers |-> None]
  /\ gateway' = [c \in Containers |-> FALSE]
  /\ route' = [ip \in HostAddresses |-> None]
  /\ phase' = [c \in Containers |->
                 IF phase[c] \in {"new", "stopped", "removed"} THEN phase[c] ELSE "leaving"]
  /\ UNCHANGED <<held, overtaken>>

\* ipam.New restores what the state file holds.
Start ==
  /\ ~up
  /\ up' = TRUE
  /\ UNCHANGED <<kernel, held, handlers, phase, overtaken>>

Step(h) ==
  \/ Enter(h)
  \/ AddOpen(h) \/ AddVeth(h) \/ AddMove(h) \/ AddLinkUp(h) \/ AddProxyArp(h)
  \/ AddIpam(h) \/ AddHostRoute(h) \/ AddAddress(h) \/ AddGateway(h) \/ AddConvert(h)
  \/ DelRelease(h) \/ DelFind(h) \/ DelSkips(h) \/ DelVeth(h)
  \/ CheckLookup(h) \/ CheckOpen(h) \/ CheckPasses(h)
  \/ StepFails(h)

Next ==
  \/ \E h \in Handlers : Step(h) \/ GiveUp(h)
  \/ \E h \in Handlers, c \in Containers : CallAdd(h, c) \/ CallDel(h, c) \/ CallCheck(h, c)
  \/ \E c \in Containers : Refused(c) \/ RemoveNetns(c) \/ DestroyNetns(c)
  \/ Crash \/ Reboot \/ Start

Spec == Init /\ [][Next]_vars

\* Handlers run to their end, and the kernel gets round to dead namespaces.
Fairness ==
  /\ \A h \in Handlers : WF_vars(Step(h))
  /\ \A c \in Containers : WF_vars(DestroyNetns(c))

FairSpec == Spec /\ Fairness

-----------------------------------------------------------------------------
(* Properties                                                              *)

Calls == [op : {"add", "del", "check"}, c : Containers,
          at : {"arriving"} \cup Inside, ip : HostAddresses \cup {None},
          heard : BOOLEAN]

TypeOK ==
  /\ KernelTypeOK
  /\ up \in BOOLEAN
  /\ held \in [Containers -> HostAddresses \cup {None}]
  /\ handlers \in [Handlers -> Calls \cup {Idle}]
  /\ phase \in [Containers -> Phases]
  /\ overtaken \subseteq Containers

\* No two pods have the same address configured, although DEL releases the
\* address before it deletes the veth and another ADD may be given it at once:
\* the exclusive /32 host route holds that ADD back until the old veth is gone.
UniqueAddress ==
  \A c, d \in Containers : addr[c] # None /\ addr[c] = addr[d] => c = d

\* A container whose ADD was answered without error, and that the runtime has
\* not begun to delete, is wired up from end to end and recorded by the
\* allocator, across other containers' calls, abandoned calls, and crashes.
RunningPodsConnected ==
  \A c \in Containers :
    phase[c] \in {"running", "checking"} =>
      /\ veth[c] = "ready" /\ gateway[c]
      /\ addr[c] # None /\ addr[c] = held[c]
      /\ route[addr[c]] = c

\* Once the runtime is done with a container the allocator is too, whatever
\* failed, timed out or crashed on the way, unless a DEL overtook an ADD.
NoLeakUnlessOvertaken ==
  \A c \in Containers \ overtaken : phase[c] = "removed" => held[c] = None

\* The same with no exception ("preventing races between ADD and DEL for the
\* same container").  It does not hold: the lock does not order the calls, and
\* an abandoned ADD that enters after the DEL takes an address nobody releases.
NoLeak ==
  \A c \in Containers :
    phase[c] = "removed" /\ (\A h \in Handlers : handlers[h].c # c) => held[c] = None

\* No veth and no host route of a removed container stays: an abandoned handler
\* holds its namespace open only until it ends.
NothingStays ==
  \A c \in Containers :
    phase[c] = "removed" ~>
      /\ veth[c] = "none"
      /\ \A ip \in HostAddresses : route[ip] # c

\* What cmdAdd is about to answer is still true: the podIP it was given some
\* steps ago (server.go:223) is recorded, configured and routed, whatever other
\* calls, abandoned ones included, have done in between.
AnswerIsTrue ==
  \A h \in Handlers :
    At(h, "convert") =>
      /\ handlers[h].ip # None
      /\ held[Pod(h)] = handlers[h].ip
      /\ addr[Pod(h)] = handlers[h].ip /\ gateway[Pod(h)]
      /\ route[handlers[h].ip] = Pod(h)

\* Nothing of c is left, and no handler works on its namespace.
Gone(c) ==
  /\ phase[c] = "removed"
  /\ held[c] = None /\ veth[c] = "none" /\ addr[c] = None
  /\ \A ip \in HostAddresses : route[ip] # c
  /\ \A h \in Handlers : Pod(h) = c => handlers[h].at \notin NetnsOpen

\* What is gone stays gone: an abandoned call that enters late, one that
\* overtook or was overtaken, a crash or a reboot brings nothing of it back
\* (the lock does not order calls, server.go:60, and handlers do not end with
\* their shims, server.go:75).
GoneForGood == [][\A c \in Containers : Gone(c) => Gone(c)']_vars

\* The allocator is used as AddressPool allows: also across handlers, crashes
\* and reboots an address is given only while nobody holds it (server.go:223, 316).
PoolUse == Pool!Spec
=============================================================================
