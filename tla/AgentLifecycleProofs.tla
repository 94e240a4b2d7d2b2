------------------------ MODULE AgentLifecycleProofs ------------------------
(***************************************************************************)
(* Proofs about AgentLifecycle for any pod CIDRs, any number of shims and  *)
(* any number of signals, failures and reboots.                            *)
(***************************************************************************)
EXTENDS AgentLifecycle, TLAPS

\* What run() has done before each of its steps.
AfterSync   == {"config", "ipam", "nat", "listen", "register", "serving", "stopping"}
AfterConfig == AfterSync \ {"config"}
AfterIpam   == AfterConfig \ {"ipam"}
AfterNat    == AfterIpam \ {"nat"}

BootInv ==
  /\ main \in AfterSync   => own # None
  /\ main \in AfterConfig => conf = "written"
  /\ main \in AfterIpam   => alloc = own
  /\ main \in AfterNat    => nat = {own}

\* The goroutine is there from Register on.
ServerInv == server # "none" => main \in {"serving", "stopping"}

\* A server that was told to stop has closed its listener.
StopInv == main = "stopping" /\ server = "serving" => socket = "none"

CallType == [at : {"idle", "queued", "handling"}, code : Codes \cup {None}, answered : BOOLEAN]

\* A call is handled only while the server serves, and answered only at the
\* end; without an answer its shim is told to try again.
GoodCall(call) ==
  /\ call \in CallType
  /\ call.at = "handling" => server = "serving"
  /\ call.at # "idle" => ~call.answered
  /\ call.code # None /\ ~call.answered => call.code = "TryAgainLater"

CallsInv == \A c \in Calls : GoodCall(calls[c])

IInv == TypeOK /\ BootInv /\ ServerInv /\ StopInv /\ CallsInv

-----------------------------------------------------------------------------
\* The codes of the statuses the module uses.
LEMMA CodeFacts ==
  /\ rpcError("Unavailable") = "TryAgainLater"
  /\ rpcError("DeadlineExceeded") = "TryAgainLater"
  /\ rpcError("Unknown") \in Codes
  /\ AsError(TRUE) \in Codes /\ AsError(FALSE) \in Codes
  /\ "TryAgainLater" \in Codes
BY DEF rpcError, AsError, Codes

\* A call that ends, or loses its shim, without an answer stays a good one.
LEMMA ToldFacts ==
  ASSUME NEW call, GoodCall(call)
  PROVE  /\ GoodCall(Told(call, "TryAgainLater"))
         /\ Told(call, "TryAgainLater").at = call.at
         /\ [Told(call, "TryAgainLater") EXCEPT !.at = "idle"] \in CallType
         /\ [Told(call, "TryAgainLater") EXCEPT !.at = "idle"].at = "idle"
         /\ GoodCall([Told(call, "TryAgainLater") EXCEPT !.at = "idle"])
<1> DEFINE told == Told(call, "TryAgainLater")
<1>1. told \in CallType
  BY CodeFacts DEF Told, CallType, GoodCall
<1>2. /\ told.at = call.at /\ told.answered = call.answered
      /\ told.code = IF call.code = None THEN "TryAgainLater" ELSE call.code
  BY DEF Told, CallType, GoodCall
<1> HIDE DEF told
<1>3. GoodCall(told)
  BY <1>1, <1>2 DEF GoodCall
<1>4. /\ [told EXCEPT !.at = "idle"] \in CallType
      /\ [told EXCEPT !.at = "idle"].at = "idle"
      /\ [told EXCEPT !.at = "idle"].code = told.code
      /\ [told EXCEPT !.at = "idle"].answered = told.answered
  BY <1>1 DEF CallType
<1>5. GoodCall([told EXCEPT !.at = "idle"])
  BY <1>3, <1>4 DEF GoodCall
<1>6. QED
  BY <1>2, <1>3, <1>4, <1>5 DEF told

\* A call that is over and told the runtime nothing is a good one.
LEMMA IdleIsGood == Idle \in CallType /\ GoodCall(Idle) /\ Idle.at = "idle" /\ Idle.code = None
BY DEF Idle, CallType, GoodCall

\* The initial state satisfies the invariant.
LEMMA InitIInv == Init => IInv
<1> SUFFICES ASSUME Init PROVE IInv
  OBVIOUS
<1>1. CallsInv /\ calls \in [Calls -> CallType]
  BY IdleIsGood DEF Init, CallsInv
<1>2. TypeOK
  <2>1. upsets \in 0..MaxUpsets
    BY UpsetsAssumption DEF Init
  <2>2. main \in Steps
    BY DEF Init, Steps
  <2>3. QED
    BY <1>1, <2>1, <2>2, Zenon DEF Init, TypeOK, CallType
<1>3. BootInv /\ ServerInv /\ StopInv
  BY DEF Init, BootInv, AfterSync, AfterConfig, AfterIpam, AfterNat, ServerInv, StopInv
<1>4. QED
  BY <1>1, <1>2, <1>3 DEF IInv

\* A step of one shim, or of its handler, leaves its call a good one.
LEMMA CallStep ==
  ASSUME IInv, NEW c \in Calls, Dial(c) \/ Accept(c) \/ Respond(c) \/ Expire(c)
  PROVE  \E new \in CallType : GoodCall(new) /\ calls' = [calls EXCEPT ![c] = new]
<1> DEFINE old == calls[c]
<1>1. GoodCall(old) /\ old \in CallType
  BY DEF IInv, CallsInv, GoodCall
<1>2. CASE Dial(c)
  <2>1. calls' = [calls EXCEPT ![c] = IF socket = "open" THEN [Idle EXCEPT !.at = "queued"]
                                      ELSE [Idle EXCEPT !.code = "TryAgainLater"]]
    BY <1>2, CodeFacts DEF Dial
  <2>2. /\ GoodCall([Idle EXCEPT !.at = "queued"])
        /\ GoodCall([Idle EXCEPT !.code = "TryAgainLater"])
    BY CodeFacts DEF Idle, CallType, GoodCall
  <2>3. QED
    BY <2>1, <2>2 DEF GoodCall
<1>3. CASE Accept(c)
  <2> DEFINE new == [old EXCEPT !.at = "handling"]
  <2>1. main = "serving" /\ server = "serving" /\ old.at = "queued"
    BY <1>3 DEF IInv, ServerInv, Accept
  <2>2. calls' = [calls EXCEPT ![c] = new]
    BY <1>3, <2>1 DEF Accept
  <2>3. new \in CallType /\ new.at = "handling" /\ new.code = old.code /\ new.answered = old.answered
    BY <1>1 DEF CallType
  <2> HIDE DEF new
  <2>4. GoodCall(new)
    BY <1>1, <2>1, <2>3 DEF GoodCall
  <2>5. QED
    BY <2>2, <2>3, <2>4
<1>4. CASE Respond(c)
  <2>1. PICK code \in Codes : calls' = [calls EXCEPT ![c] =
               [Told(old, code) EXCEPT !.at = "idle", !.answered = (old.code = None)]]
    BY <1>4, CodeFacts DEF Respond
  <2> DEFINE told == Told(old, code)
             first == (old.code = None)
             new == [told EXCEPT !.at = "idle", !.answered = first]
  <2>2. told \in CallType /\ (~first => told.code = old.code)
    BY <1>1 DEF Told, CallType
  <2>3. ~first => old.code = "TryAgainLater"
    BY <1>1, <1>4 DEF Respond, GoodCall
  <2>4. first \in BOOLEAN /\ calls' = [calls EXCEPT ![c] = new]
    BY <2>1
  <2> HIDE DEF told, first, old
  <2>5. new \in CallType /\ new.at = "idle" /\ new.answered = first /\ new.code = told.code
    BY <2>2, <2>4 DEF CallType
  <2> HIDE DEF new
  <2>6. GoodCall(new)
    BY <2>2, <2>3, <2>5 DEF GoodCall
  <2>7. QED
    BY <2>4, <2>5, <2>6
<1>5. CASE Expire(c)
  <2> DEFINE told == Told(old, "TryAgainLater")
  <2>1. calls' = [calls EXCEPT ![c] = IF old.at = "queued" THEN [told EXCEPT !.at = "idle"] ELSE told]
    BY <1>5, CodeFacts DEF Expire
  <2>2. GoodCall(told) /\ GoodCall([told EXCEPT !.at = "idle"])
    BY <1>1, ToldFacts
  <2>3. QED
    BY <2>1, <2>2 DEF GoodCall
<1>6. QED
  BY <1>2, <1>3, <1>4, <1>5

LEMMA CallIInv ==
  ASSUME IInv, NEW c \in Calls, Dial(c) \/ Accept(c) \/ Respond(c) \/ Expire(c)
  PROVE  IInv'
<1>1. /\ UNCHANGED <<cidr, main, term, server, own, alloc, socket, conf, nat, upsets>>
      /\ calls \in [Calls -> CallType]
  BY DEF IInv, TypeOK, CallType, Dial, Accept, Respond, Expire, process, host
<1>2. PICK new \in CallType : GoodCall(new) /\ calls' = [calls EXCEPT ![c] = new]
  BY CallStep
<1>3. CallsInv'
  BY <1>1, <1>2 DEF IInv, CallsInv, GoodCall
<1>4. TypeOK'
  BY <1>1, <1>2 DEF IInv, TypeOK, CallType
<1>5. BootInv' /\ ServerInv' /\ StopInv'
  BY <1>1 DEF IInv, BootInv, ServerInv, StopInv
<1>6. QED
  BY <1>3, <1>4, <1>5 DEF IInv

\* The steps of run() that leave the calls alone, and changes of the Node object.
LEMMA BootIInv ==
  ASSUME IInv,
         \/ Install \/ Start \/ NodeSync \/ WriteCNIConfig \/ NewAllocator
         \/ SetupMasquerade \/ Listen \/ Register \/ Serve \/ Terminate \/ Renumber
  PROVE  IInv'
<1>1. calls' = calls /\ (server' = server \/ server = "spawned" \/ server = "none")
  BY DEF IInv, ServerInv, Install, Start, NodeSync, WriteCNIConfig, NewAllocator, SetupMasquerade, Listen, Register, Serve,
         Terminate, Renumber, Goto, process
<1>2. CallsInv'
  BY <1>1 DEF IInv, CallsInv, GoodCall
<1>3. TypeOK'
  <2>1. /\ main' \in Steps /\ term' \in BOOLEAN
        /\ server' \in {"none", "spawned", "serving"}
        /\ socket' \in {"none", "open", "stale"}
        /\ conf' \in {"none", "installed", "written"}
    BY DEF IInv, TypeOK, Install, Start, NodeSync, WriteCNIConfig, NewAllocator, SetupMasquerade,
           Listen, Register, Serve, Terminate, Renumber, Goto, process, host, Steps, Booting
  <2>2. /\ cidr' \in Cidrs \cup {None}
        /\ own' \in Cidrs \cup {None}
        /\ alloc' \in Cidrs \cup {None}
    BY DEF IInv, TypeOK, Install, Start, NodeSync, WriteCNIConfig, NewAllocator, SetupMasquerade,
           Listen, Register, Serve, Terminate, Renumber, Goto, process, host
  <2>3. nat' \subseteq Cidrs
    <3>1. CASE SetupMasquerade
      BY <3>1 DEF SetupMasquerade, IInv, TypeOK, BootInv, AfterSync
    <3>2. CASE ~SetupMasquerade
      BY <3>2 DEF IInv, TypeOK, Install, Start, NodeSync, WriteCNIConfig, NewAllocator, Listen,
                  Register, Serve, Terminate, Renumber, host
    <3>3. QED
      BY <3>1, <3>2
  <2>4. upsets' \in 0..MaxUpsets
    <3>1. upsets' = upsets \/ Upset
      BY DEF Install, Start, NodeSync, WriteCNIConfig, NewAllocator, SetupMasquerade,
             Listen, Register, Serve, Terminate, Renumber, Goto
    <3>2. QED
      BY <3>1, UpsetsAssumption DEF IInv, TypeOK, Upset
  <2>5. QED
    BY <1>1, <2>1, <2>2, <2>3, <2>4 DEF IInv, TypeOK
<1>4. BootInv'
  BY DEF IInv, BootInv, AfterSync, AfterConfig, AfterIpam, AfterNat, Install, Start, NodeSync, WriteCNIConfig,
         NewAllocator, SetupMasquerade, Listen, Register, Serve, Terminate, Renumber, Goto, process, host, TypeOK
<1>5. ServerInv' /\ StopInv'
  BY DEF IInv, ServerInv, StopInv, Install, Start, NodeSync, WriteCNIConfig, NewAllocator, SetupMasquerade,
         Listen, Register, Serve, Terminate, Renumber, Goto, process, host
<1>6. QED
  BY <1>2, <1>3, <1>4, <1>5 DEF IInv

\* Connections that break leave good calls, and none of them where they broke.
LEMMA BreakCalls ==
  ASSUME IInv, NEW places, calls' = Break(places),
         server' = server \/ "handling" \in places
  PROVE  CallsInv' /\ calls' \in [Calls -> CallType]
<1> SUFFICES ASSUME NEW c \in Calls PROVE GoodCall(calls[c])' /\ calls'[c] \in CallType
  BY DEF CallsInv, Break
<1>1. GoodCall(calls[c])
  BY DEF IInv, CallsInv
<1> DEFINE new == [Told(calls[c], "TryAgainLater") EXCEPT !.at = "idle"]
<1>2. calls'[c] = IF calls[c].at \in places THEN new ELSE calls[c]
  BY CodeFacts DEF Break
<1>3. GoodCall(new) /\ new \in CallType /\ new.at = "idle"
  BY <1>1, ToldFacts
<1> HIDE DEF new
<1>4. QED
  BY <1>1, <1>2, <1>3 DEF GoodCall

LEMMA StopIInv ==
  ASSUME IInv, GracefulStop
  PROVE  IInv'
<1>1. /\ main = "serving" /\ main' = "stopping" /\ server' = server
      /\ UNCHANGED <<cidr, term, own, alloc, conf, nat, upsets>>
      /\ \/ server = "serving" /\ socket' = "none" /\ calls' = Break({"queued"})
         \/ server # "serving" /\ socket' = socket /\ calls' = calls
  BY DEF GracefulStop
<1>2. CallsInv' /\ calls' \in [Calls -> CallType]
  <2>1. CASE calls' = Break({"queued"})
    BY <1>1, <2>1, BreakCalls
  <2>2. CASE calls' = calls
    BY <1>1, <2>2 DEF IInv, CallsInv, GoodCall, TypeOK, CallType
  <2>3. QED
    BY <1>1, <2>1, <2>2
<1>3. TypeOK'
  BY <1>1, <1>2 DEF IInv, TypeOK, CallType, Steps
<1>4. BootInv' /\ ServerInv' /\ StopInv'
  BY <1>1 DEF IInv, BootInv, AfterSync, AfterConfig, AfterIpam, AfterNat, ServerInv, StopInv
<1>5. QED
  BY <1>2, <1>3, <1>4 DEF IInv

LEMMA ExitIInv ==
  ASSUME IInv, NEW removed \in BOOLEAN, Exit(removed), upsets' \in 0..MaxUpsets
  PROVE  IInv'
<1>1. CallsInv' /\ calls' \in [Calls -> CallType]
  BY BreakCalls DEF Exit
<1>2. TypeOK'
  BY <1>1 DEF IInv, TypeOK, Exit, CallType, Steps
<1>3. BootInv' /\ ServerInv' /\ StopInv'
  BY DEF Exit, BootInv, AfterSync, AfterConfig, AfterIpam, AfterNat, ServerInv, StopInv
<1>4. QED
  BY <1>1, <1>2, <1>3 DEF IInv

LEMMA RebootIInv ==
  ASSUME IInv, Reboot
  PROVE  IInv'
<1>1. calls' = [c \in Calls |-> Idle] /\ calls' \in [Calls -> CallType]
  BY IdleIsGood DEF Reboot
<1>2. CallsInv'
  BY <1>1, IdleIsGood DEF CallsInv, GoodCall
<1>3. TypeOK'
  <2>1. upsets' \in 0..MaxUpsets
    BY UpsetsAssumption DEF IInv, TypeOK, Reboot, Upset
  <2>2. main' \in Steps
    BY DEF Reboot, Steps
  <2>3. cidr' \in Cidrs \cup {None} /\ conf' \in {"none", "installed", "written"}
    BY DEF Reboot, IInv, TypeOK
  <2>4. QED
    BY <1>1, <2>1, <2>2, <2>3, Zenon DEF TypeOK, Reboot, CallType
<1>4. BootInv' /\ ServerInv' /\ StopInv'
  BY DEF Reboot, BootInv, AfterSync, AfterConfig, AfterIpam, AfterNat, ServerInv, StopInv
<1>5. QED
  BY <1>2, <1>3, <1>4 DEF IInv

\* Every step keeps the invariant.
LEMMA NextIInv == IInv /\ [Next]_vars => IInv'
<1> SUFFICES ASSUME IInv, [Next]_vars PROVE IInv'
  OBVIOUS
<1>1. CASE \E c \in Calls : Dial(c) \/ Accept(c) \/ Respond(c) \/ Expire(c)
  BY <1>1, CallIInv
<1>2. CASE \/ Install \/ Start \/ NodeSync \/ WriteCNIConfig \/ NewAllocator
           \/ SetupMasquerade \/ Listen \/ Register \/ Serve \/ Terminate \/ Renumber
  BY <1>2, BootIInv
<1>3. CASE GracefulStop
  BY <1>3, StopIInv
<1>4. CASE Reboot
  BY <1>4, RebootIInv
<1>5. CASE \/ NoPodCIDR \/ AddressInUse \/ Interrupted \/ StepFails \/ Return
           \/ ServeTooLate \/ ServeFails \/ Kill \/ KillAfterGrace
  <2>1. \E removed \in BOOLEAN : Exit(removed)
    BY <1>5 DEF NoPodCIDR, AddressInUse, Interrupted, StepFails, Return, ServeTooLate,
                ServeFails, Kill, KillAfterGrace
  <2>2. upsets' = upsets \/ Upset
    BY <1>5 DEF NoPodCIDR, AddressInUse, Interrupted, StepFails, Return, ServeTooLate,
                ServeFails, Kill, KillAfterGrace
  <2>3. upsets' \in 0..MaxUpsets
    BY <2>2, UpsetsAssumption DEF IInv, TypeOK, Upset
  <2>4. QED
    BY <2>1, <2>3, ExitIInv
<1>6. CASE UNCHANGED vars
  BY <1>6 DEF vars, process, host, IInv, TypeOK, BootInv, ServerInv, StopInv, CallsInv, GoodCall
<1>7. QED
  BY <1>1, <1>2, <1>3, <1>4, <1>5, <1>6 DEF Next, Progress

LEMMA Invariance == Spec => []IInv
BY InitIInv, NextIInv, PTL DEF Spec

\* Every variable has its type: run() goes on only with a pod CIDR
\* (main.go:109-113).
THEOREM TypeCorrect == Spec => []TypeOK
BY Invariance, PTL DEF IInv

\* A call is handled only by an agent that is set up for one pod CIDR
\* (main.go:109-155).
THEOREM OnlyReadyAgentsHandle == Spec => []HandledByReadyAgent
<1>1. IInv => HandledByReadyAgent
  BY DEF IInv, BootInv, AfterSync, AfterConfig, AfterIpam, AfterNat, ServerInv, CallsInv,
         GoodCall, HandledByReadyAgent
<1>2. QED
  BY <1>1, Invariance, PTL

\* A shim without an answer is told to try again (main.go:125-147 of the shim).
THEOREM ShimsTryAgain == Spec => []UnansweredTriesAgain
<1>1. IInv => UnansweredTriesAgain
  BY DEF IInv, CallsInv, GoodCall, UnansweredTriesAgain
<1>2. QED
  BY <1>1, Invariance, PTL

\* A server that is stopped leaves no socket file behind (main.go:157-161).
THEOREM StopsCleanly == Spec => CleanStop
<1>1. IInv /\ [Next]_vars =>
        [main = "stopping" /\ server = "serving" /\ main' = "down" => socket' = "none"]_vars
  <2> SUFFICES ASSUME IInv, [Next]_vars, main = "stopping", server = "serving", main' = "down"
               PROVE  socket' = "none"
    OBVIOUS
  <2>1. socket = "none"
    BY DEF IInv, StopInv
  <2>2. socket' = "none" \/ socket' = socket
    BY <2>1
    DEF Next, Progress, Install, Start, NodeSync, WriteCNIConfig, NewAllocator, SetupMasquerade,
        Listen, Register, Serve, GracefulStop, Return, ServeTooLate, NoPodCIDR, AddressInUse,
        Interrupted, StepFails, ServeFails, Terminate, Kill, KillAfterGrace, Reboot, Renumber,
        Dial, Accept, Respond, Expire, Exit, Goto, process, host, vars
  <2>3. QED
    BY <2>1, <2>2
<1>2. QED
  BY <1>1, Invariance, PTL DEF Spec, CleanStop

-----------------------------------------------------------------------------
\* The listener; the goroutine is there as long as a server is.
ListenInv ==
  /\ main \in {"serving", "stopping"} => server # "none"
  /\ OneListener

\* A stop closes the listener, unless Serve does not know of it yet.
LEMMA StopListen ==
  ASSUME IInv, ListenInv, GracefulStop
  PROVE  ListenInv'
<1>1. /\ main = "serving" /\ main' = "stopping" /\ server' = server
      /\ \/ server = "serving" /\ socket' = "none"
         \/ server # "serving" /\ socket' = socket
  BY DEF GracefulStop
<1>2. server # "serving" => server = "spawned" /\ socket = "open"
  BY <1>1 DEF IInv, TypeOK, ListenInv, OneListener
<1>3. QED
  BY <1>1, <1>2 DEF ListenInv, OneListener

LEMMA NextListen ==
  ASSUME IInv, ListenInv, [Next]_vars
  PROVE  ListenInv'
<1>1. CASE UNCHANGED <<main, server, socket>>
  BY <1>1 DEF ListenInv, OneListener
<1>2. CASE \/ \E c \in Calls : Dial(c) \/ Accept(c) \/ Respond(c) \/ Expire(c)
           \/ Terminate \/ Renumber \/ UNCHANGED vars
  BY <1>1, <1>2 DEF Dial, Accept, Respond, Expire, Terminate, Renumber, process, host, vars
<1>3. CASE Install \/ Start \/ NodeSync \/ WriteCNIConfig \/ NewAllocator \/ SetupMasquerade
  <2>1. /\ main \notin {"register", "serving", "stopping"}
        /\ main' \notin {"register", "serving", "stopping"} /\ socket' = socket
    BY <1>3 DEF Install, Start, NodeSync, WriteCNIConfig, NewAllocator, SetupMasquerade, Goto,
       process, host
  <2>2. QED
    BY <2>1 DEF ListenInv, OneListener
<1>4. CASE Listen \/ Register \/ Serve
  BY <1>4 DEF ListenInv, OneListener, Listen, Register, Serve, Goto, host
<1>5. CASE GracefulStop
  BY <1>5, StopListen
<1>6. CASE \/ NoPodCIDR \/ AddressInUse \/ Interrupted \/ StepFails \/ Return
           \/ ServeTooLate \/ ServeFails \/ Kill \/ KillAfterGrace \/ Reboot
  <2>1. (\E removed \in BOOLEAN : Exit(removed)) \/ Reboot
    BY <1>6 DEF NoPodCIDR, AddressInUse, Interrupted, StepFails, Return, ServeTooLate,
       ServeFails, Kill, KillAfterGrace
  <2>2. main' = "down" /\ socket' # "open"
    BY <2>1 DEF IInv, TypeOK, Exit, Reboot
  <2>3. QED
    BY <2>2 DEF ListenInv, OneListener
<1>7. QED
  BY <1>1, <1>2, <1>3, <1>4, <1>5, <1>6 DEF Next, Progress

LEMMA ListenInvariance == Spec => []ListenInv
<1>1. Init => ListenInv
  BY DEF Init, ListenInv, OneListener
<1>2. QED
  BY <1>1, NextListen, Invariance, PTL DEF Spec

\* The socket has a listener as long as the service is to be called, and none
\* survives its agent (main.go:141-161).
THEOREM ListensAlone == Spec => []OneListener
BY ListenInvariance, PTL DEF ListenInv
=============================================================================
