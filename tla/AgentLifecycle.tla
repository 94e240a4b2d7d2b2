--------------------------- MODULE AgentLifecycle ---------------------------
(***************************************************************************)
(* The agent process from start to end (cmd/agent, run), what it leaves on *)
(* the host, and the shims that call it (cmd/purenet, pkg/cni).            *)
(*                                                                         *)
(* run() is a sequence of steps, any of which may fail and end the         *)
(* process; the kubelet starts it again.  The gRPC server runs in a        *)
(* goroutine of its own.  A Unix socket's file is removed when its         *)
(* listener is closed, and stays, useless, when the process just ends.     *)
(***************************************************************************)
EXTENDS Naturals

CONSTANTS Cidrs,      \* pod CIDRs
          Calls,      \* shims that may run at once
          None,       \* no pod CIDR, no code yet
          MaxUpsets   \* bound on signals, failures, reboots, new pod CIDRs

ASSUME NoneAssumption   == None \notin Cidrs
ASSUME UpsetsAssumption == MaxUpsets \in Nat

VARIABLES
  cidr,      \* the pod CIDR of this node's Node object
  main,      \* the step of run() that comes next
  term,      \* SIGTERM has come: ctx is done
  server,    \* the goroutine of srv.Serve: "none", "spawned", "serving"
  own,       \* ownPodCIDR
  alloc,     \* the pod CIDR of the allocator
  socket,    \* cni.sock: no file, "open" (somebody listens), "stale"
  conf,      \* 10-purenet.conf: "none", "installed", "written"
  nat,       \* the pod CIDRs with a rule in the postrouting chain
  calls,     \* per shim: where its call is, and the code the runtime gets
  upsets     \* bound

process == <<main, term, server, own, alloc>>
host    == <<socket, conf, nat>>
vars    == <<cidr, process, host, calls, upsets>>

Booting == {"sync", "config", "ipam", "nat", "listen", "register"}
Steps   == {"down", "serving", "stopping"} \cup Booting

\* What the shim tells the runtime, named for the CNI codes 0, 11, 201, 202
\* and, for an error that is not a types.Error, 999.
Codes == {"ok", "TryAgainLater", "UnknownRPCError", "IncompatibleAPIVersion", "Internal"}

Idle == [at |-> "idle", code |-> None, answered |-> FALSE]

Init ==
  /\ cidr \in Cidrs \cup {None}
  /\ main = "down"
  /\ term = FALSE
  /\ server = "none"
  /\ own = None
  /\ alloc = None
  /\ socket = "none"
  /\ conf = "none"
  /\ nat = {}
  /\ calls = [c \in Calls |-> Idle]
  /\ upsets = 0

Upset == upsets < MaxUpsets /\ upsets' = upsets + 1

-----------------------------------------------------------------------------
(* The shim                                                                *)

\* Faulty variant for the mutation runs: a broken connection is no reason to
\* try again.
rpcErrorStrict(status) ==
  CASE status = "Unimplemented"    -> "IncompatibleAPIVersion"
    [] status = "DeadlineExceeded" -> "TryAgainLater"
    [] OTHER                       -> "UnknownRPCError"

\* A gRPC status as a CNI error.
rpcError(status) ==
  CASE status = "Unimplemented"                     -> "IncompatibleAPIVersion"
    [] status \in {"Unavailable", "DeadlineExceeded"} -> "TryAgainLater"
    [] OTHER                                        -> "UnknownRPCError"

\* A response as an error: the code of ErrorResponse becomes text.
AsError(failed) == IF failed THEN "Internal" ELSE "ok"

\* The shim ends with this code, unless it has ended already.
Told(call, code) == IF call.code = None THEN [call EXCEPT !.code = code] ELSE call

\* The connections of the calls at these places break.
Break(places) ==
  [c \in Calls |->
     IF calls[c].at \in places
     THEN [Told(calls[c], rpcError("Unavailable")) EXCEPT !.at = "idle"]
     ELSE calls[c]]

\* The runtime sees a network configuration and runs the shim.  Without a
\* listener connect fails; with one the connection is queued.
Dial(c) ==
  /\ conf # "none"
  /\ calls[c].at = "idle"
  /\ calls' = [calls EXCEPT ![c] =
       IF socket = "open" THEN [Idle EXCEPT !.at = "queued"]
       ELSE [Idle EXCEPT !.code = rpcError("Unavailable")]]
  /\ UNCHANGED <<cidr, process, host, upsets>>

\* The server accepts the connection and finds the method's handler, if the
\* service is registered.
Accept(c) ==
  /\ server = "serving"
  /\ main # "stopping"
  /\ calls[c].at = "queued"
  /\ calls' = [calls EXCEPT ![c] =
       IF main = "serving" THEN [@ EXCEPT !.at = "handling"]
       ELSE [Told(@, rpcError("Unimplemented")) EXCEPT !.at = "idle"]]
  /\ UNCHANGED <<cidr, process, host, upsets>>

\* The handler returns a response, a failed one perhaps, or an error of its own
\* when the result cannot be serialised.
Respond(c) ==
  /\ calls[c].at = "handling"
  /\ \E code \in {AsError(FALSE), AsError(TRUE), rpcError("Unknown")} :
       calls' = [calls EXCEPT ![c] =
         [Told(@, code) EXCEPT !.at = "idle", !.answered = (calls[c].code = None)]]
  /\ UNCHANGED <<cidr, process, host, upsets>>

\* Faulty variant for the mutation runs: the deadline is on connecting only.
ExpireQueued(c) ==
  /\ calls[c].at = "queued"
  /\ calls[c].code = None
  /\ calls' = [calls EXCEPT ![c] =
       [Told(@, rpcError("DeadlineExceeded")) EXCEPT !.at = "idle"]]
  /\ UNCHANGED <<cidr, process, host, upsets>>

\* The shim's ten seconds are over.  A handler goes on.
Expire(c) ==
  /\ calls[c].at \in {"queued", "handling"}
  /\ calls[c].code = None
  /\ calls' = [calls EXCEPT ![c] =
       LET told == Told(@, rpcError("DeadlineExceeded")) IN
       IF @.at = "queued" THEN [told EXCEPT !.at = "idle"] ELSE told]
  /\ UNCHANGED <<cidr, process, host, upsets>>

-----------------------------------------------------------------------------
(* run()                                                                   *)

\* One step of run() is done.
Goto(step) == main' = step /\ UNCHANGED <<cidr, term, server, calls, upsets>>

\* The init container: a configuration that is there already is left alone.
Install ==
  /\ main = "down"
  /\ conf = "none"
  /\ conf' = "installed"
  /\ UNCHANGED <<cidr, process, socket, nat, calls, upsets>>

\* The kubelet starts the container, after the init container of its pod.
Start ==
  /\ main = "down"
  /\ conf # "none"
  /\ Goto("sync")
  /\ UNCHANGED <<own, alloc, host>>

\* Faulty variant for the mutation runs: a node without a pod CIDR is no error.
NodeSyncUnchecked ==
  /\ main = "sync"
  /\ own' = cidr
  /\ Goto("config")
  /\ UNCHANGED <<alloc, host>>

\* syncer.Run, which HostGateway and VxlanPeers describe.
NodeSync ==
  /\ main = "sync"
  /\ cidr # None
  /\ own' = cidr
  /\ Goto("config")
  /\ UNCHANGED <<alloc, host>>

\* Faulty variant for the mutation runs: the new file may not replace another.
WriteCNIConfigExclusive ==
  /\ main = "config"
  /\ conf = "none"
  /\ conf' = "written"
  /\ Goto("ipam")
  /\ UNCHANGED <<own, alloc, socket, nat>>

\* A temporary file is renamed over whatever was there.
WriteCNIConfig ==
  /\ main = "config"
  /\ conf' = "written"
  /\ Goto("ipam")
  /\ UNCHANGED <<own, alloc, socket, nat>>

\* ipam.New; Ipam describes what it loads.
NewAllocator ==
  /\ main = "ipam"
  /\ alloc' = own
  /\ Goto("nat")
  /\ UNCHANGED <<own, host>>

\* Faulty variant for the mutation runs: the chain is not flushed.
SetupMasqueradeAdds ==
  /\ main = "nat"
  /\ nat' = nat \cup {own}
  /\ Goto("listen")
  /\ UNCHANGED <<own, alloc, socket, conf>>

\* One transaction: the chain is there, flushed, and has this rule.
SetupMasquerade ==
  /\ main = "nat"
  /\ nat' = {own}
  /\ Goto("listen")
  /\ UNCHANGED <<own, alloc, socket, conf>>

\* bind(2) creates the socket's file and refuses if there is one.
Listen ==
  /\ main = "listen"
  /\ socket = "none"
  /\ socket' = "open"
  /\ Goto("register")
  /\ UNCHANGED <<own, alloc, conf, nat>>

\* The service is registered and the goroutine started.
Register ==
  /\ main = "register"
  /\ main' = "serving"
  /\ server' = "spawned"
  /\ UNCHANGED <<cidr, term, own, alloc, host, calls, upsets>>

\* The goroutine enters srv.Serve before the server is stopped.
Serve ==
  /\ server = "spawned"
  /\ main = "serving"
  /\ server' = "serving"
  /\ UNCHANGED <<cidr, main, term, own, alloc, host, calls, upsets>>

\* Faulty variant for the mutation runs: the listener's file is not removed.
GracefulStopKeepsFile ==
  /\ main = "serving"
  /\ term
  /\ main' = "stopping"
  /\ calls' = IF server = "serving" THEN Break({"queued"}) ELSE calls
  /\ UNCHANGED <<cidr, term, server, own, alloc, host, upsets>>

\* ctx is done: the server closes the listeners that Serve has told it of.
GracefulStop ==
  /\ main = "serving"
  /\ term
  /\ main' = "stopping"
  /\ IF server = "serving" THEN socket' = "none" /\ calls' = Break({"queued"})
                           ELSE UNCHANGED <<socket, calls>>
  /\ UNCHANGED <<cidr, term, server, own, alloc, conf, nat, upsets>>

-----------------------------------------------------------------------------
(* The end of the process                                                  *)

\* An open listener's file loses its listener, unless the process removed it.
Exit(removed) ==
  /\ main' = "down"
  /\ term' = FALSE
  /\ server' = "none"
  /\ own' = None
  /\ alloc' = None
  /\ socket' = CASE socket # "open" -> socket
                 [] removed         -> "none"
                 [] OTHER           -> "stale"
  /\ calls' = Break({"queued", "handling"})
  /\ UNCHANGED <<cidr, conf, nat>>

\* run() returns an error: no pod CIDR, or the socket's file is there already.
NoPodCIDR    == main = "sync" /\ cidr = None /\ Exit(FALSE) /\ UNCHANGED upsets
AddressInUse == main = "listen" /\ socket # "none" /\ Exit(FALSE) /\ UNCHANGED upsets

\* These steps end when ctx does.
Interrupted == main \in {"sync", "nat"} /\ term /\ Exit(FALSE) /\ UNCHANGED upsets

\* Any other error of a step that can fail.
StepFails == main \in Booting \ {"register"} /\ Upset /\ Exit(FALSE)

\* GracefulStop has waited for the handlers, and run() returns.
Return ==
  /\ main = "stopping"
  /\ \A c \in Calls : calls[c].at # "handling"
  /\ Exit(FALSE)
  /\ UNCHANGED upsets

\* The goroutine enters Serve only now: Serve closes the listener and returns
\* an error, which is fatal.
ServeTooLate ==
  /\ main = "stopping"
  /\ server = "spawned"
  /\ Exit(TRUE)
  /\ UNCHANGED upsets

\* Accepting fails for good: Serve closes the listener, and the error is fatal.
ServeFails == server = "serving" /\ main = "serving" /\ Upset /\ Exit(TRUE)

\* SIGTERM; SIGKILL, from the kernel or, after the grace period, the kubelet.
Terminate ==
  /\ main # "down"
  /\ ~term
  /\ Upset
  /\ term' = TRUE
  /\ UNCHANGED <<cidr, main, server, own, alloc, host, calls>>

Kill           == main # "down" /\ Upset /\ Exit(FALSE)
KillAfterGrace == main # "down" /\ term /\ Exit(FALSE) /\ UNCHANGED upsets

\* A reboot empties /var/run and the kernel's tables.
Reboot ==
  /\ Upset
  /\ main' = "down" /\ term' = FALSE /\ server' = "none"
  /\ own' = None /\ alloc' = None
  /\ socket' = "none"
  /\ nat' = {}
  /\ calls' = [c \in Calls |-> Idle]
  /\ UNCHANGED <<cidr, conf>>

\* The Node object gets its pod CIDR, or is made anew with another one.
Renumber ==
  /\ Upset
  /\ cidr' \in (Cidrs \cup {None}) \ {cidr}
  /\ UNCHANGED <<process, host, calls>>

-----------------------------------------------------------------------------
Progress ==
  \/ Install \/ Start \/ NodeSync \/ WriteCNIConfig \/ NewAllocator
  \/ SetupMasquerade \/ Listen \/ Register \/ Serve
  \/ GracefulStop \/ Return \/ ServeTooLate
  \/ NoPodCIDR \/ AddressInUse \/ Interrupted

Next ==
  \/ Progress
  \/ \E c \in Calls : Dial(c) \/ Accept(c) \/ Respond(c) \/ Expire(c)
  \/ StepFails \/ ServeFails \/ Terminate \/ Kill \/ KillAfterGrace \/ Reboot \/ Renumber

Spec == Init /\ [][Next]_vars

\* The process and the kubelet go on; the goroutine gets to run; the kubelet
\* keeps to its grace period and the shim to its deadline.  Handlers and the
\* runtime promise nothing.
Fairness ==
  /\ WF_vars(Progress)
  /\ WF_vars(Serve)
  /\ WF_vars(KillAfterGrace)
  /\ \A c \in Calls : WF_vars(Expire(c))

FairSpec == Spec /\ Fairness

-----------------------------------------------------------------------------
TypeOK ==
  /\ cidr \in Cidrs \cup {None}
  /\ main \in Steps
  /\ term \in BOOLEAN
  /\ server \in {"none", "spawned", "serving"}
  /\ own \in Cidrs \cup {None}
  /\ alloc \in Cidrs \cup {None}
  /\ socket \in {"none", "open", "stale"}
  /\ conf \in {"none", "installed", "written"}
  /\ nat \subseteq Cidrs
  /\ calls \in [Calls -> [at : {"idle", "queued", "handling"},
                          code : Codes \cup {None}, answered : BOOLEAN]]
  /\ upsets \in 0..MaxUpsets

\* A handler runs only in an agent whose allocator, masquerade rule and
\* configuration are there and are for one and the same pod CIDR, whatever the
\* agents before it left behind (main.go:109-155, network.go:133-135).
HandledByReadyAgent ==
  (\E c \in Calls : calls[c].at = "handling") =>
    own # None /\ alloc = own /\ nat = {own} /\ conf = "written"

\* A shim whose call no handler answered tells the runtime to try again:
\* without an agent, with one that is starting, stopping or killed, or when
\* the deadline passes (README.md:46, main.go:136-140 of the shim).
UnansweredTriesAgain ==
  \A c \in Calls :
    calls[c].code # None /\ ~calls[c].answered => calls[c].code = "TryAgainLater"

\* While the service is there to be called its socket is, whatever agents
\* before this one left; and nobody but a living agent has a listener, so that
\* connect fails at once where there is none (main.go:141-161).
OneListener ==
  /\ main \in {"register", "serving"} => socket = "open"
  /\ socket = "open" =>
       main \in {"register", "serving"} \/ (main = "stopping" /\ server = "spawned")

\* An agent that was serving when it was told to stop takes its socket's file
\* with it, so that the next one can listen; also when a handler hangs and the
\* grace period ends in a kill (main.go:151-161).
CleanStop ==
  [][main = "stopping" /\ server = "serving" /\ main' = "down" => socket' = "none"]_vars

Serving == main = "serving" /\ server = "serving" /\ ~term

\* With a pod CIDR the agent ends up serving for good, or a stale socket file
\* keeps it from ever listening again (main.go:141-144).
ServesOrBarred ==
  <>[](cidr # None) => <>[]Serving \/ <>[](socket = "stale")

\* Every shim comes to its end, also when its handler does not (main.go:55-61
\* of the shim); its call is over, or goes on without it.
CallsEnd ==
  \A c \in Calls : calls[c].at # "idle" ~> calls[c].at = "idle" \/ calls[c].code # None

\* The readiness probe (daemonset.yaml:110): "socket exists means the agent is
\* ready to serve RPCs", at least that somebody listens on it while the
\* container, in which the probe runs, is up.  The code breaks this.
ProbeIsTruthful == main # "down" /\ socket # "none" => socket = "open"
=============================================================================
