# Verification of PureNet

TLA+ specifications of PureNet, the shim/agent CNI plugin of this repository,
with the TLC configurations that check them on small instances and TLAPS proofs
for all instances.  References of the form `server.go:316` are to files under
`src/pkg`, `src/cmd` and `src/deploy`.

## 1. The system

On every node the container runtime runs the **shim** (`cmd/purenet`) for each
ADD, DEL and CHECK of a pod sandbox.  The shim forwards the call over a Unix
socket to the **agent** (`cmd/agent`), a DaemonSet pod, and waits ten seconds.
The agent answers with the handlers of `pkg/agent`, which use the in-process
address **allocator** (`pkg/ipam`) and the kernel through `pkg/network`.  Beside
them `pkg/nodesync` follows the Kubernetes Node objects and programs the routes
to the other nodes' pod CIDRs.

| Component | State | Operations | Interacts with |
|---|---|---|---|
| allocator, `pkg/ipam/ipam.go` | `allocs`, `used` under one mutex; `allocations.cbor` and its `.tmp` | `New` (`load`), `Add`, `Del`, `Check` (`persist`) | called by the handlers; its file outlives the agent |
| per-container lock, `containerAccessArbitrator` in `server.go:44-71` | `busy` map, one condition variable | `lock`, `unlock` | taken around every handler |
| handlers, `server.go:75-383` | none of their own: one goroutine per RPC | `CmdAdd`, `CmdDel`, `CmdCheck` | lock, allocator, kernel |
| pod network primitives, `pkg/network/network.go` | the kernel's: namespaces, veth pairs, addresses, routes, nftables | `SetupVeth`, `ConfigureInterface`, `SetupHostRoute`, `EnableProxyARP`, `DeleteVeth`, `SetupMasquerade` | called by the handlers and at start-up |
| shim, `cmd/purenet/main.go` | none | `cmdAdd`, `cmdDel`, `cmdCheck`, `rpcError` | runtime, agent |
| agent process, `cmd/agent/main.go` | the socket file, the CNI config file | `run`: node sync, config, allocator, masquerade, listen, serve, graceful stop | starts everything |
| node sync, host-gateway, `pkg/nodesync/hostgw.go` | `routes` map; the kernel's routes | `Run`, `onAdd`, `onUpdate`, `onDelete` | informer events, kernel |
| node sync, VXLAN, `pkg/nodesync/vxlan.go`, `pkg/network/vxlan.go` | `peers` map; device, routes, neighbour and forwarding entries | the same, `SetupVXLAN`, `AddVXLANPeer`, `DelVXLANPeer` | informer events, kernel |
| gRPC contract, `pkg/cni` | none | stubs, JSON codec, `ErrorResponse`, `AsError` | shim, agent |
| configuration, `pkg/config` | none | `LoadConf` | handlers |
| deployment, `deploy/`, `hack/install.sh` | the installed files | copy the shim, write a first config | agent's start-up |

What is hard in this code, and what each component must get right:

- **Allocator.**  Memory is changed before the file is written, so a failed
  write has to be undone; the process can die between any two of: change,
  temporary file, rename, answer; a restart can come with another pod CIDR.
  Correct means: an answered `Add` is on disk, no address has two holders, the
  two maps agree, a holder asked again gets the same address.
- **Lock.**  One condition variable for all containers, with arriving calls
  racing against woken ones.  Correct means: one call per container, no call
  asleep while its container is free, every call is served.
- **Handlers.**  They ignore their context, so the runtime retries or deletes
  while an abandoned handler still works; they undo nothing when they fail;
  `cmdDel` frees the address before it deletes the veth; agent crashes and node
  reboots come at any step.  Correct means: no two pods with one address, an
  answered pod stays wired, nothing of a deleted pod stays.
- **Node sync.**  No resync and no retry; an existing route counts as
  success; the maps are lost with the process while the kernel's routes stay;
  a peer is three kernel objects written one after the other; notifications of
  different nodes overtake each other while a pod CIDR passes between them.
  In VXLAN mode Node objects also change while nobody is told yet.
  Correct means: a notification about one node spoils no other node's path, and
  once events stop the kernel has the path of every known node and no other,
  except for pod CIDRs with which something went wrong.
- **Agent process and shim.**  Order of the start-up steps; a stop that comes in
  the middle of them; a socket file left behind; shims that call an agent that
  is not there, not ready or about to go.  Correct means: only an agent that is
  set up handles calls, what announces readiness is true, a shim without an
  answer is told to try again, and a crashed agent comes back.

`PROJECT.json` lists these as hazards, each at its line, with the properties
that would notice them going wrong, or with the reason why none would.

## 2. The modules

```
 PodCidr ── AddressPool ◄───refines─── Ipam
    │            ▲                      (MCIpam, IpamProofs)
    │            │ used by
 NodeKernel ── CmdServer                (MCCmdServer, CmdServerProofs)
                 ┊ its guard of Enter is the abstract lock
 ContainerLock ◄──refines── ContainerAccess
                                        (MCContainerAccess, ContainerAccessProofs)

 NodeWatch ──┬── HostGateway ──refines──┐  (MCHostGateway, HostGatewayProofs)
             └── VxlanPeers ──refines───┴──► Forwarding
                                           (MCVxlanPeers, VxlanPeersProofs)
 AgentLifecycle                            (MCAgentLifecycle, AgentLifecycleProofs)
   ┊ its steps NodeSync, NewAllocator and "handling" are the modules above
```

Every module keeps the source's names where it can.  Operators whose comment
calls them a *faulty variant* belong to no next-state relation; they are
plausible mistakes that the mutation runs of `PROJECT.json` put in the place of
the real definition to show that each property can fail.

### `PodCidr`, `AddressPool`, `Ipam`

An IPv4 address is the number `ipToUint32` makes of it.  `PodCidr` has the
subnet arithmetic: `HostRange` is the scan of `nextFreeIP` (offset 2 up to but
not including size-1), `IsNextFree` its result, `Gateway` is `firstHostIP` with
the wrap of its last octet, `Reserved` the addresses the scan leaves out.

`AddressPool` is what callers may rely on: `Allocate` gives a container without
an address some free host address, `Release` takes it back, `Reassign` changes
the pod CIDR and lets the addresses outside it lie dormant.  That such a pool
never has an address twice is a theorem about it, `PoolIsExclusive`, in the
module itself; whatever is shown to implement `AddressPool` inherits it.

`Ipam` is the code.  `allocs`, `used`, `cidr` are the fields of `Allocator`,
`file` and `tmp` the two files (`Torn` is contents that do not decode), and
`section` is the `Add` or `Del` that holds the mutex, with its progress through
`persist`.  The mutex makes everything between two file operations one step:

| Code | Action |
|---|---|
| `Add`, allocation found (`ipam.go:71`) | `AddExisting` |
| `Add`, address chosen and both maps changed | `AddFresh` |
| `Del`, both maps changed | `DelHeld` |
| `persist`: `os.WriteFile`, or its error and the roll-back | `WriteTmp`, `WriteTmpFails` |
| `persist`: `os.Rename`, or its error, `os.Remove` and the roll-back | `RenameTmp`, `RenameFails` |
| unlock and return | `Return` |
| process death; `New` and `load` | `Crash`, `Start(n)` |

`Add` on a full pool, `Del` of an unknown container, `Check`, `Gateway` and
`Subnet` change nothing and have no action.  Two history variables serve the
properties only: `granted` is the address a container was told, as long as the
pod CIDR covers it; `told` is the same for as long as the container is not
deleted.

### `ContainerLock`, `ContainerAccess`

`ContainerLock` is a fair lock per container: *wanting*, *inside*, *done*.
`ContainerAccess` is the arbitrator: `busy`, and for each call where its
goroutine is (*locking*, *asleep* in `Wait`, *woken*, *inside*).  What happens
between two releases of the mutex is one step: `Lock` is the loop's test
failing and the assignment, `Sleep` is `Wait` joining the sleepers as it lets
go of the mutex, `Unlock` is `delete` and `Broadcast`.  A woken call tests
again and any arriving call can be first.

### `NodeKernel`, `CmdServer`

`NodeKernel` is the part of Linux the handlers work on, external code modelled
from how it is used: per container a namespace path, a veth pair in one of five
stages, an address and a default route, and the host's /32 routes as a function
of the address.  `LinkAdd` and `RouteAdd` refuse what exists; deleting a veth,
or destroying the namespace, takes the address and the routes along.

`CmdServer` composes the handlers, the shim and the runtime over that kernel.
`handlers[h]` is one RPC: its operation and container, the step it is at, the
address `alloc.Add` gave it, and whether a shim still waits.  Each statement of
`cmdAdd`, `cmdDel` and `cmdCheck` that changes or reads shared state is an
action (`AddOpen` ... `AddConvert`, `DelRelease` ... `DelVeth`, `CheckLookup`
... `CheckPasses`); `StepFails` is the error return that every one of them has.
`phase[c]` is how far the runtime is with container `c`; the runtime makes one
call at a time, retries a failed ADD or deletes, repeats DEL until it succeeds
and then removes the namespace.  `GiveUp` is the shim's time-out: the handler
goes on.  `Crash` makes all handlers vanish; `Reboot` also empties the kernel;
`held`, the allocator, survives both because it stands for the state file.

Three simplifications, each with its reason:

- The lock is `ContainerLock`'s: `Enter` lets any waiting call into a free
  container.  `ContainerAccess` implements that.
- The allocator is `AddressPool`'s with the choice of the next free address.
  `Ipam` implements that; its failures are `StepFails` at the steps *ipam* and
  *release*.  A write that succeeds in an agent that dies before the answer is
  the step followed by `Crash`.
- Host interface names derived from different container IDs are different.

### `NodeWatch`, `Forwarding`, `HostGateway`, `VxlanPeers`

`NodeWatch` is the half that both backends share.  `objects` are the Node
objects at the API server, reduced to what the handlers read, a pod CIDR and an
InternalIP (`Peer`: `internalIP` and the tests at the head of each handler).
`store` is the informer's store and `told` the version of each node last handed
to a handler, which is the *old* of its next update.  `phase` and `own` are
`Run` and its result.

client-go is external and modelled from how it is used: `Watch(n)` moves the
store to the newest version of a node, which may skip versions as a re-list
does, a deletion and re-creation included (it then arrives as an update);
`Notify(n)` calls the handler with `told[n]` and `store[n]`.  Notifications of
one node come in order and each begins where the last one ended; those of
different nodes come in any order, since the informer's queue keeps one key per
node.  The listener's queue only delays, so with handlers registered one pending
version per node is kept (`Observe` waits for `told[n] = store[n]`).

Host-gateway mode registers its handlers before it starts the informer
(`hostgw.go:50-79`).  VXLAN mode starts the informer first (`vxlan.go:58-63`) and
registers them after the sync and `SetupVXLAN` (`vxlan.go:94`): in between its
`Observe` lets the store move freely, deletions and re-creations included, and
nobody is told.  `AddEventHandler` then announces what the store holds at that
moment as additions, and nothing else.

| Code | `HostGateway` | `VxlanPeers` |
|---|---|---|
| `Run` up to the cache sync | `Run` | `Run` |
| `Run` after it: own pod CIDR found | `Synced` | `Ready`, with `SetupVXLAN` |
| no own node or no pod CIDR: the agent exits | `GiveUp` | `GiveUp` |
| `SetupVXLAN` fails after any of its calls | | `SetupFails` |
| `onAdd`, `onUpdate`, `onDelete` | the same | the same |
| the agent dies | `Die` | `Die` |
| the node reboots: kernel and device empty | `Reboot` | `Reboot` |

Host-gateway handlers run from the start of the informer, VXLAN handlers once
`Run` has registered them.  A handler runs under the mutex, one at a time, and
is one step; each netlink call in it may fail.  An agent that dies inside a
handler is the handler with its remaining calls failing, followed by `Die`.

`kernel` in `HostGateway` is a gateway per pod CIDR; `addRoute` takes EEXIST for
success and `delRoute` needs the gateway to match.  In `VxlanPeers` it is the
set of routes, the set of neighbour entries and the forwarding entry per pod
CIDR; `AddVXLANPeer` and `DelVXLANPeer` come as far as the first `done` of
their calls.  VTEP address and MAC are functions of the pod CIDR and are named
by it.  `dev` is `purenet-gw`: made, MAC, addresses, up.  `Refused` is Linux
refusing a gateway that is an address of its own, which the VTEP addresses left
by earlier pod CIDRs are (`network/vxlan.go:75`).

`Forwarding` is the promise: `view` says which pod CIDR and address each node
has, `path` where traffic goes, and an `Update` of one node leaves all paths
but those to its old and new pod CIDR as they are.  The promise cannot be kept
for every pod CIDR all the time, so it names the ones it is suspended for:
`suspect`.  A pod CIDR becomes suspect in exactly three ways: a netlink call
about it fails or is refused; two nodes claim it in the handlers' view (the
notification that takes it from one was overtaken); or its node changed while no
handler was there to be told, in a way that the additions which follow do not
show.  The last one is `Lost(Missed)`, when handlers meet the store: at `Run` in
host-gateway mode, at `Ready` in VXLAN mode, so that what the window between
`Run` and `AddEventHandler` hides is missed like what happened without an agent.
A pod CIDR is suspect until it is set up afresh for one node; a reboot, which
clears the kernel, ends it too (`Forget` of `Forwarding`).  Neither code reads
`view` or `suspect`; they are history.
`PromiseKept`, in the module itself, is the promise as an invariant.

### `AgentLifecycle`

`main` is the step of `run()` that comes next, `server` the goroutine of
`srv.Serve`, `term` says that SIGTERM has come.  What outlives the process is
`socket` (a file with a listener, a stale file, or none), `conf` and `nat`, the
pod CIDRs the nftables chain has a rule for.

| Code | Action |
|---|---|
| `install.sh`: write the configuration if there is none | `Install` |
| `syncer.Run`, `WriteCNIConfig`, `ipam.New`, `SetupMasquerade`, `net.Listen`, register and `go` | `NodeSync`, `WriteCNIConfig`, `NewAllocator`, `SetupMasquerade`, `Listen`, `Register` |
| an error return of any of these | `NoPodCIDR`, `AddressInUse`, `Interrupted`, `StepFails` |
| the goroutine enters `srv.Serve`; it does so too late; it fails | `Serve`, `ServeTooLate`, `ServeFails` |
| `<-ctx.Done()` and `GracefulStop`; `run` returns | `GracefulStop`, `Return` |
| signals | `Terminate`, `Kill`, `KillAfterGrace` |

A listener's file disappears when the listener is closed: by `GracefulStop` if
`Serve` has told the server of it, and by a `Serve` that comes too late.  When
the process just ends it stays.

`calls[c]` is a shim: `Dial` connects or is refused, `Accept` finds the handler
(or none, if the service were not registered), `Respond` is the answer, and
`Expire` the ten seconds.  `code` is what the runtime is told, through
`rpcError` or `AsError`.  What a handler does is `CmdServer`'s business, what
`NodeSync` and `NewAllocator` do is that of the modules above.

## 3. Runs

| Run | Instance | What it shows |
|---|---|---|
| `ipam` | 3 containers; a /29 (five host addresses), a /30 inside it and one outside (one each) and a /32 (none) | `ConsistentWithDisk`, `GrantDurable`, `NoDoubleGrant`; `NeverReserved`: a reserved address comes from an overlapping pod CIDR or not at all; `GatewayIsNext`: the gateway of a pod with a host address is inside its pod CIDR; `ExhaustedOnlyIfFull`: no free address is lost to the scan; `StableGrant`: no step gives a holder another address; `ImplementsPool`: refinement of `AddressPool` |
| `ipam_reassign` | 2 containers, two /30s | *violated*: `NoDoubleTold` |
| `access` | 5 calls, three for one container and two for another | `MutualExclusion`, `NoLostWakeup`, `EveryCallServed`, `ImplementsLock` with fairness |
| `server` | 2 containers, 3 handlers, a /29 | `UniqueAddress`, `RunningPodsConnected`, `NoLeakUnlessOvertaken`, `AnswerIsTrue`; `GoneForGood`: what is gone stays gone |
| `server_live` | 1 container, 3 handlers, a /30 | `NothingStays` |
| `server_late` | 1 container, 2 handlers, a /30 | *violated*: `NoLeak` |
| `host_gateway` | 3 nodes, 2 pod CIDRs, 2 addresses, 3 upsets | `MapIsCurrent`, `MapOwnsRoutes`, `SettledIsRight`; `RoutesFollowNodes`: refinement of `Forwarding`; `RoutesConverge` |
| `host_gateway_stale` | 2 nodes, no failing call, 2 upsets | *violated*: `CurrentlyProgrammed` |
| `vxlan_peers` | as `host_gateway` | `WholePeers`, `MapOwnsPeers`, `DeviceReady`, `SettledIsRight`; `PathsFollowNodes`: refinement of `Forwarding`; `PathsConverge` |
| `vxlan_peers_leak` | as `host_gateway`, no failing call | *violated*: `BestEffortDelete` |
| `agent` | 2 pod CIDRs, 2 shims, 4 upsets | `HandledByReadyAgent`, `UnansweredTriesAgain`, `OneListener`; `CleanStop`; `ServesOrBarred`, `CallsEnd` |
| `agent_stale` | 1 pod CIDR, 1 shim, 2 upsets | *violated*: `ProbeIsTruthful` |

Each passing safety run also checks its module's `TypeOK`.

**Why these bounds are enough.**  `ipam`: two of the containers compete for an
address and the third exhausts a /30; a node is given a smaller pod CIDR and
its old one back; the network address and the gateway of the inner /30 are host
addresses of the /29, so that `load` restores reserved addresses; the /32, whose
gateway wraps, never has an address to give.  The mutex allows one call at a
time, so more callers add nothing.  `access`: two sleepers of one container and one of another are what a
lost or misdirected wake-up needs.  `server`: an address passes from one pod to
another while the first is being deleted, and the third handler is an abandoned
call of either.  With one address (`server_live`, `server_late`) nothing about
addresses is at stake, so one container with its abandoned ADD, its DEL, and a
third call is all there is.  `MaxUpsets` bounds, in the modules that have it,
everything the code has no hold on: changes of Node objects, crashes, failing
calls, signals, reboots; all else is unbounded.  `host_gateway`, `vxlan_peers`:
three upsets take a pod CIDR from one node, give it to another and let a call
fail or the agent die in between, or program a peer, die, and have the peer
deleted in the window before the handlers are registered; the own node's pod
CIDR is one of the two, so that it, too, can pass to a peer.  `agent`: four upsets are two stops or deaths
and two more while the next agent starts, with another pod CIDR.  The proofs
below remove the bounds for safety.

The identities of containers and handlers are interchangeable, so the safety
runs of `Ipam` and `CmdServer` use symmetry; liveness is checked without.

**Fairness.**  `ContainerAccess`: a goroutine that can run does, `sync.Mutex`
starves nobody (a waiter gets the mutex after a millisecond), and handlers
return; the runtime makes finitely many calls for one container, which is what
ends the barging at `server.go:60`.  `CmdServer`: handlers take their steps or
fail (netlink and file operations return), and the kernel destroys unreferenced
namespaces.  The runtime, the shim's time-out, crashes and restarts are not
fair: nothing is assumed to happen.  `HostGateway` and `VxlanPeers`: the kubelet
restarts the agent (`restartPolicy: Always` of a DaemonSet), `Run` comes to its
result, the informer catches up with the API server and its listener calls the
handlers; changes, failures and crashes are not fair, and come to rest because
they are bounded.  `AgentLifecycle`: the process and the kubelet go on
(`Progress`), the goroutine gets to run, the kubelet keeps to its grace period
(`KillAfterGrace`) and the shim's context to its deadline.  Handlers and the
runtime promise nothing there: `CallsEnd` and `ServesOrBarred` hold with a
handler that hangs for ever.

**What the violated runs say.**

- `ipam_reassign`.  `load` skips the entries outside the current pod CIDR
  (`ipam.go:207`) and the next `persist` writes only what is in memory.  A node
  that gets another pod CIDR, allocates once, and gets its first pod CIDR back
  has forgotten addresses that running pods still have, and gives them out
  again.  Kubernetes changes a node's pod CIDR only when the Node object is
  deleted and created again, so this needs that twice.
- `server_late`.  The lock keeps calls for one container apart but does not
  order them, and handlers ignore their context.  An ADD that waits (behind an
  earlier call that hangs) until its shim gives up can get in after the DEL of
  its container; if the namespace is still mounted it runs up to `alloc.Add` and the
  address it records is released by nobody.  `NoLeakUnlessOvertaken`, which
  holds, says that this is the only way an address is lost.
- `host_gateway_stale`.  A peer gets another InternalIP while the agent is down.
  The new agent's `addRoute` meets the old route, takes EEXIST for success and
  enters the new address in the map (`hostgw.go:201-204`): what the map calls
  the "currently-programmed route" (`hostgw.go:31`) is not in the kernel, and a
  later `delRoute` with the new gateway removes nothing.  VXLAN mode does not
  have this fault, since its gateway depends on the pod CIDR only and the other
  two objects are upserts; its `Missed` is accordingly smaller.
- `vxlan_peers_leak`.  "ENOENT is treated as success" (`network/vxlan.go:146`),
  but `isENOENTErr` compares with the text of ESRCH.  That is right for routes;
  for a neighbour entry that is not there the kernel answers ENOENT, and
  `DelVXLANPeer` ends before it deletes the forwarding entry.  No call has to fail
  for other reasons: when two notifications about one pod CIDR overtake each
  other, the first deletion takes the neighbour entry from the second.
- `agent_stale`.  "socket exists means the agent is ready to serve RPCs"
  (`daemonset.yaml:110`), but a killed agent leaves the file on the host, and
  `run` does not remove one it finds: the next container is announced ready for
  as long as it lives and then fails in `net.Listen`.  `ServesOrBarred`, which
  holds, says that this is also the only thing that keeps an agent with a pod
  CIDR from serving in the end; and `CleanStop` that a stop of a serving agent
  does not cause it.  A stop that comes before the goroutine has entered `Serve`
  can (`main.go:151-159`).

One more disagreement has no run, since no property of the kernel's state breaks
on it: the comment on `SetupVXLAN` (`network/vxlan.go:41-42`) says that with an
interface that exists "only the address assignment is re-attempted".  The code
also sets the MAC again and brings the link up (`network/vxlan.go:65-67`, `78-80`),
and it has to: after a restart with another pod CIDR, or a setup that ended
between two calls, `DeviceReady` holds because of it and fails without.  The
comment is wrong, the code is right.

Deadlock is checked everywhere except in `access`, which ends when all calls
have been executed, and in the node-sync runs, which end when everything is
told and the upsets are used up.

## 4. Proofs

All theorems hold for any sets of containers, calls, handlers, nodes and
addresses and any pod CIDRs, under these assumptions, named in the modules:
`IsCidr` (a pod CIDR has size 1 or an even size, is aligned on it and lies within
32 bits), `None` and `Torn` are values of their own, `Target` maps calls to
containers, `Self` is a node, `Initial` are assignments of objects to nodes,
`MaxUpsets` is a natural number (any: the theorems have no bound on changes and
failures but a finite one).

| Module | Theorem | Statement |
|---|---|---|
| `AddressPool` | `PoolIsExclusive` | no address of an abstract pool has two holders |
| `Forwarding` | `PromiseKept` | the abstract promise of node sync holds in every state |
| `IpamProofs` | `TypeCorrect`, `MemoryMatchesDisk`, `AnsweredAddsSurvive`, `NoDoubleAllocation` | invariants of run `ipam` |
| | `MapsAreInverse`, `RestartDecodes` | `Inverse` and `DiskReadable` also while a call holds the mutex or the agent is down |
| | `AnswersAreStable` | the action property `StableGrant` |
| | `ReservedNeverGiven`, `GatewayFollows`, `FreeIsFound` | `NeverReserved`, `GatewayIsNext` and `ExhaustedOnlyIfFull` |
| | `Refinement` | `Spec => ImplementsPool` |
| | `HoldersAreExclusive` | `PoolIsExclusive`, for the state file |
| `ContainerAccessProofs` | `OneCallPerContainer`, `SleepersHaveAHolder`, `LockRefinement` | the safety part of run `access` |
| | `NotAllAsleep`, `NoEndlessBarging` | `SomebodyIsAwake` and `BargingEnds`, what progress rests on |
| `CmdServerProofs` | `TypeCorrect`, `AddressesUnique`, `PodsStayConnected`, `NothingLeaks`, `AnswersAreTrue` | the invariants of run `server` |
| | `GoneStaysGone` | the action property `GoneForGood` |
| | `PoolUsed` | `Spec => PoolUse`: what handlers, crashes and restarts do to the allocator is a behaviour of `AddressPool` |
| | `HeldIsExclusive` | `PoolIsExclusive`, for the allocator in the server |
| `HostGatewayProofs` | `TypeCorrect`, `CurrentMap`, `OwningMap`, `SettledRight` | the invariants of run `host_gateway` |
| | `Implements` | `Spec => RoutesFollowNodes`: the refinement of `Forwarding` |
| | `RoutesKept` | `PromiseKept`, for the routes |
| `VxlanPeersProofs` | `TypeCorrect`, `PeersWhole`, `OwningMap`, `ReadyDevice`, `SettledRight` | the invariants of run `vxlan_peers` |
| | `Implements` | `Spec => PathsFollowNodes`: the refinement of `Forwarding` |
| | `PathsKept` | `PromiseKept`, for the paths |
| `AgentLifecycleProofs` | `TypeCorrect`, `OnlyReadyAgentsHandle`, `ShimsTryAgain`, `ListensAlone` | the invariants of run `agent` |
| | `StopsCleanly` | the action property `CleanStop` |

**`Ipam`.**  None of the invariants is inductive alone: whether memory and file
agree depends on how far the call in progress is.  `IpamProofs!IInv` adds
`SectionInv`: before the rename of an `Add` the file lacks exactly its entry,
before the rename of a `Del` it has exactly one too many, afterwards they are
equal; the temporary file at step *rename* is complete.  From it a crash at any
step leaves a file that `load` turns into the state before or after the call,
never anything else; that is also why the refinement's `held`, read off the
file, moves only at the rename.  What is reserved needs a second invariant,
`HostInv`: every entry, in memory, in the file or about to be undone, is a host
address of some pod CIDR, if not of the one in force.  The scan makes it so, and
nothing else makes entries; it needs no assumption on how pod CIDRs overlap.  A
reserved address of the one in force is none of its host addresses
(`ReservedNotHost`), so it is one of another's.  A pod CIDR that has a host
address has size 4 at least; its base is then even, the last octet is not 255, and
adding one to it does not wrap (`GatewayIsNext`).  That the scan finds an address
if the file leaves one free (`ExhaustedOnlyIfFull`) is that, between two calls,
`used` and the file agree on the pod CIDR (`DiskInv`), and that a non-empty set of
addresses of an interval has a least one (`LeastOfInterval`).  The latter is
induction over data, which the provers cannot do; it follows instead from the
library's theorem that the strict subsets of a finite set are well-founded,
applied to the sets of addresses below a member.

**`ContainerAccess`.**  `busy` holds exactly the containers of the calls inside.
With it `Lock` cannot let in a second call, and an `Unlock`, the only step that
frees a container, leaves nobody asleep.  `AbstractStep` says which step of
`ContainerLock` each step is, and `LockRefinement` follows.  That every call is served depends on
fairness and is checked, not proved; what is proved are the two facts it rests
on, `SomebodyIsAwake` (there is always a call that can go on) and `BargingEnds`
(each step makes smaller one of four sets of calls and leaves those before it as
they are, so that finitely many calls have finitely many steps).

**`CmdServer`.**  `CmdServerProofs!IInv` follows an ADD through its steps
(`AddInv`: the veth is in the stage this step needs, the route is to this
container, the address is set), which is stable because `LockInv` keeps other
calls for the container out and the open namespace keeps the kernel away.
`RouteInv`, an address is configured only on the container that its host route
leads to, makes addresses unique: a route has one target.  For pods to stay
connected the runtime must not take a pod for running while an ADD works on it
(`HeardInv`: it waits for at most one call, and its phase says which).
`ReleaseInv` is the leak argument: while a DEL is inside, and once it has
succeeded, no handler for an ADD of that container exists, neither inside (the
lock) nor waiting (else the DEL overtook it); so the release is final.
`GoneForGood` compares two states and so is proved step by step, from `IInv` and
`RemovedInv`: the namespace of a container that is *removed* has no path, so that
no handler which enters later can open it, and one that does not have it open
changes nothing of the container (`StepGone`); nor do the runtime and the kernel
(`OutsideGone`).  An overtaken ADD that has the namespace open is the reason
for the last condition of `Gone`.

**`HostGateway` and `VxlanPeers`.**  That a deletion removes the right path
needs more than the map: `IInv` adds that the history agrees with what the
handlers were told, and that a node not told of since `Run` is still the peer it
was (`HistoryInv`; this is what `Lost` drops the missed nodes for), that a pod
CIDR which is not suspect has one claimant at most and its path (`ClaimInv`), and
that the map has the peer of every node told of whose pod CIDR is not suspect
(`EntryInv`).  With `ClaimInv` alone a route found by an `onAdd` that meets EEXIST
is known to be the right one, or the pod CIDR is suspect.  The three handlers are
reduced to one lemma each with the same conclusion (`Effect`: what changes for
the node's own pod CIDRs, and that nothing else does); that `Effect` keeps `IInv`
and is an `Update` of `Forwarding` is then proved once.  `VxlanPeers` needs
`WholePeers` beside `ClaimInv`, since a path alone does not say that no half of a
peer is left, and its `HistoryInv` begins when handlers are registered: before
that store and history drift apart (`StoreIInv`), and `Ready` brings them
together.  The first half of `SettledIsRight` follows from the same invariant:
when nothing is left to be told, `HistoryInv` makes the history what the Node
objects say (`SettledView`), and `ClaimInv` turns that into paths.  It exempts the
suspect pod CIDRs, so it would be empty if all were; the second half says that
none is in a calm cluster.  For it `CalmInv` says that as long as there was no
change, failure or crash the store is what the objects are, a node has been told of or not yet, and
nobody contests a pod CIDR; hence only `onAdd` can run and it blames nobody.

**`AgentLifecycle`.**  `IInv` adds to the types what each step of `run()` can
count on (`BootInv`: after *sync* there is a pod CIDR, after *config* the file is
written, after *ipam* the allocator is for that pod CIDR, after *nat* the chain
has its rule and no other), that the goroutine exists only from `Register` on,
that a stopped server has closed its listener, and, for each shim, that it is
handled only by a serving server and answered only at its end.  The last one
gives `UnansweredTriesAgain`: a code other than `TryAgainLater` comes from a
handler or from a server whose service is not registered, and the order of
`RegisterCNIBackendServer` and `go` (`main.go:147-151`) excludes the latter.
`OneListener` needs one more fact (`ListenInv`): the goroutine is there as long as
`main` is at *serving* or *stopping*, so that a stop either finds a serving
goroutine and closes the listener or leaves one that is still to enter `Serve`.

**What is inherited.**  `HoldersAreExclusive`, `HeldIsExclusive`, `RoutesKept`
and `PathsKept` combine a refinement with the abstract module's own theorem, by
instantiation: nothing about files, handlers or informers is argued again.

**Only proved**, in no run's list: `Inverse` and `SomebodyIsAwake`, which on a run's
instance follow from `ConsistentWithDisk` (while the mutex is free) and from
`NoLostWakeup`; `DiskReadable`, `BargingEnds` and `PoolUse`; and what is inherited.

**Only model-checked:** everything under fairness (`EveryCallServed`,
`NothingStays`, the fairness half of `ImplementsLock`, `RoutesConverge`,
`PathsConverge`, `ServesOrBarred`, `CallsEnd`), which the proof system cannot
do, and the five violated properties.  The safety halves of some of these are
proved: of the first `SomebodyIsAwake` and `BargingEnds`, of `RoutesConverge` and
`PathsConverge` the two `SettledRight`, of the refinement of `ContainerLock` all
but fairness.

## 5. Limits

The properties of node sync say nothing of a suspect pod CIDR, and these faults
of the code are of that kind; the models have the behaviour, no property calls it
wrong:

- A pod CIDR that passes from one node to another while the two notifications
  overtake each other: the late deletion can take away the new node's route
  (`hostgw.go:157`), and nothing puts it back until that Node object changes.
- A peer that goes while no handler is registered, because there was no agent or
  in VXLAN mode's window (`vxlan.go:58-94`): its route and entries stay until the
  pod CIDR is set up for another node or the node reboots.
- A route refused because of a VTEP address that an earlier pod CIDR left
  (`network/vxlan.go:75`): it is not tried again before that Node object changes.

Others that no property catches: an agent that is told to stop before its
goroutine has entered `srv.Serve` leaves the socket file (`main.go:151`), which
`CleanStop` does not cover and `ServesOrBarred` allows for; a restart with an
overlapping pod CIDR keeps an entry that is reserved there (`ipam.go:207`), which
`NeverReserved` names as the one exception; and CHECK accepts any address of the
interface (`server.go:369`).

## 6. Not modelled

- **Power failure.**  The model's crash is of the process or an orderly reboot;
  what the kernel has been told to write is there.  `persist` does not call
  fsync, so after a power failure the file may be empty.
- **Hash collisions** of `generateHostVethName` (44 bits of SHA-1).
- **The composition in one state space.**  `AgentLifecycle`, `CmdServer`, `Ipam`
  and the node sync are composed by their interfaces (the abstract lock, the
  abstract pool, the steps *sync* and *ipam*), not by one product of all their
  states.  `CmdServer`'s `Start` and `Crash` are `AgentLifecycle`'s way from *down* to
  *serving* and back.
- **Two agents at once.**  The DaemonSet's update replaces a pod only after the
  old one has ended; the models have one agent per node.
- **Unparsable pod CIDRs and addresses.**  The API server validates them, so the
  parse errors of `addRoute`, `addPeer` and their counterparts cannot occur.
- **Dual-stack and IPv6** nodes: only the IPv4 forms are modelled.
- **Switching `--mode`.**  Each mode is checked with its own kernel; routes that a
  mode left to the other are not.
- **What the masquerade rule does to packets.**  `README.md:244` of the repository
  lists preserving source addresses end to end; the rule (`network.go:163-170`)
  rewrites the source of everything that leaves the node's pod CIDR, pods on
  other nodes included.  There is no packet in any model, so this is only noted.
- **What the runtime does with error codes.**  `AsError` makes text of the code of
  a failed response (`rpc.go:222`), so that the runtime sees 999 for all of them;
  `AgentLifecycle` models that, and no property depends on the code.
- `AddDefaultRoute` of `pkg/network` (no caller), the stubs and the codec of
  `pkg/cni` (no state), `pkg/config` (parsing, and one default value), flags,
  environment and logging of the two commands, the manifests' other fields.

## 7. What could come next

- The handlers' informer with a listener queue of several versions, should a
  handler ever read the store instead of its arguments.
- A power failure in `Ipam`: the temporary file may be lost or torn after its
  rename.  `DiskReadable` and `GrantDurable` are expected to fail then.
- Two agents during a forced deletion of the pod (both believe to own the state
  file and the routes).
