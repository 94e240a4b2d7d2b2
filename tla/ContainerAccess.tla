-------------------------- MODULE ContainerAccess --------------------------
(***************************************************************************)
(* containerAccessArbitrator of pkg/agent: a set of busy container IDs and *)
(* one condition variable for all of them, both under one mutex.           *)
(*                                                                         *)
(* Everything between two releases of the mutex is one step, because busy  *)
(* is only read and written with it held and Wait joins the sleepers       *)
(* before it lets the mutex go.  A call that Broadcast wakes has to take   *)
(* the mutex again, so any other call can come first.                      *)
(***************************************************************************)
EXTENDS Naturals

CONSTANTS Calls,        \* the RPCs of a run, each in a goroutine of its own
          Containers,   \* container IDs
          Target        \* the container ID of each call

ASSUME TargetAssumption == Target \in [Calls -> Containers]

VARIABLES
  pc,      \* where the goroutine of each call is
  busy     \* the container IDs with a key in the map

vars == <<pc, busy>>

Places == {"away", "locking", "asleep", "woken", "inside", "done"}

Init ==
  /\ pc = [c \in Calls |-> "away"]
  /\ busy = {}

\* gRPC starts the handler's goroutine, which calls lock.
Arrive(c) ==
  /\ pc[c] = "away"
  /\ pc' = [pc EXCEPT ![c] = "locking"]
  /\ UNCHANGED busy

AtTest(c) == pc[c] \in {"locking", "woken"}

\* Faulty variant for a mutation run: "if" instead of "for", so that a woken
\* call does not test the map again.
LockWithoutRetest(c) ==
  /\ pc[c] = "woken" \/ (pc[c] = "locking" /\ Target[c] \notin busy)
  /\ pc' = [pc EXCEPT ![c] = "inside"]
  /\ busy' = busy \cup {Target[c]}

\* The test of the loop fails: the call marks its container busy.
Lock(c) ==
  /\ AtTest(c)
  /\ Target[c] \notin busy
  /\ pc' = [pc EXCEPT ![c] = "inside"]
  /\ busy' = busy \cup {Target[c]}

\* The container is busy: Wait.
Sleep(c) ==
  /\ AtTest(c)
  /\ Target[c] \in busy
  /\ pc' = [pc EXCEPT ![c] = "asleep"]
  /\ UNCHANGED busy

Asleep == {c \in Calls : pc[c] = "asleep"}

\* c leaves and wakes the given sleepers.
LeaveAndWake(c, sleepers) ==
  /\ pc[c] = "inside"
  /\ pc' = [d \in Calls |->
              IF d = c THEN "done" ELSE IF d \in sleepers THEN "woken" ELSE pc[d]]
  /\ busy' = busy \ {Target[c]}

\* Faulty variants for the mutation runs: no wake-up; Signal instead of Broadcast.
UnlockSilent(c) == LeaveAndWake(c, {})
UnlockSignal(c) ==
  IF Asleep = {} THEN LeaveAndWake(c, {})
  ELSE \E one \in Asleep : LeaveAndWake(c, {one})

\* unlock: delete the key, Broadcast.
Unlock(c) == LeaveAndWake(c, Asleep)

Next == \E c \in Calls : Arrive(c) \/ Lock(c) \/ Sleep(c) \/ Unlock(c)

\* The runtime schedules every goroutine that can run, sync.Mutex starves
\* nobody, and every handler returns.
Fairness == \A c \in Calls : WF_vars(Lock(c) \/ Sleep(c)) /\ WF_vars(Unlock(c))

Safety == Init /\ [][Next]_vars
Spec   == Safety /\ Fairness

-----------------------------------------------------------------------------
(* Properties                                                              *)

TypeOK ==
  /\ pc \in [Calls -> Places]
  /\ busy \subseteq Containers

\* "At most one in-flight RPC per container ID", however the woken calls and
\* the arriving ones race for the mutex.
MutualExclusion ==
  \A c, d \in Calls :
    pc[c] = "inside" /\ pc[d] = "inside" /\ Target[c] = Target[d] => c = d

\* Every sleeper has somebody to wake it: the one condition variable serves all
\* the containers, and a wake-up spent on a call for another container would
\* leave this one asleep with its container free.
NoLostWakeup == \A c \in Asleep : Target[c] \in busy

\* Not all the calls in the agent are asleep (the run allows the system to
\* stop, which is right only when every call has been executed).
SomebodyIsAwake ==
  (\E c \in Calls : pc[c] \notin {"away", "done"}) =>
    \E c \in Calls : AtTest(c) \/ pc[c] = "inside"

\* The calls that have yet to end, to get in, to arrive, and to test.
Ahead ==
  <<{c \in Calls : pc[c] # "done"}, {c \in Calls : pc[c] \notin {"inside", "done"}},
    {c \in Calls : pc[c] = "away"}, {c \in Calls : AtTest(c)}>>

\* Woken calls cannot wake, test and sleep in turn for ever while their
\* container is busy (server.go:60-62): every step makes one of these sets
\* smaller and leaves those before it as they are, so that any finite number of
\* calls takes finitely many steps.
BargingEnds ==
  [][\E i \in 1..4 :
       /\ Ahead'[i] \subseteq Ahead[i] /\ Ahead'[i] # Ahead[i]
       /\ \A j \in 1..(i - 1) : Ahead'[j] = Ahead[j]]_vars

\* Every call that arrived is executed, however often others overtake it (the
\* runtime makes finitely many calls for a container).
EveryCallServed == \A c \in Calls : (pc[c] = "locking") ~> (pc[c] = "done")

\* The arbitrator implements ContainerLock, its fairness included.
StageOf(place) ==
  CASE place \in {"locking", "asleep", "woken"} -> "wanting"
    [] OTHER -> place
AbstractLock == INSTANCE ContainerLock WITH stage <- [c \in Calls |-> StageOf(pc[c])]
ImplementsLock == AbstractLock!Spec
=============================================================================
