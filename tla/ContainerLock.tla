--------------------------- MODULE ContainerLock ---------------------------
(***************************************************************************)
(* What the container access arbitrator of pkg/agent promises: of the RPCs *)
(* for one container at most one is being executed, RPCs for different     *)
(* containers do not wait for each other, and a call for a free container  *)
(* gets in.  Module ContainerAccess implements this one.                   *)
(***************************************************************************)
CONSTANTS Calls,        \* the RPCs of a run, each made once
          Containers,   \* container IDs
          Target        \* the container each call is for

VARIABLE stage          \* how far each call has come

Stages == {"away", "wanting", "inside", "done"}

Init == stage = [c \in Calls |-> "away"]

Move(c, from, to) ==
  /\ stage[c] = from
  /\ stage' = [stage EXCEPT ![c] = to]

Arrive(c) == Move(c, "away", "wanting")

Enter(c) ==
  /\ \A d \in Calls : Target[d] = Target[c] => stage[d] # "inside"
  /\ Move(c, "wanting", "inside")

Leave(c) == Move(c, "inside", "done")

Next == \E c \in Calls : Arrive(c) \/ Enter(c) \/ Leave(c)

Fairness == \A c \in Calls : WF_stage(Enter(c)) /\ WF_stage(Leave(c))

Safety == Init /\ [][Next]_stage
Spec   == Safety /\ Fairness
=============================================================================
