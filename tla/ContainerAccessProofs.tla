----------------------- MODULE ContainerAccessProofs -----------------------
(***************************************************************************)
(* Proofs about ContainerAccess for any calls and containers.              *)
(***************************************************************************)
EXTENDS ContainerAccess, TLAPS

\* A container is busy exactly while one of its calls is inside.
BusyIsHeld ==
  /\ \A c \in Calls : pc[c] = "inside" => Target[c] \in busy
  /\ \A k \in busy : \E c \in Calls : pc[c] = "inside" /\ Target[c] = k

IInv == TypeOK /\ BusyIsHeld /\ MutualExclusion /\ NoLostWakeup

LEMMA InitIInv ==
  ASSUME Init
  PROVE  IInv
BY DEF Init, IInv, TypeOK, Places, BusyIsHeld, MutualExclusion, NoLostWakeup, Asleep

LEMMA ArriveIInv ==
  ASSUME IInv, NEW c \in Calls, Arrive(c)
  PROVE  IInv'
BY DEF Arrive, IInv, TypeOK, Places, BusyIsHeld, MutualExclusion, NoLostWakeup, Asleep

LEMMA LockIInv ==
  ASSUME IInv, NEW c \in Calls, Lock(c)
  PROVE  IInv'
<1> USE DEF IInv, Lock, AtTest
<1>1. TypeOK'
  BY TargetAssumption DEF TypeOK, Places
<1>2. BusyIsHeld'
  <2>1. \A d \in Calls : pc'[d] = "inside" => Target[d] \in busy'
    BY DEF TypeOK, BusyIsHeld
  <2>2. ASSUME NEW k \in busy'
        PROVE  \E d \in Calls : pc'[d] = "inside" /\ Target[d] = k
    <3>1. CASE k = Target[c]
      BY <3>1 DEF TypeOK
    <3>2. CASE k \in busy
      <4>1. PICK d \in Calls : pc[d] = "inside" /\ Target[d] = k
        BY <3>2 DEF BusyIsHeld
      <4>2. pc'[d] = "inside"
        BY <4>1 DEF TypeOK
      <4>3. QED
        BY <4>1, <4>2
    <3>3. QED
      BY <3>1, <3>2
  <2>3. QED
    BY <2>1, <2>2 DEF BusyIsHeld
<1>3. MutualExclusion'
  BY DEF TypeOK, BusyIsHeld, MutualExclusion
<1>4. NoLostWakeup'
  BY DEF TypeOK, NoLostWakeup, Asleep
<1>5. QED
  BY <1>1, <1>2, <1>3, <1>4

LEMMA SleepIInv ==
  ASSUME IInv, NEW c \in Calls, Sleep(c)
  PROVE  IInv'
BY DEF Sleep, AtTest, IInv, TypeOK, Places, BusyIsHeld, MutualExclusion,
       NoLostWakeup, Asleep

LEMMA UnlockIInv ==
  ASSUME IInv, NEW c \in Calls, Unlock(c)
  PROVE  IInv'
<1> USE DEF IInv, Unlock, LeaveAndWake, Asleep
<1>1. TypeOK'
  BY DEF TypeOK, Places
<1>2. \A d \in Calls : pc'[d] = "inside" <=> pc[d] = "inside" /\ d # c
  BY DEF TypeOK
<1>3. MutualExclusion'
  BY <1>2 DEF MutualExclusion
<1>4. BusyIsHeld'
  <2>1. \A d \in Calls : pc'[d] = "inside" => Target[d] \in busy'
    BY <1>2 DEF MutualExclusion, BusyIsHeld
  <2>2. \A k \in busy' : \E d \in Calls : pc'[d] = "inside" /\ Target[d] = k
    BY <1>2 DEF BusyIsHeld
  <2>3. QED
    BY <2>1, <2>2 DEF BusyIsHeld
<1>5. NoLostWakeup'
  BY DEF TypeOK, NoLostWakeup
<1>6. QED
  BY <1>1, <1>3, <1>4, <1>5

LEMMA StepIInv ==
  ASSUME IInv, [Next]_vars
  PROVE  IInv'
<1>1. CASE UNCHANGED vars
  BY <1>1 DEF vars, IInv, TypeOK, BusyIsHeld, MutualExclusion, NoLostWakeup, Asleep
<1>2. QED
  BY <1>1, ArriveIInv, LockIInv, SleepIInv, UnlockIInv DEF Next

\* The inductive invariant holds in every reachable state.
THEOREM Invariance == Safety => []IInv
<1>1. Init => IInv
  BY InitIInv
<1>2. IInv /\ [Next]_vars => IInv'
  BY StepIInv
<1>3. QED
  BY <1>1, <1>2, PTL DEF Safety

\* At most one RPC per container ID is in flight.
THEOREM OneCallPerContainer == Safety => []MutualExclusion
<1>1. IInv => MutualExclusion
  BY DEF IInv
<1>2. QED
  BY <1>1, Invariance, PTL

\* A call sleeps only while another one holds its container.
THEOREM SleepersHaveAHolder == Safety => []NoLostWakeup
<1>1. IInv => NoLostWakeup
  BY DEF IInv
<1>2. QED
  BY <1>1, Invariance, PTL

\* While a call is in the agent one of its calls is not asleep: a sleeper has a
\* holder, and a holder is inside (server.go:57-71).
THEOREM NotAllAsleep == Safety => []SomebodyIsAwake
<1>1. IInv => SomebodyIsAwake
  <2> SUFFICES ASSUME IInv, NEW c \in Calls, pc[c] \notin {"away", "done"}
               PROVE  \E d \in Calls : AtTest(d) \/ pc[d] = "inside"
    BY DEF SomebodyIsAwake
  <2>1. CASE pc[c] = "asleep"
    <3>1. Target[c] \in busy
      BY <2>1 DEF IInv, NoLostWakeup, Asleep
    <3>2. QED
      BY <3>1 DEF IInv, BusyIsHeld
  <2>2. CASE pc[c] # "asleep"
    BY <2>2 DEF IInv, TypeOK, Places, AtTest
  <2>3. QED
    BY <2>1, <2>2
<1>2. QED
  BY <1>1, Invariance, PTL

\* The step that makes each of the sets of Ahead smaller.
LEMMA StepsAhead ==
  ASSUME IInv, NEW c \in Calls, Arrive(c) \/ Lock(c) \/ Sleep(c) \/ Unlock(c)
  PROVE  \E i \in 1..4 :
           /\ Ahead'[i] \subseteq Ahead[i] /\ Ahead'[i] # Ahead[i]
           /\ \A j \in 1..(i - 1) : Ahead'[j] = Ahead[j]
<1>1. pc \in [Calls -> Places]
  BY DEF IInv, TypeOK
<1>2. CASE Unlock(c)
  <2>1. /\ pc[c] = "inside"
        /\ pc' = [d \in Calls |-> IF d = c THEN "done" ELSE IF d \in Asleep THEN "woken" ELSE pc[d]]
    BY <1>2 DEF Unlock, LeaveAndWake
  <2>2. Ahead'[1] = Ahead[1] \ {c} /\ c \in Ahead[1]
    BY <1>1, <2>1 DEF Ahead, Asleep
  <2>3. QED
    BY <2>2
<1>3. CASE Lock(c)
  <2>1. pc[c] \in {"locking", "woken"} /\ pc' = [pc EXCEPT ![c] = "inside"]
    BY <1>3 DEF Lock, AtTest
  <2>2. Ahead'[1] = Ahead[1] /\ Ahead'[2] = Ahead[2] \ {c} /\ c \in Ahead[2]
    BY <1>1, <2>1 DEF Ahead
  <2>3. QED
    BY <2>2
<1>4. CASE Arrive(c)
  <2>1. pc[c] = "away" /\ pc' = [pc EXCEPT ![c] = "locking"]
    BY <1>4 DEF Arrive
  <2>2. /\ Ahead'[1] = Ahead[1] /\ Ahead'[2] = Ahead[2]
        /\ Ahead'[3] = Ahead[3] \ {c} /\ c \in Ahead[3]
    BY <1>1, <2>1 DEF Ahead
  <2>3. \A j \in 1..(3 - 1) : j = 1 \/ j = 2
    OBVIOUS
  <2>4. QED
    BY <2>2, <2>3
<1>5. CASE Sleep(c)
  <2>1. pc[c] \in {"locking", "woken"} /\ pc' = [pc EXCEPT ![c] = "asleep"]
    BY <1>5 DEF Sleep, AtTest
  <2>2. /\ Ahead'[1] = Ahead[1] /\ Ahead'[2] = Ahead[2] /\ Ahead'[3] = Ahead[3]
        /\ Ahead'[4] = Ahead[4] \ {c} /\ c \in Ahead[4]
    BY <1>1, <2>1 DEF Ahead, AtTest
  <2>3. \A j \in 1..(4 - 1) : j = 1 \/ j = 2 \/ j = 3
    OBVIOUS
  <2>4. QED
    BY <2>2, <2>3
<1>6. QED
  BY <1>2, <1>3, <1>4, <1>5

\* Every step brings the calls nearer to their end, in the lexicographic order of
\* Ahead: for finitely many calls no behaviour goes on for ever, whoever wins the
\* race for the mutex (server.go:57-71).
THEOREM NoEndlessBarging == Safety => BargingEnds
<1>1. ASSUME IInv, [Next]_vars
      PROVE  [\E i \in 1..4 :
                /\ Ahead'[i] \subseteq Ahead[i] /\ Ahead'[i] # Ahead[i]
                /\ \A j \in 1..(i - 1) : Ahead'[j] = Ahead[j]]_vars
  BY <1>1, StepsAhead DEF Next
<1>2. QED
  BY <1>1, Invariance, PTL DEF Safety, BargingEnds

\* How far each call is for ContainerLock, which does not know of sleep.
Stages == [c \in Calls |-> StageOf(pc[c])]

\* The step of the abstract lock that each step of a call is.  A call inside keeps
\* its container busy, so the test of the loop is the guard of Enter; of the calls
\* that Broadcast wakes the abstract lock sees nothing.
LEMMA AbstractStep ==
  ASSUME IInv, NEW c \in Calls
  PROVE  /\ Arrive(c) => AbstractLock!Arrive(c)
         /\ Lock(c)   => AbstractLock!Enter(c)
         /\ Sleep(c)  => Stages' = Stages
         /\ Unlock(c) => AbstractLock!Leave(c)
<1> USE DEF StageOf, AbstractLock!Move
<1>1. pc \in [Calls -> Places]
  BY DEF IInv, TypeOK
<1> USE DEF Places
<1>2. Arrive(c) => AbstractLock!Arrive(c)
  BY <1>1 DEF Arrive, AbstractLock!Arrive
<1>3. ASSUME Lock(c) PROVE AbstractLock!Enter(c)
  <2>1. \A d \in Calls : Target[d] = Target[c] => pc[d] # "inside"
    BY <1>3 DEF Lock, IInv, BusyIsHeld
  <2>2. QED
    BY <1>1, <1>3, <2>1 DEF Lock, AtTest, AbstractLock!Enter
<1>4. Sleep(c) => Stages' = Stages
  BY <1>1 DEF Stages, Sleep, AtTest
<1>5. Unlock(c) => AbstractLock!Leave(c)
  BY <1>1 DEF Unlock, LeaveAndWake, Asleep, AbstractLock!Leave
<1>6. QED
  BY <1>2, <1>3, <1>4, <1>5

\* Every step of the arbitrator is a step of ContainerLock or leaves its state
\* alone.
THEOREM LockRefinement == Safety => AbstractLock!Safety
<1>1. Init => AbstractLock!Init
  BY DEF Init, AbstractLock!Init, StageOf
<1>2. ASSUME IInv, [Next]_vars
      PROVE  [AbstractLock!Next]_Stages
  <2>1. vars' = vars => Stages' = Stages
    BY DEF vars, Stages
  <2>2. QED
    BY <1>2, <2>1, AbstractStep DEF Next, AbstractLock!Next
<1>3. QED
  BY <1>1, <1>2, Invariance, PTL DEF Safety, AbstractLock!Safety, Stages
=============================================================================
