---------------------------- MODULE TaskLifecycle ----------------------------
(***************************************************************************)
(* What the scheduler promises its callers, without contexts, stacks, ids  *)
(* or an order of the ready tasks: which state a task may go to next, that *)
(* one task has the CPU, that the idle task has it only when nobody wants  *)
(* it, and that a task that is ready gets it.                              *)
(***************************************************************************)
CONSTANTS Slots, Kernel, Idle

VARIABLES state, cur

lifecycleVars == <<state, cur>>

Init ==
  /\ state = [t \in Slots \cup {Idle} |->
                IF t = Kernel THEN "RUNNING" ELSE IF t = Idle THEN "READY" ELSE "TERMINATED"]
  /\ cur = Kernel

Running == cur # Idle /\ state[cur] = "RUNNING"

Create(t) ==
  /\ Running /\ t # Kernel
  /\ state[t] = "TERMINATED"
  /\ state' = [state EXCEPT ![t] = "READY"]
  /\ cur' = cur

Wake(t) ==
  /\ Running /\ t # Kernel
  /\ state[t] = "BLOCKED"
  /\ state' = [state EXCEPT ![t] = "READY"]
  /\ cur' = cur

\* The running task gives up its claim to the CPU; it leaves it by Dispatch.
Block ==
  /\ Running
  /\ state' = [state EXCEPT ![cur] = "BLOCKED"]
  /\ cur' = cur

\* The states after the current task has left the CPU.
Kept   == [state EXCEPT ![cur] = IF @ = "RUNNING" THEN "READY" ELSE @]
Exited == [state EXCEPT ![cur] = "TERMINATED"]

HandTo(t, left) ==
  /\ t = Idle => \A s \in Slots : left[s] # "READY"
  /\ left[t] = "READY"
  /\ state' = [left EXCEPT ![t] = "RUNNING"]
  /\ cur' = t

Dispatch(t) ==
  \/ HandTo(t, Kept)
  \/ Running /\ HandTo(t, Exited)

Next ==
  \/ Block
  \/ \E t \in Slots : Create(t) \/ Wake(t)
  \/ \E t \in Slots \cup {Idle} : Dispatch(t)

Spec == Init /\ [][Next]_lifecycleVars

FairSpec == Spec /\ \A t \in Slots : SF_lifecycleVars(Dispatch(t))
==============================================================================
