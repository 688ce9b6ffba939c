--------------------------- MODULE SchedulerProofs ---------------------------
(***************************************************************************)
(* Proofs about Scheduler for every number of tasks and every time slice.  *)
(***************************************************************************)
EXTENDS Scheduler, TLAPS

\* A step is for the SMT solver unless it names another prover.
USE SMTT(60)

(***************************************************************************)
(* The inductive invariant.  ContextIntegrity is not inductive by itself:  *)
(* that task_create takes a stack nobody lives on rests on the ids, and    *)
(* that scheduler_schedule finds a context on the stack it returns rests   *)
(* on the states.                                                          *)
(***************************************************************************)
IdsInOrder ==
  /\ id[KernelTask] = 0
  /\ \A s \in UserSlots : id[s] = IF s < nextTaskID THEN s ELSE 0
  /\ \A s \in UserSlots : s >= nextTaskID => ~Live(s)

\* The stack of a live task, with the ids worked out.
HomeStack(t) ==
  IF t = idleTask THEN idleStack ELSE IF t = KernelTask THEN KernelStack ELSE t - 1

GoodContext(c, ids) ==
  /\ c.pc # "exited"
  /\ c.pc = "created" => c.id # 0 /\ ids[c.slot] = c.id

OnHomeStack ==
  /\ sp = HomeStack(curTask)
  /\ GoodContext(ctx, id)
  /\ \A t \in Tasks \ {curTask} :
       Live(t) => esp[t] = HomeStack(t) /\ GoodContext(stackMem[HomeStack(t)], id)

IndInv == TypeOK /\ IdsInOrder /\ Live(idleTask) /\ CurrentRuns /\ OnHomeStack

-----------------------------------------------------------------------------
(***************************************************************************)
(* Lemmas about the operators.                                             *)
(***************************************************************************)
\* A remainder is below its divisor.
LEMMA ModRange == \A n \in Nat \ {0} : \A a \in Int : a % n \in 0 .. n - 1
  OBVIOUS

\* A number below the divisor is its own remainder.
LEMMA ModSmall == \A n \in Nat \ {0} : \A a \in 0 .. n - 1 : a % n = a
  OBVIOUS

\* The remainder of a number that is below twice its divisor.
LEMMA ModOnce == \A n \in Nat \ {0} : \A a \in n .. 2 * n - 1 : a % n = a - n
  OBVIOUS

\* The search of scheduler_schedule wraps around once.
LEMMA NextIdxValue ==
  ASSUME curTask \in Tasks, NEW i \in ScanRange
  PROVE  nextIdx(i) = IF curIdx + i < MaxTasks THEN curIdx + i ELSE curIdx + i - MaxTasks
<1>1. curIdx \in 0 .. MaxTasks - 1 /\ i \in 1 .. MaxTasks /\ MaxTasks \in Nat \ {0}
  BY SchedulerAssumption DEF curIdx, ScanRange, Slots
<1>2. CASE curIdx + i < MaxTasks
  <2>1. curIdx + i \in 0 .. MaxTasks - 1
    BY <1>1, <1>2
  <2> QED BY <1>1, <1>2, <2>1, ModSmall DEF nextIdx
<1>3. CASE curIdx + i >= MaxTasks
  <2>1. curIdx + i \in MaxTasks .. 2 * MaxTasks - 1
    BY <1>1, <1>3
  <2>2. (curIdx + i) % MaxTasks = curIdx + i - MaxTasks
    BY <1>1, <2>1, ModOnce
  <2> QED BY <1>1, <1>3, <2>2 DEF nextIdx
<1> QED BY <1>1, <1>2, <1>3

\* It looks at slots only ...
LEMMA NextIdxInSlots ==
  ASSUME curTask \in Tasks, NEW i \in ScanRange
  PROVE  nextIdx(i) \in Slots
<1>1. curIdx \in 0 .. MaxTasks - 1 /\ i \in 1 .. MaxTasks /\ MaxTasks \in Nat
  BY SchedulerAssumption DEF curIdx, ScanRange, Slots
<1> QED BY <1>1, NextIdxValue DEF Slots

\* ... and at every one of them.
LEMMA SearchCoversSlots ==
  ASSUME curTask \in Tasks, NEW t \in Slots
  PROVE  \E i \in ScanRange : nextIdx(i) = t
<1>1. curIdx \in 0 .. MaxTasks - 1 /\ t \in 0 .. MaxTasks - 1 /\ MaxTasks \in Nat
  BY SchedulerAssumption DEF curIdx, Slots
<1> DEFINE i == IF t > curIdx THEN t - curIdx ELSE t - curIdx + MaxTasks
<1>2. i \in ScanRange
  BY <1>1 DEF ScanRange
<1>3. nextIdx(i) = t
  <2>1. nextIdx(i) = IF curIdx + i < MaxTasks THEN curIdx + i ELSE curIdx + i - MaxTasks
    BY <1>2, NextIdxValue
  <2> QED BY <1>1, <2>1
<1> QED BY <1>2, <1>3

\* Different tasks have different home stacks.
LEMMA HomeStacksDiffer ==
  /\ \A t \in Tasks : HomeStack(t) \in Stacks
  /\ \A t, u \in Tasks : t # u => HomeStack(t) # HomeStack(u)
BY SchedulerAssumption
DEF HomeStack, Tasks, Slots, idleTask, KernelTask, idleStack, KernelStack, MaxUserTasks, Stacks

\* With the ids in order the stack a live task owns is its home stack.
LEMMA OwnIsHome ==
  ASSUME TypeOK, IdsInOrder, NEW t \in Tasks, Live(t)
  PROVE  OwnStack(t) = HomeStack(t)
BY SchedulerAssumption
DEF OwnStack, HomeStack, TypeOK, IdsInOrder, Tasks, Slots, UserSlots, idleTask, KernelTask

-----------------------------------------------------------------------------
(***************************************************************************)
(* scheduler_schedule preserves the invariant, whoever calls it: on behalf *)
(* of a task that stays alive and left a context worth resuming, or of one *)
(* that has just been terminated.                                          *)
(***************************************************************************)

\* What the callers of scheduler_schedule pass to it.
LeavesCleanly(st, frame) ==
  /\ st \in [Tasks -> TaskStates]
  /\ \A t \in Tasks \ {curTask} : st[t] = state[t]
  /\ frame \in Contexts
  /\ \/ st[curTask] \in {TASK_RUNNING, TASK_BLOCKED} /\ GoodContext(frame, id)
     \/ st[curTask] = TASK_TERMINATED /\ curTask # idleTask

\* Whatever branch it takes, it switches to a slot that is ready, or to the
\* idle task when none is.
LEMMA ScheduleSwitches ==
  ASSUME IndInv, NEW st, NEW frame, scheduler_schedule(st, frame)
  PROVE  \E t \in Tasks :
           /\ SwitchTo(t, Demote(st))
           /\ \/ t \in Slots /\ Demote(st)[t] = TASK_READY
              \/ t = idleTask /\ \A s \in Slots : Demote(st)[s] # TASK_READY
<1> DEFINE d == Demote(st)
<1>0. curTask \in Tasks /\ Tasks = Slots \cup {idleTask}
  BY DEF IndInv, TypeOK, Tasks
<1>1. \/ \E i \in ScanRange : d[nextIdx(i)] = TASK_READY /\ SwitchTo(nextIdx(i), d)
      \/ NoneReady(d) /\ d[curTask] = TASK_READY /\ SwitchTo(curTask, d)
      \/ NoneReady(d) /\ SwitchTo(idleTask, d)
  BY DEF scheduler_schedule
<1>2. NoneReady(d) => \A s \in Slots : d[s] # TASK_READY
  BY <1>0, SearchCoversSlots DEF NoneReady
<1>3. CASE \E i \in ScanRange : d[nextIdx(i)] = TASK_READY /\ SwitchTo(nextIdx(i), d)
  BY <1>0, <1>3, NextIdxInSlots
<1>4. CASE NoneReady(d) /\ d[curTask] = TASK_READY /\ SwitchTo(curTask, d)
  BY <1>0, <1>2, <1>4
<1>5. CASE NoneReady(d) /\ SwitchTo(idleTask, d)
  BY <1>0, <1>2, <1>5
<1> QED BY <1>1, <1>3, <1>4, <1>5

\* scheduler_schedule keeps the invariant, whoever calls it.
LEMMA SchedulePreservesInv ==
  ASSUME IndInv, NEW st, NEW frame, LeavesCleanly(st, frame), scheduler_schedule(st, frame)
  PROVE  IndInv'
<1> DEFINE d == Demote(st)
<1>1. PICK t \in Tasks : SwitchTo(t, d) /\ (d[t] = TASK_READY \/ t = idleTask)
  BY ScheduleSwitches
<1>2. /\ curTask \in Tasks /\ state \in [Tasks -> TaskStates]
      /\ stackMem \in [Stacks -> Contexts] /\ esp \in [Tasks -> Stacks \cup {NoContext}]
      /\ sp = HomeStack(curTask) /\ sp \in Stacks
  BY DEF IndInv, TypeOK, OnHomeStack
<1>3. /\ d \in [Tasks -> TaskStates]
      /\ \A u \in Tasks : d[u] # TASK_RUNNING
      /\ \A u \in Tasks \ {curTask} : d[u] = state[u]
      /\ d[curTask] = TASK_TERMINATED \/ GoodContext(frame, id)
      /\ d[idleTask] # TASK_TERMINATED
      /\ d[t] # TASK_TERMINATED
  <2> USE DEF TaskStates, TASK_RUNNING, TASK_READY, TASK_BLOCKED, TASK_TERMINATED
  <2>1. /\ st \in [Tasks -> TaskStates]
        /\ \A u \in Tasks \ {curTask} : st[u] = state[u] /\ st[u] # TASK_RUNNING
        /\ st[curTask] = TASK_TERMINATED \/ GoodContext(frame, id)
        /\ idleTask \in Tasks /\ st[idleTask] # TASK_TERMINATED
    BY <1>2 DEF LeavesCleanly, IndInv, CurrentRuns, Live, Tasks
  <2>2. /\ d \in [Tasks -> TaskStates]
        /\ \A u \in Tasks \ {curTask} : d[u] = st[u]
        /\ d[curTask] = IF st[curTask] = TASK_RUNNING THEN TASK_READY ELSE st[curTask]
    BY <1>2, <2>1 DEF Demote
  <2>3. d[idleTask] # TASK_TERMINATED
    BY <2>1, <2>2
  <2> QED BY <1>1, <1>2, <2>1, <2>2, <2>3
<1>4. /\ curTask' = t
      /\ state' = [d EXCEPT ![t] = TASK_RUNNING]
      /\ stackMem' = [stackMem EXCEPT ![sp] = frame]
      /\ esp' = [esp EXCEPT ![curTask] = sp]
      /\ sp' = esp'[t]
      /\ ctx' = stackMem'[sp']
      /\ schedulerTicks' = 0
      /\ id' = id /\ nextTaskID' = nextTaskID
  BY <1>1 DEF scheduler_schedule, SwitchTo, Resume
<1>5. esp'[t] = HomeStack(t) /\ esp'[t] \in Stacks
  <2>1. CASE t = curTask
    BY <1>2, <1>4, <2>1
  <2>2. CASE t # curTask
    BY <1>1, <1>2, <1>3, <1>4, <2>2, HomeStacksDiffer DEF IndInv, OnHomeStack, Live
  <2> QED BY <2>1, <2>2
<1>6. TypeOK'
  <2>1. frame \in Contexts
    BY DEF LeavesCleanly
  <2>2. state' \in [Tasks -> TaskStates]
    BY <1>3, <1>4 DEF TaskStates
  <2>3. esp' \in [Tasks -> Stacks \cup {NoContext}]
    BY <1>2, <1>4
  <2>4. stackMem' \in [Stacks -> Contexts]
    BY <1>2, <1>4, <2>1
  <2>5. ctx' \in Contexts
    BY <1>4, <1>5, <2>4
  <2>6. schedulerTicks' \in 0 .. TimeSlice - 1
    BY <1>4, SchedulerAssumption
  <2> QED BY <1>1, <1>4, <1>5, <2>2, <2>3, <2>4, <2>5, <2>6 DEF IndInv, TypeOK
<1>7. IdsInOrder'
  <2>1. \A s \in UserSlots : s >= nextTaskID => state'[s] = TASK_TERMINATED
    <3> SUFFICES ASSUME NEW s \in UserSlots, s >= nextTaskID
                 PROVE  state'[s] = TASK_TERMINATED
      OBVIOUS
    <3>1. s \in Tasks /\ s # idleTask
      BY SchedulerAssumption DEF Tasks, Slots, UserSlots, idleTask
    <3>2. state[s] = TASK_TERMINATED
      BY DEF IndInv, IdsInOrder, Live
    <3>3. s # curTask
      BY <3>2 DEF IndInv, CurrentRuns, TASK_TERMINATED, TASK_RUNNING, TASK_BLOCKED
    <3>4. d[s] = TASK_TERMINATED
      BY <1>3, <3>1, <3>2, <3>3
    <3> QED BY <1>3, <1>4, <3>1, <3>4
  <2> QED BY <1>4, <2>1 DEF IndInv, IdsInOrder, Live
<1>8. Live(idleTask)'
  BY <1>3, <1>4 DEF Live, Tasks, TASK_RUNNING, TASK_TERMINATED
<1>9. CurrentRuns'
  BY <1>3, <1>4 DEF CurrentRuns
<1>10. OnHomeStack'
  <2>2. GoodContext(ctx', id)
    <3>1. GoodContext(stackMem'[HomeStack(t)], id)
      <4>1. CASE t = curTask
        BY <1>2, <1>3, <1>4, <4>1
      <4>2. CASE t # curTask
        <5>1. GoodContext(stackMem[HomeStack(t)], id)
          BY <1>1, <1>3, <4>2 DEF IndInv, OnHomeStack, Live
        <5> QED BY <1>1, <1>2, <1>4, <4>2, <5>1, HomeStacksDiffer
      <4> QED BY <4>1, <4>2
    <3> QED BY <1>4, <1>5, <3>1
  <2>3. ASSUME NEW u \in Tasks \ {t}, Live(u)'
        PROVE  esp'[u] = HomeStack(u) /\ GoodContext(stackMem'[HomeStack(u)], id)
    <3>1. d[u] # TASK_TERMINATED
      BY <1>3, <1>4, <2>3 DEF Live
    <3>2. CASE u = curTask
      BY <1>2, <1>3, <1>4, <3>1, <3>2
    <3>3. CASE u # curTask
      <4>1. esp[u] = HomeStack(u) /\ GoodContext(stackMem[HomeStack(u)], id)
        BY <1>3, <3>1, <3>3 DEF IndInv, OnHomeStack, Live
      <4> QED BY <1>2, <1>4, <3>3, <4>1, HomeStacksDiffer
    <3> QED BY <3>2, <3>3
  <2> QED BY <1>4, <1>5, <2>2, <2>3 DEF OnHomeStack, HomeStack
<1> QED BY <1>6, <1>7, <1>8, <1>9, <1>10 DEF IndInv

-----------------------------------------------------------------------------
(***************************************************************************)
(* The invariance proof, one step per action.                              *)
(***************************************************************************)
\* scheduler_init establishes the invariant.
LEMMA InitInv == Init => IndInv
<1> SUFFICES ASSUME Init PROVE IndInv
  OBVIOUS
<1> USE SchedulerAssumption
<1>1. TypeOK
  <2>1. At("entry") \in Contexts /\ At("running") \in Contexts
    BY DEF At, Contexts, PCs, Slots
  <2> QED BY <2>1 DEF Init, TypeOK, Tasks, Slots, Stacks, KernelStack, idleStack, MaxUserTasks,
        KernelTask, TaskStates
<1>2. IdsInOrder
  <2>1. \A s \in UserSlots : s \in Slots /\ s \in Tasks /\ s >= 1 /\ s # KernelTask /\ s # idleTask
    BY DEF UserSlots, Slots, Tasks, KernelTask, idleTask
  <2>2. KernelTask \in Slots
    BY DEF Slots, KernelTask
  <2>3. \A s \in UserSlots : state[s] = TASK_TERMINATED /\ id[s] = 0 /\ ~(s < nextTaskID)
    BY <2>1 DEF Init, UserSlots
  <2> QED BY <2>2, <2>3 DEF Init, IdsInOrder, Live
<1>3. Live(idleTask)
  BY DEF Init, Live, Tasks, idleTask, KernelTask, TASK_READY, TASK_TERMINATED
<1>4. CurrentRuns
  <2>1. KernelTask \in Tasks /\ idleTask # KernelTask
    BY DEF Tasks, Slots, KernelTask, idleTask
  <2> QED BY <2>1 DEF Init, CurrentRuns, TASK_READY, TASK_RUNNING, TASK_TERMINATED
<1>5. OnHomeStack
  <2>1. \A t \in Tasks \ {KernelTask} : Live(t) => t = idleTask
    BY DEF Init, Live
  <2>2. GoodContext(At("entry"), id) /\ GoodContext(At("running"), id)
    BY DEF GoodContext, At
  <2>3. sp = HomeStack(curTask) /\ GoodContext(ctx, id)
    BY <2>2 DEF Init, HomeStack, KernelTask, idleTask
  <2>4. esp[idleTask] = HomeStack(idleTask) /\ GoodContext(stackMem[HomeStack(idleTask)], id)
    BY <2>2 DEF Init, HomeStack, Tasks, Stacks, idleStack, MaxUserTasks
  <2> QED BY <2>1, <2>3, <2>4 DEF Init, OnHomeStack
<1> QED BY <1>1, <1>2, <1>3, <1>4, <1>5 DEF IndInv

\* The callers of scheduler_schedule respect LeavesCleanly.
LEMMA CallersLeaveCleanly ==
  ASSUME IndInv
  PROVE  /\ LeavesCleanly(state, ctx)
         /\ LeavesCleanly(state, At("running"))
         /\ curTask # idleTask
              => LeavesCleanly([state EXCEPT ![curTask] = TASK_TERMINATED], At("exited"))
<1>1. At("running") \in Contexts /\ At("exited") \in Contexts
  BY SchedulerAssumption DEF At, Contexts, PCs, Slots
<1>2. GoodContext(At("running"), id)
  BY DEF GoodContext, At
<1>3. /\ state \in [Tasks -> TaskStates] /\ curTask \in Tasks /\ ctx \in Contexts
      /\ state[curTask] \in {TASK_RUNNING, TASK_BLOCKED} /\ GoodContext(ctx, id)
  BY DEF IndInv, TypeOK, CurrentRuns, OnHomeStack
<1> QED BY <1>1, <1>2, <1>3 DEF LeavesCleanly, TaskStates

\* task_create keeps it.
LEMMA CreatePreservesInv ==
  ASSUME IndInv, NEW entry \in Entries, task_create(entry)
  PROVE  IndInv'
<1> USE SchedulerAssumption
<1>1. PICK s \in UserSlots :
        LET newId == NewId(s)
            fits  == newId - 1 < MaxUserTasks
        IN
        /\ FirstFree(s)
        /\ id' = [id EXCEPT ![s] = newId]
        /\ nextTaskID' = IF id[s] = 0 THEN nextTaskID + 1 ELSE nextTaskID
        /\ state' = [state EXCEPT ![s] = IF fits THEN TASK_READY ELSE @]
        /\ esp' = [esp EXCEPT ![s] = IF fits THEN newId - 1 ELSE @]
        /\ stackMem' = IF fits THEN [stackMem EXCEPT ![newId - 1] = At("entry")] ELSE stackMem
        /\ ctx' = IF fits THEN [pc |-> "created", slot |-> s, id |-> newId] ELSE At("running")
  BY ZenonT(30) DEF task_create
<1>2. /\ TypeOK /\ IdsInOrder /\ CurrentRuns /\ OnHomeStack
      /\ s \in 1 .. MaxTasks - 1 /\ s \in Tasks /\ s # idleTask /\ s # KernelTask
      /\ state[s] = TASK_TERMINATED /\ s # curTask /\ Live(idleTask)
  BY <1>1 DEF IndInv, FirstFree, IsFree, UserSlots, Tasks, Slots, idleTask, KernelTask,
     CurrentRuns, TASK_TERMINATED, TASK_RUNNING, TASK_BLOCKED
<1>3. s <= nextTaskID
  <2>1. CASE s = 1
    BY <1>2, <2>1 DEF TypeOK
  <2>2. CASE s > 1
    <3>1. s - 1 \in UserSlots /\ s - 1 \in 1 .. s - 1
      BY <1>2, <2>2 DEF UserSlots
    <3>2. Live(s - 1)
      BY <1>1, <3>1 DEF FirstFree, IsFree, Live
    <3>3. ~(s - 1 >= nextTaskID)
      BY <1>2, <3>1, <3>2 DEF IdsInOrder
    <3> QED BY <1>2, <3>3 DEF TypeOK
  <2> QED BY <1>2, <2>1, <2>2
<1>4. NewId(s) = s /\ (id[s] = 0 <=> s = nextTaskID)
  BY <1>1, <1>2, <1>3 DEF NewId, IdsInOrder, TypeOK
<1>5. /\ id' = [id EXCEPT ![s] = s]
      /\ nextTaskID' = IF s = nextTaskID THEN nextTaskID + 1 ELSE nextTaskID
      /\ state' = [state EXCEPT ![s] = TASK_READY]
      /\ esp' = [esp EXCEPT ![s] = s - 1]
      /\ stackMem' = [stackMem EXCEPT ![s - 1] = At("entry")]
      /\ ctx' = [pc |-> "created", slot |-> s, id |-> s]
      /\ curTask' = curTask /\ schedulerTicks' = schedulerTicks /\ sp' = sp
  <2>1. (NewId(s) - 1 < MaxUserTasks) = TRUE
    BY <1>2, <1>4 DEF MaxUserTasks
  <2>2. id' = [id EXCEPT ![s] = s]
    BY <1>1, <1>4
  <2>3. nextTaskID' = IF s = nextTaskID THEN nextTaskID + 1 ELSE nextTaskID
    BY <1>1, <1>4
  <2>4. state' = [state EXCEPT ![s] = TASK_READY] /\ esp' = [esp EXCEPT ![s] = s - 1]
    BY <1>1, <1>4, <2>1, ZenonT(30)
  <2>5. /\ stackMem' = [stackMem EXCEPT ![s - 1] = At("entry")]
        /\ ctx' = [pc |-> "created", slot |-> s, id |-> s]
    BY <1>1, <1>4, <2>1, ZenonT(30)
  <2>6. curTask' = curTask /\ schedulerTicks' = schedulerTicks /\ sp' = sp
    BY DEF task_create
  <2> QED BY <2>2, <2>3, <2>4, <2>5, <2>6
<1>6. TypeOK'
  <2>1. At("entry") \in Contexts /\ ctx' \in Contexts
    BY <1>2, <1>5 DEF At, Contexts, PCs, Slots
  <2>2. s - 1 \in Stacks /\ s \in Slots
    BY <1>2 DEF Stacks, MaxUserTasks, Slots
  <2>3. id' \in [Slots -> 0 .. MaxTasks - 1] /\ nextTaskID' \in 1 .. MaxTasks
    <3>1. id \in [Slots -> 0 .. MaxTasks - 1] /\ nextTaskID \in 1 .. MaxTasks
      BY <1>2 DEF TypeOK
    <3>2. id' \in [Slots -> 0 .. MaxTasks - 1]
      BY <1>2, <1>5, <2>2, <3>1
    <3>3. nextTaskID' \in 1 .. MaxTasks
      BY <1>2, <1>5, <3>1
    <3> QED BY <3>2, <3>3
  <2>4. state' \in [Tasks -> TaskStates]
    BY <1>2, <1>5 DEF TypeOK, TaskStates
  <2> QED BY <1>2, <1>5, <2>1, <2>2, <2>3, <2>4 DEF TypeOK
<1>7. IdsInOrder'
  <2>1. id'[KernelTask] = 0
    BY <1>2, <1>5 DEF IdsInOrder, TypeOK, KernelTask, Slots
  <2>2. ASSUME NEW r \in UserSlots
        PROVE  /\ id'[r] = IF r < nextTaskID' THEN r ELSE 0
               /\ r >= nextTaskID' => state'[r] = TASK_TERMINATED
    <3>0. r \in 1 .. MaxTasks - 1 /\ r \in Slots /\ r \in Tasks /\ nextTaskID \in 1 .. MaxTasks
      BY <1>2 DEF UserSlots, Slots, Tasks, TypeOK
    <3>1. /\ id[r] = IF r < nextTaskID THEN r ELSE 0
          /\ r >= nextTaskID => state[r] = TASK_TERMINATED
      BY <1>2 DEF IdsInOrder, Live
    <3>2. id'[r] = IF r = s THEN s ELSE id[r]
      BY <1>2, <1>5, <3>0 DEF TypeOK
    <3>3. state'[r] = IF r = s THEN TASK_READY ELSE state[r]
      BY <1>2, <1>5, <3>0 DEF TypeOK
    <3> QED BY <1>2, <1>3, <1>5, <3>0, <3>1, <3>2, <3>3
  <2> QED BY <2>1, <2>2 DEF IdsInOrder, Live
<1>8. Live(idleTask)'
  BY <1>2, <1>5 DEF Live, TypeOK
<1>9. CurrentRuns'
  <2>1. state[curTask] = TASK_RUNNING
    BY <1>2 DEF task_create, InOwnCode, CurrentRuns
  <2> QED BY <1>2, <1>5, <2>1 DEF CurrentRuns, TypeOK, TASK_RUNNING, TASK_READY
<1>10. OnHomeStack'
  <2>1. HomeStack(s) = s - 1 /\ s - 1 \in Stacks
    BY <1>2 DEF HomeStack, Stacks, MaxUserTasks
  <2>2. \A c \in Contexts : GoodContext(c, id) => GoodContext(c, id')
    <3> SUFFICES ASSUME NEW c \in Contexts, c.pc = "created", c.id # 0, id[c.slot] = c.id
                 PROVE  id'[c.slot] = c.id
      BY DEF GoodContext
    <3>1. c.slot \in Slots
      BY DEF Contexts
    <3>2. id[s] = s \/ id[s] = 0
      BY <1>2 DEF IdsInOrder, UserSlots
    <3> QED BY <1>2, <1>5, <3>1, <3>2 DEF TypeOK
  <2>3. GoodContext(ctx', id')
    BY <1>2, <1>5 DEF GoodContext, TypeOK, Slots
  <2>4. GoodContext(At("entry"), id)
    BY DEF GoodContext, At
  <2>5. At("entry") \in Contexts
    BY DEF At, Contexts, PCs, Slots
  <2>6. ASSUME NEW t \in Tasks \ {curTask}, Live(t)'
        PROVE  esp'[t] = HomeStack(t) /\ GoodContext(stackMem'[HomeStack(t)], id')
    <3>1. CASE t = s
      BY <1>2, <1>5, <2>1, <2>2, <2>4, <2>5, <3>1, ZenonT(30) DEF TypeOK
    <3>2. CASE t # s
      <4>1. state[t] # TASK_TERMINATED
        BY <1>2, <1>5, <2>6, <3>2 DEF Live, TypeOK
      <4>2. esp[t] = HomeStack(t) /\ GoodContext(stackMem[HomeStack(t)], id)
        BY <1>2, <4>1 DEF OnHomeStack, Live
      <4>3. HomeStack(t) \in Stacks /\ HomeStack(t) # s - 1
        BY <1>2, <2>1, <3>2, HomeStacksDiffer
      <4>4. stackMem'[HomeStack(t)] = stackMem[HomeStack(t)] /\ esp'[t] = esp[t]
        BY <1>2, <1>5, <3>2, <4>3 DEF TypeOK
      <4>5. stackMem[HomeStack(t)] \in Contexts
        BY <1>2, <4>3 DEF TypeOK
      <4> QED BY <2>2, <4>2, <4>4, <4>5
    <3> QED BY <3>1, <3>2
  <2> QED BY <1>2, <1>5, <2>3, <2>6, ZenonT(30) DEF OnHomeStack, HomeStack
<1> QED BY <1>6, <1>7, <1>8, <1>9, <1>10 DEF IndInv

\* Steps that only move the program counter inside the API functions.
OnlyContext ==
  /\ ctx' = At("running")
  /\ UNCHANGED <<id, state, esp, curTask, nextTaskID, schedulerTicks, stackMem, sp>>

\* So does a step that changes where the code is and nothing else.
LEMMA OnlyContextPreservesInv ==
  ASSUME IndInv, OnlyContext, ctx.pc # "blocking"
  PROVE  IndInv'
<1>1. At("running") \in Contexts /\ GoodContext(At("running"), id)
  BY SchedulerAssumption DEF At, Contexts, PCs, Slots, GoodContext
<1>2. state[curTask] = TASK_RUNNING
  BY DEF IndInv, CurrentRuns
<1> QED BY <1>1, <1>2, ZenonT(30) DEF OnlyContext, IndInv, TypeOK, IdsInOrder, Live, CurrentRuns,
      OnHomeStack, HomeStack

\* The store in task_block keeps it.
LEMMA BlockPreservesInv ==
  ASSUME IndInv, task_block
  PROVE  IndInv'
<1>1. At("blocking") \in Contexts /\ GoodContext(At("blocking"), id)
  BY SchedulerAssumption DEF At, Contexts, PCs, Slots, GoodContext
<1>2. /\ TypeOK /\ IdsInOrder /\ CurrentRuns /\ OnHomeStack /\ Live(idleTask)
      /\ curTask \in Tasks /\ state \in [Tasks -> TaskStates] /\ state[curTask] = TASK_RUNNING
  BY DEF IndInv, TypeOK, CurrentRuns, task_block, InOwnCode
<1>3. /\ state' = [state EXCEPT ![curTask] = TASK_BLOCKED]
      /\ ctx' = At("blocking")
      /\ UNCHANGED <<id, esp, curTask, nextTaskID, schedulerTicks, stackMem, sp>>
  BY DEF task_block
<1>4. TypeOK'
  <2>1. state' \in [Tasks -> TaskStates]
    BY <1>2, <1>3 DEF TaskStates
  <2> QED BY <1>1, <1>2, <1>3, <2>1 DEF TypeOK
<1>5. \A t \in Tasks : Live(t)' <=> Live(t)
  BY <1>2, <1>3 DEF Live, TASK_BLOCKED, TASK_RUNNING, TASK_TERMINATED
<1>6. IdsInOrder' /\ Live(idleTask)'
  <2>1. idleTask \in Tasks /\ UserSlots \subseteq Tasks
    BY SchedulerAssumption DEF Tasks, Slots, UserSlots
  <2>2. \A t \in UserSlots : t >= nextTaskID' => ~Live(t)'
    BY <1>2, <1>3, <1>5, <2>1 DEF IdsInOrder
  <2> QED BY <1>2, <1>3, <1>5, <2>1, <2>2 DEF IdsInOrder
<1>7. CurrentRuns'
  <2>1. \A t \in Tasks \ {curTask} : state'[t] # TASK_RUNNING
    BY <1>2, <1>3 DEF CurrentRuns
  <2>2. state'[curTask] = TASK_BLOCKED /\ ctx'.pc = "blocking"
    BY <1>2, <1>3 DEF At
  <2> QED BY <1>3, <2>1, <2>2 DEF CurrentRuns
<1>8. OnHomeStack'
  BY <1>1, <1>2, <1>3, <1>5 DEF OnHomeStack, HomeStack
<1> QED BY <1>4, <1>6, <1>7, <1>8 DEF IndInv

\* task_unblock keeps it.
LEMMA UnblockPreservesInv ==
  ASSUME IndInv, NEW wanted \in Slots, task_unblock(wanted)
  PROVE  IndInv'
<1>1. PICK s \in UserSlots : state[s] = TASK_BLOCKED /\ state' = [state EXCEPT ![s] = TASK_READY]
  BY ZenonT(30) DEF task_unblock, Unblockable
<1>2. /\ ctx' = At("running")
      /\ UNCHANGED <<id, esp, curTask, nextTaskID, schedulerTicks, stackMem, sp>>
  BY DEF task_unblock
<1>3. At("running") \in Contexts /\ GoodContext(At("running"), id)
  BY SchedulerAssumption DEF At, Contexts, PCs, Slots, GoodContext
<1>4. /\ TypeOK /\ IdsInOrder /\ CurrentRuns /\ OnHomeStack /\ Live(idleTask)
      /\ curTask \in Tasks /\ state \in [Tasks -> TaskStates] /\ state[curTask] = TASK_RUNNING
      /\ s \in Tasks
  BY SchedulerAssumption
  DEF IndInv, TypeOK, CurrentRuns, task_unblock, InOwnCode, UserSlots, Slots, Tasks
<1>5. TypeOK'
  <2>1. state' \in [Tasks -> TaskStates]
    BY <1>1, <1>4 DEF TaskStates
  <2> QED BY <1>2, <1>3, <1>4, <2>1 DEF TypeOK
<1>6. \A t \in Tasks : Live(t)' <=> Live(t)
  BY <1>1, <1>4 DEF Live, TASK_BLOCKED, TASK_READY, TASK_TERMINATED
<1>7. IdsInOrder' /\ Live(idleTask)'
  <2>1. idleTask \in Tasks /\ UserSlots \subseteq Tasks
    BY SchedulerAssumption DEF Tasks, Slots, UserSlots
  <2>2. \A t \in UserSlots : t >= nextTaskID' => ~Live(t)'
    BY <1>2, <1>4, <1>6, <2>1 DEF IdsInOrder
  <2> QED BY <1>2, <1>4, <1>6, <2>1, <2>2 DEF IdsInOrder
<1>8. CurrentRuns'
  BY <1>1, <1>2, <1>4 DEF CurrentRuns, TASK_BLOCKED, TASK_RUNNING, TASK_READY
<1>9. OnHomeStack'
  BY <1>2, <1>3, <1>4, <1>6 DEF OnHomeStack, HomeStack
<1> QED BY <1>5, <1>7, <1>8, <1>9 DEF IndInv

\* Every step keeps it, and every stutter.
LEMMA NextPreservesInv == IndInv /\ [Next]_vars => IndInv'
<1> SUFFICES ASSUME IndInv, [Next]_vars PROVE IndInv'
  OBVIOUS
<1>1. CASE Tick
  <2>1. CASE schedulerTicks + 1 < TimeSlice /\ schedulerTicks' = schedulerTicks + 1
             /\ UNCHANGED <<id, state, esp, curTask, nextTaskID, stackMem, sp, ctx>>
    <3>1. schedulerTicks' \in 0 .. TimeSlice - 1
      BY <2>1, SchedulerAssumption DEF IndInv, TypeOK
    <3> QED BY <2>1, <3>1, ZenonT(30) DEF IndInv, TypeOK, IdsInOrder, Live, CurrentRuns, OnHomeStack, HomeStack
  <2>2. CASE scheduler_schedule(state, ctx)
    BY <2>2, CallersLeaveCleanly, SchedulePreservesInv
  <2> QED BY <1>1, <2>1, <2>2 DEF Tick
<1>2. CASE task_yield
  BY <1>2, CallersLeaveCleanly, SchedulePreservesInv DEF task_yield
<1>3. CASE task_block
  BY <1>3, BlockPreservesInv
<1>4. CASE block_yield
  BY <1>4, CallersLeaveCleanly, SchedulePreservesInv DEF block_yield
<1>5. CASE task_exit
  BY <1>5, CallersLeaveCleanly, SchedulePreservesInv DEF task_exit, scheduler_exit, InOwnCode
<1>6. CASE create_return
  BY <1>6, OnlyContextPreservesInv DEF create_return, OnlyContext
<1>7. ASSUME NEW entry \in Entries, task_create(entry)
      PROVE  IndInv'
  BY <1>7, CreatePreservesInv
<1>8. ASSUME NEW entry \in Entries, task_create_fails(entry)
      PROVE  IndInv'
  BY <1>8, OnlyContextPreservesInv DEF task_create_fails, OnlyContext, InOwnCode
<1>9. ASSUME NEW wanted \in Slots, task_unblock(wanted)
      PROVE  IndInv'
  BY <1>9, UnblockPreservesInv
<1>10. ASSUME NEW wanted \in Slots, task_unblock_fails(wanted)
       PROVE  IndInv'
  BY <1>10, OnlyContextPreservesInv DEF task_unblock_fails, OnlyContext, InOwnCode
<1>11. CASE UNCHANGED vars
  BY <1>11, ZenonT(30) DEF vars, IndInv, TypeOK, IdsInOrder, Live, CurrentRuns, OnHomeStack, HomeStack
<1> QED BY <1>1, <1>2, <1>3, <1>4, <1>5, <1>6, <1>7, <1>8, <1>9, <1>10, <1>11 DEF Next

\* It holds always.
LEMMA InvariantHolds == Spec => []IndInv
BY InitInv, NextPreservesInv, PTL DEF Spec

-----------------------------------------------------------------------------
(***************************************************************************)
(* Consequences of the invariant.                                          *)
(***************************************************************************)

\* Type correctness: no index, id or tick count of the scheduler leaves its
\* range; in particular taskStacks[slot->id - 1] is always inside taskStacks.
THEOREM TypeCorrect == Spec => []TypeOK
BY InvariantHolds, PTL DEF IndInv

\* In every reachable state of scheduler.c the CPU is on the stack of curTask,
\* the context of every other live task is on its own stack, and no exited
\* context can be resumed.
THEOREM ContextsAreSafe == Spec => []ContextIntegrity
<1>1. IndInv => ContextIntegrity
  <2> SUFFICES ASSUME IndInv PROVE ContextIntegrity
    OBVIOUS
  <2>1. /\ TypeOK /\ IdsInOrder /\ curTask \in Tasks
        /\ Live(curTask)
    BY DEF IndInv, TypeOK, CurrentRuns, Live, TASK_RUNNING, TASK_BLOCKED, TASK_TERMINATED
  <2>2. \A t \in Tasks : Live(t) => OwnStack(t) = HomeStack(t)
    BY <2>1, OwnIsHome
  <2>3. sp = OwnStack(curTask)
    BY <2>1, <2>2 DEF IndInv, OnHomeStack
  <2>4. \A t \in Tasks \ {curTask} : Live(t) => esp[t] = OwnStack(t)
    BY <2>2, ZenonT(30) DEF IndInv, OnHomeStack
  <2>5. \A t, u \in Tasks : Live(t) /\ Live(u) /\ t # u => OwnStack(t) # OwnStack(u)
    BY <2>2, HomeStacksDiffer
  <2>6. \A t \in Tasks : Live(t) => Context(t).pc # "exited"
    BY <2>2 DEF Context, IndInv, OnHomeStack, GoodContext
  <2> QED BY <2>3, <2>4, <2>5, <2>6 DEF ContextIntegrity
<1> QED BY <1>1, InvariantHolds, PTL

\* Only curTask is RUNNING, and it is, except inside the unprotected window of
\* task_block.
THEOREM OnlyCurrentRuns == Spec => []CurrentRuns
BY InvariantHolds, PTL DEF IndInv

\* Reading slot->id after irq_restore returns the id the section assigned.
THEOREM CreateReturnsItsId == Spec => []ReturnedIdStable
<1>1. IndInv => ReturnedIdStable
  <2> SUFFICES ASSUME IndInv, NEW t \in Tasks, Live(t), Context(t).pc = "created"
               PROVE  Context(t).id # 0 /\ id[Context(t).slot] = Context(t).id
    BY DEF ReturnedIdStable
  <2>1. OwnStack(t) = HomeStack(t)
    BY OwnIsHome DEF IndInv
  <2>2. GoodContext(Context(t), id)
    BY <2>1, ZenonT(30) DEF Context, IndInv, OnHomeStack
  <2> QED BY <2>2, ZenonT(30) DEF GoodContext
<1> QED BY <1>1, InvariantHolds, PTL

\* Slot s has id s from its first use on, so the MAX_USER_TASKS test of
\* task_create never refuses a slot the search found.
THEOREM IdsAreSlots == Spec => []IdsFollowSlots
<1>1. IndInv => IdsFollowSlots
  <2> SUFFICES ASSUME IndInv PROVE IdsFollowSlots
    OBVIOUS
  <2>1. ASSUME NEW s \in UserSlots, FirstFree(s)
        PROVE  NewId(s) - 1 < MaxUserTasks
    <3>0. /\ s \in 1 .. MaxTasks - 1 /\ nextTaskID \in 1 .. MaxTasks
          /\ id[s] = IF s < nextTaskID THEN s ELSE 0
      BY SchedulerAssumption DEF UserSlots, IndInv, TypeOK, IdsInOrder
    <3>1. CASE s < nextTaskID
      BY <3>0, <3>1, SchedulerAssumption DEF NewId, MaxUserTasks
    <3>2. CASE s >= nextTaskID
      BY <3>0, <3>2, SchedulerAssumption DEF NewId, MaxUserTasks
    <3> QED BY <3>0, <3>1, <3>2
  <2> QED BY <2>1 DEF IndInv, IdsInOrder, IdsFollowSlots
<1> QED BY <1>1, InvariantHolds, PTL

-----------------------------------------------------------------------------
(***************************************************************************)
(* The idle task never leaves its hlt loop, and has the CPU only when no   *)
(* slot is ready.                                                          *)
(***************************************************************************)
IdleInv ==
  /\ Context(idleTask).pc = "entry"
  /\ state[idleTask] = IF curTask = idleTask THEN TASK_RUNNING ELSE TASK_READY
  /\ IdleOnlyWhenNoneReady

\* scheduler_schedule picks the idle task only if no task is ready.
LEMMA ScheduleIdle ==
  ASSUME IndInv, IdleInv, NEW st, NEW frame, LeavesCleanly(st, frame),
         curTask = idleTask => frame.pc = "entry" /\ st = state,
         scheduler_schedule(st, frame)
  PROVE  IdleInv'
<1> DEFINE d == Demote(st)
<1>1. PICK t \in Tasks :
        /\ SwitchTo(t, d)
        /\ \/ t \in Slots /\ d[t] = TASK_READY
           \/ t = idleTask /\ \A s \in Slots : d[s] # TASK_READY
  BY ScheduleSwitches
<1>2. IndInv'
  BY SchedulePreservesInv
<1>3. /\ curTask' = t
      /\ state' = [d EXCEPT ![t] = TASK_RUNNING]
      /\ stackMem' = [stackMem EXCEPT ![sp] = frame]
      /\ ctx' = stackMem'[sp']
      /\ sp = HomeStack(curTask) /\ sp' = HomeStack(t)
      /\ curTask \in Tasks /\ idleTask \in Tasks /\ idleTask \notin Slots
      /\ stackMem \in [Stacks -> Contexts] /\ st \in [Tasks -> TaskStates]
  <2>1. curTask' = t /\ state' = [d EXCEPT ![t] = TASK_RUNNING] /\ ctx' = stackMem'[sp']
    BY <1>1 DEF SwitchTo, Resume
  <2>2. stackMem' = [stackMem EXCEPT ![sp] = frame]
    BY DEF scheduler_schedule
  <2>3. sp = HomeStack(curTask) /\ sp' = HomeStack(t)
    BY <1>2, <2>1 DEF IndInv, OnHomeStack, HomeStack
  <2>4. curTask \in Tasks /\ stackMem \in [Stacks -> Contexts] /\ st \in [Tasks -> TaskStates]
    BY DEF IndInv, TypeOK, LeavesCleanly
  <2>5. idleTask \in Tasks /\ idleTask \notin Slots
    BY SchedulerAssumption DEF Tasks, Slots, idleTask
  <2> QED BY <2>1, <2>2, <2>3, <2>4, <2>5
<1>4. OwnStack(idleTask) = HomeStack(idleTask) /\ OwnStack(idleTask)' = HomeStack(idleTask)
  BY DEF OwnStack, HomeStack
<1>5. stackMem'[HomeStack(idleTask)].pc = "entry"
  <2>1. CASE curTask = idleTask
    BY <1>3, <2>1, HomeStacksDiffer
  <2>2. CASE curTask # idleTask
    BY <1>3, <1>4, <2>2, HomeStacksDiffer DEF IdleInv, Context
  <2> QED BY <2>1, <2>2
<1>6. Context(idleTask)'.pc = "entry"
  BY <1>3, <1>4, <1>5 DEF Context
<1>7. IdleOnlyWhenNoneReady'
  <2> SUFFICES ASSUME t = idleTask, NEW s \in Slots
               PROVE  state'[s] # TASK_READY
    BY <1>3 DEF IdleOnlyWhenNoneReady
  <2>1. s \in Tasks /\ s # idleTask /\ state'[s] = d[s]
    BY <1>3 DEF Tasks, Demote
  <2> QED BY <1>1, <1>3, <2>1
<1>8. state'[idleTask] = IF curTask' = idleTask THEN TASK_RUNNING ELSE TASK_READY
  <2>1. d[idleTask] = TASK_READY
    BY <1>3 DEF IdleInv, LeavesCleanly, Demote
  <2>2. d \in [Tasks -> TaskStates]
    BY <1>3 DEF Demote, TaskStates
  <2> QED BY <1>3, <2>1, <2>2
<1> QED BY <1>6, <1>7, <1>8 DEF IdleInv

\* IdleInv holds always.
LEMMA IdleInvHolds == Spec => []IdleInv
<1>1. Init => IdleInv
  <2> SUFFICES ASSUME Init PROVE IdleInv
    OBVIOUS
  <2>1. idleTask # KernelTask /\ idleStack \in Stacks
    BY SchedulerAssumption DEF idleTask, KernelTask, Stacks, idleStack, MaxUserTasks
  <2>2. Context(idleTask) = At("entry")
    BY <2>1 DEF Init, Context, OwnStack
  <2>3. state[idleTask] = TASK_READY /\ curTask # idleTask
    BY <2>1 DEF Init, Tasks
  <2> QED BY <2>2, <2>3 DEF IdleInv, IdleOnlyWhenNoneReady, At
<1>2. IndInv /\ IdleInv /\ [Next]_vars => IdleInv'
  <2> SUFFICES ASSUME IndInv, IdleInv, [Next]_vars PROVE IdleInv'
    OBVIOUS
  <2>1. curTask = idleTask => ctx.pc = "entry"
    BY DEF IdleInv, Context
  <2>2. ASSUME NEW st, NEW frame, LeavesCleanly(st, frame), scheduler_schedule(st, frame),
               curTask = idleTask => frame.pc = "entry" /\ st = state
        PROVE  IdleInv'
    BY <2>2, ScheduleIdle
  <2>3. ASSUME curTask # idleTask, curTask' = curTask, state'[idleTask] = state[idleTask],
               stackMem'[idleStack] = stackMem[idleStack]
        PROVE  IdleInv'
    BY <2>3 DEF IdleInv, IdleOnlyWhenNoneReady, Context, OwnStack
  <2>4. CASE Tick
    <3>1. CASE UNCHANGED <<id, state, esp, curTask, nextTaskID, stackMem, sp, ctx>>
      BY <3>1 DEF IdleInv, IdleOnlyWhenNoneReady, Context, OwnStack
    <3>2. CASE scheduler_schedule(state, ctx)
      BY <2>1, <2>2, <3>2, CallersLeaveCleanly
    <3> QED BY <2>4, <3>1, <3>2 DEF Tick
  <2>5. CASE task_yield
    BY <2>2, <2>5, CallersLeaveCleanly DEF task_yield, InOwnCode
  <2>6. CASE task_block
    BY <2>3, <2>6 DEF task_block, InOwnCode
  <2>7. CASE block_yield
    BY <2>1, <2>2, <2>7, CallersLeaveCleanly DEF block_yield
  <2>8. CASE task_exit
    BY <2>2, <2>8, CallersLeaveCleanly DEF task_exit, scheduler_exit, InOwnCode
  <2>9. CASE create_return
    BY <2>1, <2>3, <2>9 DEF create_return
  <2>10. ASSUME NEW entry \in Entries, task_create(entry)
         PROVE  IdleInv'
    <3>1. PICK s \in UserSlots :
            \/ stackMem' = stackMem
            \/ stackMem' = [stackMem EXCEPT ![NewId(s) - 1] = At("entry")]
      BY <2>10 DEF task_create
    <3>2. stackMem'[idleStack].pc = "entry"
      <4>1. stackMem[idleStack].pc = "entry" /\ idleStack \in Stacks /\ stackMem \in [Stacks -> Contexts]
        BY <2>10, SchedulerAssumption
        DEF task_create, InOwnCode, IdleInv, Context, OwnStack, IndInv, TypeOK, Stacks, idleStack,
            MaxUserTasks
      <4> QED BY <3>1, <4>1 DEF At
    <3> QED BY <2>10, <3>2
        DEF task_create, InOwnCode, IdleInv, IdleOnlyWhenNoneReady, Context, OwnStack
  <2>11. ASSUME NEW entry \in Entries, task_create_fails(entry)
         PROVE  IdleInv'
    BY <2>3, <2>11 DEF task_create_fails, InOwnCode
  <2>12. ASSUME NEW wanted \in Slots, task_unblock(wanted)
         PROVE  IdleInv'
    <3>1. PICK s \in UserSlots : state' = [state EXCEPT ![s] = TASK_READY]
      BY <2>12, ZenonT(30) DEF task_unblock, Unblockable
    <3>2. idleTask \notin UserSlots
      BY SchedulerAssumption DEF idleTask, UserSlots
    <3>3. state'[idleTask] = state[idleTask]
      BY <3>1, <3>2 DEF IndInv, TypeOK, Tasks
    <3> QED BY <2>3, <2>12, <3>3 DEF task_unblock, InOwnCode
  <2>13. ASSUME NEW wanted \in Slots, task_unblock_fails(wanted)
         PROVE  IdleInv'
    BY <2>3, <2>13 DEF task_unblock_fails, InOwnCode
  <2>14. CASE UNCHANGED vars
    BY <2>14 DEF vars, IdleInv, IdleOnlyWhenNoneReady, Context, OwnStack
  <2> QED BY <2>4, <2>5, <2>6, <2>7, <2>8, <2>9, <2>10, <2>11, <2>12, <2>13, <2>14 DEF Next
<1> QED BY <1>1, <1>2, InvariantHolds, PTL DEF Spec

\* The idle task has the CPU only while no task is ready (the last branch of
\* scheduler_schedule, and the fact that nothing but a task wakes a task).
THEOREM IdleIsLastResort == Spec => []IdleOnlyWhenNoneReady
BY IdleInvHolds, PTL DEF IdleInv

-----------------------------------------------------------------------------
(***************************************************************************)
(* Action properties.                                                      *)
(***************************************************************************)

\* No step of an interrupt handler or of another task changes the stack or the
\* saved esp of a live task that is switched out.
THEOREM SavedContextsAreUntouched == Spec => SavedContextUntouched
<1> DEFINE Untouched ==
      \A t \in Tasks : t # curTask /\ t # curTask' /\ Live(t)
        => esp'[t] = esp[t] /\ stackMem'[OwnStack(t)] = stackMem[OwnStack(t)]
<1>1. IndInv /\ [Next]_vars => Untouched
  <2> SUFFICES ASSUME IndInv, [Next]_vars, NEW t \in Tasks, t # curTask, Live(t)
               PROVE  esp'[t] = esp[t] /\ stackMem'[OwnStack(t)] = stackMem[OwnStack(t)]
    BY ZenonT(30)
  <2>1. /\ OwnStack(t) = HomeStack(t) /\ HomeStack(t) \in Stacks
        /\ curTask \in Tasks /\ sp = HomeStack(curTask) /\ HomeStack(t) # sp
        /\ esp \in [Tasks -> Stacks \cup {NoContext}] /\ stackMem \in [Stacks -> Contexts]
    BY OwnIsHome, HomeStacksDiffer DEF IndInv, TypeOK, OnHomeStack
  <2>2. ASSUME NEW st, NEW frame, scheduler_schedule(st, frame)
        PROVE  esp'[t] = esp[t] /\ stackMem'[OwnStack(t)] = stackMem[OwnStack(t)]
    BY <2>1, <2>2 DEF scheduler_schedule
  <2>3. ASSUME UNCHANGED <<esp, stackMem>>
        PROVE  esp'[t] = esp[t] /\ stackMem'[OwnStack(t)] = stackMem[OwnStack(t)]
    BY <2>3
  <2>4. CASE Tick
    BY <2>2, <2>3, <2>4 DEF Tick
  <2>5. CASE task_yield \/ block_yield \/ task_exit
    BY <2>2, <2>5 DEF task_yield, block_yield, task_exit, scheduler_exit
  <2>6. CASE task_block \/ create_return
    BY <2>3, <2>6 DEF task_block, create_return
  <2>7. ASSUME NEW entry \in Entries, task_create(entry)
        PROVE  esp'[t] = esp[t] /\ stackMem'[OwnStack(t)] = stackMem[OwnStack(t)]
    <3>1. PICK s \in UserSlots :
            /\ FirstFree(s)
            /\ stackMem' = stackMem \/ stackMem' = [stackMem EXCEPT ![NewId(s) - 1] = At("entry")]
            /\ \E e : esp' = [esp EXCEPT ![s] = e]
      BY <2>7, ZenonT(30) DEF task_create
    <3>2. s # t
      BY <3>1 DEF FirstFree, IsFree, Live
    <3>3. NewId(s) - 1 # HomeStack(t)
      <4>1. s \in 1 .. MaxTasks - 1 /\ nextTaskID \in 1 .. MaxTasks
        BY SchedulerAssumption DEF UserSlots, IndInv, TypeOK
      <4>2. NewId(s) = IF s < nextTaskID THEN s ELSE nextTaskID
        BY <4>1 DEF NewId, IndInv, IdsInOrder
      <4>3. t \in UserSlots => t < nextTaskID /\ t \in 1 .. MaxTasks - 1
        BY <4>1, SchedulerAssumption DEF IndInv, IdsInOrder, UserSlots
      <4>4. \/ t \in UserSlots /\ HomeStack(t) = t - 1
            \/ HomeStack(t) \in {KernelStack, idleStack}
        BY SchedulerAssumption DEF HomeStack, Tasks, Slots, UserSlots, KernelTask, idleTask
      <4>5. NewId(s) \in 1 .. MaxTasks - 1 /\ (s < nextTaskID => NewId(s) = s)
            /\ (s >= nextTaskID => NewId(s) = nextTaskID)
        <5>1. CASE s < nextTaskID
          BY <4>1, <4>2, <5>1, SchedulerAssumption
        <5>2. CASE s >= nextTaskID
          BY <4>1, <4>2, <5>2, SchedulerAssumption
        <5> QED BY <4>1, <5>1, <5>2
      <4>6. CASE t \in UserSlots /\ HomeStack(t) = t - 1
        BY <3>2, <4>1, <4>3, <4>5, <4>6
      <4>7. CASE HomeStack(t) \in {KernelStack, idleStack}
        BY <4>5, <4>7, SchedulerAssumption DEF KernelStack, idleStack, MaxUserTasks
      <4> QED BY <4>4, <4>6, <4>7
    <3> QED BY <2>1, <3>1, <3>2, <3>3
  <2>8. ASSUME NEW entry \in Entries, task_create_fails(entry)
        PROVE  esp'[t] = esp[t] /\ stackMem'[OwnStack(t)] = stackMem[OwnStack(t)]
    BY <2>3, <2>8 DEF task_create_fails
  <2>9. ASSUME NEW wanted \in Slots, task_unblock(wanted) \/ task_unblock_fails(wanted)
        PROVE  esp'[t] = esp[t] /\ stackMem'[OwnStack(t)] = stackMem[OwnStack(t)]
    BY <2>3, <2>9 DEF task_unblock, task_unblock_fails
  <2>10. CASE UNCHANGED vars
    BY <2>3, <2>10 DEF vars
  <2> QED BY <2>4, <2>5, <2>6, <2>7, <2>8, <2>9, <2>10, ZenonT(30) DEF Next
<1>2. IndInv /\ [Next]_vars => [Untouched]_vars
  BY <1>1
<1> QED BY <1>2, InvariantHolds, PTL DEF Spec, SavedContextUntouched

\* The number of slots between the current task and t, counted around.
LEMMA DistanceValue ==
  ASSUME NEW c \in Tasks, NEW t \in Slots
  PROVE  LET k == IF c \in Slots THEN c ELSE 0 IN
         Distance(c, t) = IF t > k THEN t - k - 1 ELSE t - k - 1 + MaxTasks
<1> DEFINE k == IF c \in Slots THEN c ELSE 0
<1>1. k \in 0 .. MaxTasks - 1 /\ t \in 0 .. MaxTasks - 1 /\ MaxTasks \in Nat \ {0}
  BY SchedulerAssumption DEF Slots
<1>2. PICK a \in Int : a = t - k + MaxTasks - 1 /\ Distance(c, t) = a % MaxTasks
  BY <1>1 DEF Distance
<1> HIDE DEF k
<1>3. CASE t > k
  <2>1. a \in MaxTasks .. 2 * MaxTasks - 1
    BY <1>1, <1>2, <1>3
  <2>2. a % MaxTasks = a - MaxTasks
    BY <1>1, <2>1, ModOnce
  <2> QED BY <1>1, <1>2, <1>3, <2>2 DEF k
<1>4. CASE t <= k
  <2>1. a \in 0 .. MaxTasks - 1
    BY <1>1, <1>2, <1>4
  <2>2. a % MaxTasks = a
    BY <1>1, <2>1, ModSmall
  <2> QED BY <1>1, <1>2, <1>4, <2>2 DEF k
<1> QED BY <1>1, <1>3, <1>4

\* Each switch of scheduler_schedule brings a task that stays ready nearer to its turn.
LEMMA ScheduleInOrder ==
  ASSUME IndInv, NEW st, NEW frame, LeavesCleanly(st, frame), scheduler_schedule(st, frame),
         NEW t \in Slots, state[t] = TASK_READY, state'[t] = TASK_READY
  PROVE  Distance(curTask', t) < Distance(curTask, t)
<1> DEFINE d == Demote(st)
<1>1. curTask \in Tasks /\ t \in Tasks /\ t # curTask /\ d[t] = TASK_READY
  BY DEF IndInv, TypeOK, Tasks, CurrentRuns, LeavesCleanly, Demote,
     TASK_READY, TASK_RUNNING, TASK_BLOCKED
<1>2. ~NoneReady(d)
  BY <1>1, SearchCoversSlots DEF NoneReady
<1>3. PICK i \in ScanRange :
        /\ \A j \in 1 .. i - 1 : d[nextIdx(j)] # TASK_READY
        /\ SwitchTo(nextIdx(i), d)
  BY <1>2, ZenonT(30) DEF scheduler_schedule
<1>4. curTask' = nextIdx(i) /\ nextIdx(i) # t
  <2>1. curTask' = nextIdx(i) /\ state' = [d EXCEPT ![nextIdx(i)] = TASK_RUNNING]
    BY <1>3 DEF SwitchTo
  <2>2. d \in [Tasks -> TaskStates]
    BY <1>1 DEF LeavesCleanly, Demote, TaskStates
  <2> QED BY <1>1, <2>1, <2>2 DEF TASK_RUNNING, TASK_READY
<1>5. PICK k \in ScanRange : nextIdx(k) = t
  BY <1>1, SearchCoversSlots
<1>6. /\ i \in 1 .. MaxTasks /\ k \in 1 .. MaxTasks /\ MaxTasks \in Nat
      /\ curIdx \in 0 .. MaxTasks - 1 /\ nextIdx(i) \in Slots
  BY <1>1, SchedulerAssumption, NextIdxInSlots DEF ScanRange, curIdx, Slots
<1>7. i < k
  BY <1>1, <1>3, <1>4, <1>5, <1>6
<1>8. /\ nextIdx(i) = IF curIdx + i < MaxTasks THEN curIdx + i ELSE curIdx + i - MaxTasks
      /\ t = IF curIdx + k < MaxTasks THEN curIdx + k ELSE curIdx + k - MaxTasks
  BY <1>1, <1>5, NextIdxValue
<1>9. Distance(curTask, t) = IF t > curIdx THEN t - curIdx - 1 ELSE t - curIdx - 1 + MaxTasks
  BY <1>1, DistanceValue DEF curIdx
<1>10. Distance(nextIdx(i), t)
         = IF t > nextIdx(i) THEN t - nextIdx(i) - 1 ELSE t - nextIdx(i) - 1 + MaxTasks
  BY <1>6, DistanceValue DEF Tasks
<1> DEFINE n == nextIdx(i)
<1> HIDE DEF n
<1>11. /\ n = IF curIdx + i < MaxTasks THEN curIdx + i ELSE curIdx + i - MaxTasks
       /\ Distance(n, t) = IF t > n THEN t - n - 1 ELSE t - n - 1 + MaxTasks
       /\ n # t /\ n \in 0 .. MaxTasks - 1 /\ t \in 0 .. MaxTasks - 1
  BY <1>4, <1>6, <1>8, <1>10 DEF n, Slots
<1>12. Distance(n, t) < Distance(curTask, t)
  BY <1>6, <1>7, <1>8, <1>9, <1>11
<1> QED BY <1>4, <1>12 DEF n

\* Round robin: whenever the CPU goes to another task, every task that stays
\* ready has fewer slots in front of it than before.
THEOREM RoundRobinOrder == Spec => NoOvertaking
<1> DEFINE InOrder ==
      curTask' # curTask =>
        \A t \in Slots : state[t] = TASK_READY /\ state'[t] = TASK_READY
          => Distance(curTask', t) < Distance(curTask, t)
<1>1. IndInv /\ [Next]_vars => InOrder
  <2> SUFFICES ASSUME IndInv, [Next]_vars, curTask' # curTask,
                      NEW t \in Slots, state[t] = TASK_READY, state'[t] = TASK_READY
               PROVE  Distance(curTask', t) < Distance(curTask, t)
    OBVIOUS
  <2>1. ASSUME NEW st, NEW frame, LeavesCleanly(st, frame), scheduler_schedule(st, frame)
        PROVE  Distance(curTask', t) < Distance(curTask, t)
    BY <2>1, ScheduleInOrder
  <2>2. CASE Tick \/ task_yield \/ block_yield \/ task_exit
    BY <2>1, <2>2, CallersLeaveCleanly
    DEF Tick, task_yield, block_yield, task_exit, scheduler_exit, InOwnCode
  <2>3. CASE ~(Tick \/ task_yield \/ block_yield \/ task_exit)
    <3>1. curTask' = curTask
      BY <2>3, ZenonT(30) DEF Next, vars, task_block, create_return, task_create, task_create_fails,
         task_unblock, task_unblock_fails
    <3> QED BY <3>1
  <2> QED BY <2>2, <2>3
<1>2. IndInv /\ [Next]_vars => [InOrder]_vars
  BY <1>1
<1> QED BY <1>2, InvariantHolds, PTL DEF Spec, NoOvertaking

\* Once idle_task_entry has the CPU no other task ever gets it back.
THEOREM IdleNeverEnds == Spec => IdleIsFinal
<1>1. IndInv /\ IdleInv /\ [Next]_vars => [curTask = idleTask => curTask' = idleTask]_vars
  <2> SUFFICES ASSUME IndInv, IdleInv, [Next]_vars, curTask = idleTask
               PROVE  curTask' = idleTask
    OBVIOUS
  <2>1. ctx.pc = "entry"
    BY DEF IdleInv, Context
  <2>2. CASE scheduler_schedule(state, ctx)
    <3>1. PICK t \in Tasks :
            /\ SwitchTo(t, Demote(state))
            /\ (t \in Slots /\ Demote(state)[t] = TASK_READY) \/ t = idleTask
      BY <2>2, ScheduleSwitches
    <3>2. \A s \in Slots : s # idleTask /\ s \in Tasks
      BY SchedulerAssumption DEF Slots, idleTask, Tasks
    <3>3. \A s \in Slots : Demote(state)[s] # TASK_READY
      BY <3>2 DEF IdleInv, IdleOnlyWhenNoneReady, Demote, IndInv, TypeOK
    <3> QED BY <3>1, <3>3 DEF SwitchTo
  <2>3. CASE ~scheduler_schedule(state, ctx)
    <3>1. curTask' = curTask
      BY <2>1, <2>3, ZenonT(30) DEF Next, vars, Tick, task_yield, task_block, block_yield, task_exit,
         create_return, task_create, task_create_fails, task_unblock, task_unblock_fails, InOwnCode
    <3> QED BY <3>1
  <2> QED BY <2>2, <2>3
<1> QED BY <1>1, InvariantHolds, IdleInvHolds, PTL DEF Spec, IdleIsFinal

\* task_unblock never reaches slot 0: a blocked kernel task stays blocked.
THEOREM KernelNeverWoken == Spec => KernelBlockIsFinal
<1> DEFINE Stays == state[KernelTask] = TASK_BLOCKED => state'[KernelTask] = TASK_BLOCKED
<1>1. IndInv /\ [Next]_vars => Stays
  <2> SUFFICES ASSUME IndInv, [Next]_vars, state[KernelTask] = TASK_BLOCKED
               PROVE  state'[KernelTask] = TASK_BLOCKED
    OBVIOUS
  <2> USE DEF TASK_READY, TASK_RUNNING, TASK_BLOCKED, TASK_TERMINATED
  <2>0. /\ KernelTask \in Tasks /\ KernelTask # idleTask /\ KernelTask \notin UserSlots
        /\ state \in [Tasks -> TaskStates] /\ curTask \in Tasks
    BY SchedulerAssumption DEF KernelTask, Tasks, Slots, idleTask, UserSlots, IndInv, TypeOK
  <2>1. ASSUME NEW st, NEW frame, scheduler_schedule(st, frame), st \in [Tasks -> TaskStates],
               st[KernelTask] = TASK_BLOCKED
        PROVE  state'[KernelTask] = TASK_BLOCKED
    <3>1. PICK t \in Tasks :
            /\ SwitchTo(t, Demote(st))
            /\ (t \in Slots /\ Demote(st)[t] = TASK_READY) \/ t = idleTask
      BY <2>1, ScheduleSwitches
    <3>2. Demote(st) \in [Tasks -> TaskStates] /\ Demote(st)[KernelTask] = TASK_BLOCKED
      BY <2>0, <2>1 DEF Demote, TaskStates
    <3> QED BY <2>0, <3>1, <3>2 DEF SwitchTo
  <2>2. InOwnCode => curTask # KernelTask
    BY DEF InOwnCode, IndInv, CurrentRuns
  <2>3. CASE Tick
    BY <2>0, <2>1, <2>3 DEF Tick
  <2>4. CASE task_yield \/ block_yield
    BY <2>0, <2>1, <2>4 DEF task_yield, block_yield
  <2>5. CASE task_exit
    <3>1. [state EXCEPT ![curTask] = TASK_TERMINATED] \in [Tasks -> TaskStates]
      BY <2>0 DEF TaskStates
    <3> QED BY <2>0, <2>1, <2>2, <2>5, <3>1, ZenonT(30) DEF task_exit, scheduler_exit
  <2>6. CASE task_block
    BY <2>0, <2>2, <2>6 DEF task_block
  <2>7. ASSUME NEW entry \in Entries, task_create(entry)
        PROVE  state'[KernelTask] = TASK_BLOCKED
    <3>1. PICK s \in UserSlots : \E v : state' = [state EXCEPT ![s] = v]
      BY <2>7, ZenonT(30) DEF task_create
    <3> QED BY <2>0, <3>1
  <2>8. ASSUME NEW wanted \in Slots, task_unblock(wanted)
        PROVE  state'[KernelTask] = TASK_BLOCKED
    <3>1. PICK s \in UserSlots : state' = [state EXCEPT ![s] = TASK_READY]
      BY <2>8, ZenonT(30) DEF task_unblock, Unblockable
    <3> QED BY <2>0, <3>1
  <2>9. CASE UNCHANGED state
    BY <2>9
  <2> QED BY <2>3, <2>4, <2>5, <2>6, <2>7, <2>8, <2>9
     , ZenonT(30) DEF Next, vars, create_return, task_create_fails, task_unblock_fails
<1>2. IndInv /\ [Next]_vars => [Stays]_vars
  BY <1>1
<1> QED BY <1>2, InvariantHolds, PTL DEF Spec, KernelBlockIsFinal

-----------------------------------------------------------------------------
(***************************************************************************)
(* Refinement.                                                             *)
(***************************************************************************)
\* What scheduler_schedule does is a dispatch of TaskLifecycle.
LEMMA ScheduleDispatches ==
  ASSUME IndInv, IdleInv, NEW st, NEW frame, LeavesCleanly(st, frame),
         scheduler_schedule(st, frame),
         \/ st = state
         \/ InOwnCode /\ st = [state EXCEPT ![curTask] = TASK_TERMINATED]
  PROVE  \E t \in Tasks : Lifecycle!Dispatch(t)
<1> USE DEF TASK_READY, TASK_RUNNING, TASK_BLOCKED, TASK_TERMINATED
<1> DEFINE d == Demote(st)
<1>1. PICK t \in Tasks :
        /\ SwitchTo(t, d)
        /\ \/ t \in Slots /\ d[t] = TASK_READY
           \/ t = idleTask /\ \A s \in Slots : d[s] # TASK_READY
  BY ScheduleSwitches
<1>2. /\ curTask' = t /\ state' = [d EXCEPT ![t] = TASK_RUNNING]
      /\ idleTask \in Tasks /\ idleTask \notin Slots /\ curTask \in Tasks
      /\ state \in [Tasks -> TaskStates] /\ st \in [Tasks -> TaskStates]
  BY <1>1, SchedulerAssumption
  DEF SwitchTo, Tasks, Slots, idleTask, IndInv, TypeOK, LeavesCleanly
<1>3. d[t] = TASK_READY
  <2>1. st[idleTask] = IF curTask = idleTask THEN TASK_RUNNING ELSE TASK_READY
    BY <1>2 DEF IdleInv, InOwnCode
  <2>2. d[idleTask] = TASK_READY
    BY <1>2, <2>1 DEF Demote
  <2> QED BY <1>1, <2>2
<1>4. t = idleTask => \A s \in Slots : d[s] # TASK_READY
  BY <1>1, <1>2
<1>5. CASE st = state
  <2>1. d = Lifecycle!Kept
    BY <1>5 DEF Demote, Lifecycle!Kept
  <2> QED BY <1>2, <1>3, <1>4, <2>1, ZenonT(30) DEF Lifecycle!Dispatch, Lifecycle!HandTo
<1>6. CASE InOwnCode /\ st = [state EXCEPT ![curTask] = TASK_TERMINATED]
  <2>1. d = Lifecycle!Exited
    BY <1>2, <1>6, ZenonT(30) DEF Demote, Lifecycle!Exited
  <2>2. Lifecycle!Running
    BY <1>6 DEF Lifecycle!Running, InOwnCode, IndInv, CurrentRuns
  <2> QED BY <1>2, <1>3, <1>4, <2>1, <2>2, ZenonT(30) DEF Lifecycle!Dispatch, Lifecycle!HandTo
<1> QED BY <1>5, <1>6

\* The safety part of ImplementsLifecycle: every step of the scheduler, with
\* its stacks, ids and slot order, is a step of the task life cycle or leaves
\* it unchanged.
THEOREM SchedulerRefinesLifecycle == Spec => Lifecycle!Spec
<1>1. Init => Lifecycle!Init
  BY DEF Init, Lifecycle!Init, Tasks, TASK_READY, TASK_RUNNING, TASK_TERMINATED
<1>2. IndInv /\ IdleInv /\ [Next]_vars => [Lifecycle!Next]_(Lifecycle!lifecycleVars)
  <2> SUFFICES ASSUME IndInv, IdleInv, [Next]_vars
               PROVE  Lifecycle!Next \/ UNCHANGED <<state, curTask>>
    BY DEF Lifecycle!lifecycleVars
  <2> USE DEF TASK_READY, TASK_RUNNING, TASK_BLOCKED, TASK_TERMINATED
  <2>1. ASSUME \E t \in Tasks : Lifecycle!Dispatch(t)
        PROVE  Lifecycle!Next
    BY <2>1 DEF Lifecycle!Next, Tasks
  <2>2. InOwnCode => Lifecycle!Running
    BY DEF InOwnCode, Lifecycle!Running, IndInv, CurrentRuns
  <2>3. CASE Tick
    BY <2>1, <2>3, CallersLeaveCleanly, ScheduleDispatches, ZenonT(30) DEF Tick
  <2>4. CASE task_yield \/ block_yield
    BY <2>1, <2>4, CallersLeaveCleanly, ScheduleDispatches DEF task_yield, block_yield
  <2>5. CASE task_exit
    BY <2>1, <2>5, CallersLeaveCleanly, ScheduleDispatches
    DEF task_exit, scheduler_exit, InOwnCode
  <2>6. CASE task_block
    BY <2>2, <2>6 DEF task_block, Lifecycle!Next, Lifecycle!Block
  <2>7. ASSUME NEW entry \in Entries, task_create(entry)
        PROVE  Lifecycle!Next \/ UNCHANGED <<state, curTask>>
    <3>1. PICK s \in UserSlots :
            /\ FirstFree(s) /\ curTask' = curTask
            /\ \/ state' = [state EXCEPT ![s] = TASK_READY]
               \/ state' = [state EXCEPT ![s] = @]
      BY <2>7, ZenonT(30) DEF task_create
    <3>2. s \in Slots /\ s # KernelTask
      BY SchedulerAssumption DEF Slots, UserSlots, KernelTask
    <3>3. state[s] = TASK_TERMINATED /\ state \in [Tasks -> TaskStates]
      BY <3>1 DEF FirstFree, IsFree, IndInv, TypeOK
    <3>4. CASE state' = [state EXCEPT ![s] = TASK_READY]
      BY <2>2, <2>7, <3>1, <3>2, <3>3, <3>4
     , ZenonT(30) DEF task_create, Lifecycle!Next, Lifecycle!Create
    <3>5. CASE state' = [state EXCEPT ![s] = @]
      BY <3>1, <3>3, <3>5
    <3> QED BY <3>1, <3>4, <3>5
  <2>8. ASSUME NEW wanted \in Slots, task_unblock(wanted)
        PROVE  Lifecycle!Next
    <3>1. PICK s \in UserSlots :
            state[s] = TASK_BLOCKED /\ state' = [state EXCEPT ![s] = TASK_READY]
      BY <2>8, ZenonT(30) DEF task_unblock, Unblockable
    <3>2. s \in Slots /\ s # KernelTask
      BY SchedulerAssumption DEF Slots, UserSlots, KernelTask
    <3> QED BY <2>2, <2>8, <3>1, <3>2, ZenonT(30) DEF task_unblock, Lifecycle!Next, Lifecycle!Wake
  <2>9. CASE UNCHANGED <<state, curTask>>
    BY <2>9
  <2> QED BY <2>3, <2>4, <2>5, <2>6, <2>7, <2>8, <2>9
     , ZenonT(30) DEF Next, vars, create_return, task_create_fails, task_unblock_fails
<1> QED BY <1>1, <1>2, InvariantHolds, IdleInvHolds, PTL DEF Spec, Lifecycle!Spec
==============================================================================
