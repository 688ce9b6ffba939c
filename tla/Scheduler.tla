------------------------------ MODULE Scheduler ------------------------------
(***************************************************************************)
(* The preemptive round-robin scheduler (kernel/scheduler/scheduler.c)     *)
(* together with the part of the interrupt path it depends on: the CPU     *)
(* pushes the interrupted context on the stack of the running task, the    *)
(* handler returns a pointer to a saved context, and isr_common resumes    *)
(* whatever context is stored there.                                       *)
(*                                                                         *)
(* Every step of this module is one stretch of code that no interrupt can  *)
(* split: an interrupt handler (the gates clear IF), a section between     *)
(* irq_save and irq_restore, or one store.  Between two steps IF is 1, so  *)
(* a timer interrupt (Tick) can come between any two of them.              *)
(***************************************************************************)
EXTENDS Integers

CONSTANTS
  MaxTasks,       \* MAX_TASKS, the length of tasks[]
  TimeSlice,      \* TIME_SLICE_MS, in timer ticks (the PIT runs at 1000 Hz)
  KernelMayStop   \* whether the kernel task may call task_block or task_exit;
                  \* kmain as shipped never does

ASSUME SchedulerAssumption ==
  /\ MaxTasks \in Nat /\ MaxTasks >= 2
  /\ TimeSlice \in Nat /\ TimeSlice >= 1
  /\ KernelMayStop \in BOOLEAN

TASK_READY      == "READY"
TASK_RUNNING    == "RUNNING"
TASK_BLOCKED    == "BLOCKED"
TASK_TERMINATED == "TERMINATED"
TaskStates == {TASK_READY, TASK_RUNNING, TASK_BLOCKED, TASK_TERMINATED}

MaxUserTasks == MaxTasks - 1
KernelTask   == 0
UserSlots    == 1 .. MaxTasks - 1
Slots        == 0 .. MaxTasks - 1      \* &tasks[0] .. &tasks[MAX_TASKS - 1]
idleTask     == MaxTasks               \* &idleTask, which is not in tasks[]
Tasks        == Slots \cup {idleTask}

(***************************************************************************)
(* Stacks.  taskStacks[i] is stack i; the kernel stack (0x9E000) and       *)
(* idleStack come after them, so an index past taskStacks hits another     *)
(* stack.  NoContext is an esp of 0.                                       *)
(***************************************************************************)
KernelStack == MaxUserTasks
idleStack   == MaxUserTasks + 1
Stacks      == 0 .. MaxUserTasks + 1
NoContext   == -1

(***************************************************************************)
(* A context (struct registers on a stack) is abstracted to the point of   *)
(* the code it resumes:                                                    *)
(*   "entry"    the first instruction of the task                          *)
(*   "running"  the task's own code, outside the scheduler's functions     *)
(*   "blocking" task_block, after the store and before int $49             *)
(*   "created"  task_create, after irq_restore and before slot->id is read *)
(*   "exited"   task_exit, after int $50                                   *)
(* slot and id are the locals of task_create at "created".                 *)
(***************************************************************************)
PCs      == {"entry", "running", "blocking", "created", "exited"}
Contexts == [pc : PCs, slot : Slots, id : 0 .. MaxTasks]
At(pc)   == [pc |-> pc, slot |-> 0, id |-> 0]

VARIABLES
  id, state, esp,    \* the fields of tasks[] and idleTask
  curTask,
  nextTaskID,
  schedulerTicks,
  stackMem,          \* the context stored on each stack
  sp,                \* the stack the CPU is on
  ctx                \* where on it the CPU is

vars == <<id, state, esp, curTask, nextTaskID, schedulerTicks, stackMem, sp, ctx>>

TypeOK ==
  /\ id \in [Slots -> 0 .. MaxTasks - 1]
  /\ state \in [Tasks -> TaskStates]
  /\ esp \in [Tasks -> Stacks \cup {NoContext}]
  /\ curTask \in Tasks
  /\ nextTaskID \in 1 .. MaxTasks
  /\ schedulerTicks \in 0 .. TimeSlice - 1
  /\ stackMem \in [Stacks -> Contexts]
  /\ sp \in Stacks
  /\ ctx \in Contexts

(***************************************************************************)
(* scheduler_init, called by kmain before sti: interrupts are still off.   *)
(* What the memory of the unused stacks holds does not matter.             *)
(***************************************************************************)
Init ==
  /\ id = [t \in Slots |-> 0]
  /\ state = [t \in Tasks |-> IF t = KernelTask THEN TASK_RUNNING
                              ELSE IF t = idleTask THEN TASK_READY
                              ELSE TASK_TERMINATED]
  /\ esp = [t \in Tasks |-> IF t = idleTask THEN idleStack ELSE NoContext]
  /\ curTask = KernelTask
  /\ nextTaskID = 1
  /\ schedulerTicks = 0
  /\ stackMem = [s \in Stacks |-> At("entry")]
  /\ sp = KernelStack
  /\ ctx = At("running")

-----------------------------------------------------------------------------
(***************************************************************************)
(* scheduler_schedule.  st is the state of the tasks when it is called and *)
(* frame the context the interrupt pushed.                                 *)
(***************************************************************************)

\* The index of the current task; 0 when the idle task is current.
curIdx == IF curTask \in Slots THEN curTask ELSE 0

MutNextIdxFixed(i) == i % MaxTasks
nextIdx(i) == (curIdx + i) % MaxTasks

MutScanShort == 1 .. MaxTasks - 2
ScanRange == 1 .. MaxTasks

MutDemoteNot(st) == st
Demote(st) == [st EXCEPT ![curTask] = IF @ = TASK_RUNNING THEN TASK_READY ELSE @]

\* isr_common: esp = eax, popa, iretd.
Resume(t) ==
  /\ sp' = esp'[t]
  /\ ctx' = stackMem'[esp'[t]]

SwitchTo(t, st) ==
  /\ curTask' = t
  /\ state' = [st EXCEPT ![t] = TASK_RUNNING]
  /\ Resume(t)

NoneReady(st) == \A i \in ScanRange : st[nextIdx(i)] # TASK_READY

scheduler_schedule(st, frame) ==
  LET demoted == Demote(st) IN
  /\ stackMem' = [stackMem EXCEPT ![sp] = frame]
  /\ esp' = [esp EXCEPT ![curTask] = sp]
  /\ schedulerTicks' = 0
  /\ \/ \E i \in ScanRange :
          /\ demoted[nextIdx(i)] = TASK_READY
          /\ \A j \in 1 .. i - 1 : demoted[nextIdx(j)] # TASK_READY
          /\ SwitchTo(nextIdx(i), demoted)
     \/ /\ NoneReady(demoted)
        /\ demoted[curTask] = TASK_READY
        /\ SwitchTo(curTask, demoted)
     \/ /\ NoneReady(demoted)
        /\ demoted[curTask] # TASK_READY
        /\ SwitchTo(idleTask, demoted)
  /\ UNCHANGED <<id, nextTaskID>>

-----------------------------------------------------------------------------
(***************************************************************************)
(* The timer interrupt: interrupt_handler case 32 and scheduler_tick.      *)
(* Within the time slice the context is pushed and popped again.           *)
(***************************************************************************)
Tick ==
  \/ /\ schedulerTicks + 1 < TimeSlice
     /\ schedulerTicks' = schedulerTicks + 1
     /\ UNCHANGED <<id, state, esp, curTask, nextTaskID, stackMem, sp, ctx>>
  \/ /\ schedulerTicks + 1 >= TimeSlice
     /\ scheduler_schedule(state, ctx)

(***************************************************************************)
(* The functions a task calls.  The idle task only executes hlt.           *)
(***************************************************************************)
InOwnCode == curTask # idleTask /\ ctx.pc \in {"entry", "running"}
MayStop   == curTask # KernelTask \/ KernelMayStop

task_yield ==
  /\ InOwnCode
  /\ scheduler_schedule(state, At("running"))

\* The store of task_block; its call of task_yield is block_yield.
task_block ==
  /\ InOwnCode /\ MayStop
  /\ state' = [state EXCEPT ![curTask] = TASK_BLOCKED]
  /\ ctx' = At("blocking")
  /\ UNCHANGED <<id, esp, curTask, nextTaskID, schedulerTicks, stackMem, sp>>

MutBlockAgain ==
  /\ ctx.pc = "blocking"
  /\ scheduler_schedule([state EXCEPT ![curTask] = TASK_BLOCKED], At("running"))
block_yield ==
  /\ ctx.pc = "blocking"
  /\ scheduler_schedule(state, At("running"))

\* task_exit, called by the task or returned to from its entry function:
\* int $50 and scheduler_exit.
MutExitNotMarked == scheduler_schedule(state, At("exited"))
scheduler_exit == scheduler_schedule([state EXCEPT ![curTask] = TASK_TERMINATED], At("exited"))

task_exit ==
  /\ InOwnCode /\ MayStop
  /\ scheduler_exit

\* task_create: the first terminated slot, never slot 0.
MutFreeIfNotRunnable(s) == state[s] \in {TASK_TERMINATED, TASK_BLOCKED}
IsFree(s) == state[s] = TASK_TERMINATED
FirstFree(s) == s \in UserSlots /\ IsFree(s) /\ \A r \in 1 .. s - 1 : ~IsFree(r)

\* An id is bound to its slot the first time the slot is used.
MutNewIdAlways(s) == nextTaskID
NewId(s) == IF id[s] = 0 THEN nextTaskID ELSE id[s]

\* Entry functions: what a task does is the choice of its next action.
NULL    == "NULL"
Entries == {NULL, "task"}

\* The section of task_create between irq_save and irq_restore.
task_create(entry) ==
  /\ InOwnCode
  /\ entry # NULL
  /\ \E s \in UserSlots :
       LET newId == NewId(s)
           fits  == newId - 1 < MaxUserTasks
       IN
       /\ FirstFree(s)
       /\ id' = [id EXCEPT ![s] = newId]
       /\ nextTaskID' = IF id[s] = 0 THEN nextTaskID + 1 ELSE nextTaskID
       /\ state' = [state EXCEPT ![s] = IF fits THEN TASK_READY ELSE @]
       /\ esp' = [esp EXCEPT ![s] = IF fits THEN newId - 1 ELSE @]
       /\ stackMem' = IF fits THEN [stackMem EXCEPT ![newId - 1] = At("entry")] ELSE stackMem
       /\ ctx' = IF fits THEN [pc |-> "created", slot |-> s, id |-> newId] ELSE At("running")
  /\ UNCHANGED <<curTask, schedulerTicks, sp>>

\* No entry function or no free slot: -1 is returned.
task_create_fails(entry) ==
  /\ InOwnCode
  /\ entry = NULL \/ \A s \in UserSlots : ~IsFree(s)
  /\ ctx' = At("running")
  /\ UNCHANGED <<id, state, esp, curTask, nextTaskID, schedulerTicks, stackMem, sp>>

\* The return statement of task_create: slot->id is read with interrupts on.
create_return ==
  /\ ctx.pc = "created"
  /\ ctx' = At("running")
  /\ UNCHANGED <<id, state, esp, curTask, nextTaskID, schedulerTicks, stackMem, sp>>

Unblockable == UserSlots

\* task_unblock(wanted): the first blocked task with that id.
task_unblock(wanted) ==
  /\ InOwnCode
  /\ \E s \in Unblockable :
       /\ id[s] = wanted /\ state[s] = TASK_BLOCKED
       /\ \A r \in 1 .. s - 1 : ~(id[r] = wanted /\ state[r] = TASK_BLOCKED)
       /\ state' = [state EXCEPT ![s] = TASK_READY]
  /\ ctx' = At("running")
  /\ UNCHANGED <<id, esp, curTask, nextTaskID, schedulerTicks, stackMem, sp>>

\* No blocked task has the id: -1 is returned.
task_unblock_fails(wanted) ==
  /\ InOwnCode
  /\ \A s \in Unblockable : ~(id[s] = wanted /\ state[s] = TASK_BLOCKED)
  /\ ctx' = At("running")
  /\ UNCHANGED <<id, state, esp, curTask, nextTaskID, schedulerTicks, stackMem, sp>>

Next ==
  \/ Tick
  \/ task_yield \/ task_block \/ block_yield \/ task_exit
  \/ create_return
  \/ \E entry \in Entries : task_create(entry) \/ task_create_fails(entry)
  \/ \E wanted \in Slots : task_unblock(wanted) \/ task_unblock_fails(wanted)

Spec == Init /\ [][Next]_vars

(***************************************************************************)
(* Fairness.  The PIT keeps interrupting, and a task that is given the CPU *)
(* again and again at the int $49 of task_block executes it some time: a   *)
(* time slice is millions of instructions long.  Nothing is assumed of     *)
(* what tasks do otherwise.                                                *)
(***************************************************************************)
FairSpec ==
  /\ Spec
  /\ WF_vars(Tick)
  /\ \A t \in Slots : SF_vars(curTask = t /\ block_yield)

-----------------------------------------------------------------------------
(***************************************************************************)
(* Properties.                                                             *)
(***************************************************************************)
Live(t) == state[t] # TASK_TERMINATED

\* The stack a task owns.
OwnStack(t) ==
  IF t = idleTask THEN idleStack ELSE IF t = KernelTask THEN KernelStack ELSE id[t] - 1

\* The context of a task: in the CPU, or on its stack.
Context(t) == IF t = curTask THEN ctx ELSE stackMem[OwnStack(t)]

\* The CPU is always on the stack of the current task, every other live task
\* has its context saved on its own stack and nowhere else, no two live tasks
\* share a stack, and nobody resumes behind the int $50 of task_exit.  (The
\* esp each branch of scheduler_schedule returns; taskStacks[slot->id - 1].)
ContextIntegrity ==
  /\ sp = OwnStack(curTask)
  /\ \A t \in Tasks \ {curTask} : Live(t) => esp[t] = OwnStack(t)
  /\ \A t, u \in Tasks : Live(t) /\ Live(u) /\ t # u => OwnStack(t) # OwnStack(u)
  /\ \A t \in Tasks : Live(t) => Context(t).pc # "exited"

\* Exactly the current task runs, except in the window of task_block between
\* the store of TASK_BLOCKED and int $49, where interrupts are on: there the
\* current task may already be blocked, and only there.
CurrentRuns ==
  /\ \A t \in Tasks \ {curTask} : state[t] # TASK_RUNNING
  /\ state[curTask] = TASK_RUNNING \/ (state[curTask] = TASK_BLOCKED /\ ctx.pc = "blocking")

\* The id task_create returns is read from the slot after irq_restore: however
\* long the creator was preempted there, and whatever became of the new task,
\* the slot still has the id the creator gave it.
ReturnedIdStable ==
  \A t \in Tasks : Live(t) /\ Context(t).pc = "created"
    => Context(t).id # 0 /\ id[Context(t).slot] = Context(t).id

\* Ids are handed out in slot order and never move: slot s has id s or is still
\* unused.  So the MAX_USER_TASKS test of task_create never fires, and a task
\* can be created whenever a slot is terminated.
IdsFollowSlots ==
  /\ \A s \in UserSlots : id[s] = IF s < nextTaskID THEN s ELSE 0
  /\ \A s \in UserSlots : s >= nextTaskID => ~Live(s)
  /\ \A s \in UserSlots : FirstFree(s) => NewId(s) - 1 < MaxUserTasks

\* The idle task has the CPU only while no task is ready.
IdleOnlyWhenNoneReady == curTask = idleTask => \A t \in Slots : state[t] # TASK_READY

\* Nobody touches the saved context of a task that lives and is not current:
\* not its stack, not its esp, neither an interrupt nor task_create.
SavedContextUntouched ==
  [][\A t \in Tasks : t # curTask /\ t # curTask' /\ Live(t)
       => esp'[t] = esp[t] /\ stackMem'[OwnStack(t)] = stackMem[OwnStack(t)]]_vars

\* How many slots the search looks at before it comes to t, from current task c.
Distance(c, t) == (t - (IF c \in Slots THEN c ELSE 0) + MaxTasks - 1) % MaxTasks

\* Round robin: every switch to another task brings each task that stays ready
\* closer to the CPU, so at most MaxTasks - 1 others run before it does.
NoOvertaking ==
  [][curTask' # curTask =>
       \A t \in Slots : state[t] = TASK_READY /\ state'[t] = TASK_READY
         => Distance(curTask', t) < Distance(curTask, t)]_vars

\* A kernel task that blocks is never woken: task_unblock starts at slot 1.
KernelBlockIsFinal ==
  [][state[KernelTask] = TASK_BLOCKED => state'[KernelTask] = TASK_BLOCKED]_vars

\* Once the idle task runs nothing else ever does: only tasks wake or create
\* tasks, no interrupt handler does.
IdleIsFinal == [][curTask = idleTask => curTask' = idleTask]_vars

\* Every ready task is given the CPU (round robin and the time slice).
NoStarvation == \A t \in Slots : (state[t] = TASK_READY) ~> (curTask = t)

\* No lost wake-up inside task_block: a task that was preempted in the window
\* and unblocked there comes back from task_block.
WokenTaskReturns ==
  \A t \in UserSlots :
    (state[t] = TASK_READY /\ stackMem[t - 1].pc = "blocking")
      ~> (curTask = t /\ ctx.pc = "running")

\* The scheduler implements the life cycle of tasks, with its fairness.
Lifecycle == INSTANCE TaskLifecycle WITH Kernel <- KernelTask, Idle <- idleTask, cur <- curTask
ImplementsLifecycle == Lifecycle!FairSpec
==============================================================================
