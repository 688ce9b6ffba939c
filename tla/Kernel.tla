-------------------------------- MODULE Kernel --------------------------------
(***************************************************************************)
(* The interrupt path of Interrupts and the scheduler of Scheduler put     *)
(* together: Scheduler takes a handler, or a section between irq_save and  *)
(* irq_restore, as one step that a fair Tick may precede or follow.  Here  *)
(* the tick is what the PIT, the controller, the gate, the handler and     *)
(* isr_common make of it, and the sections are the steps they consist of.  *)
(*                                                                         *)
(* The stack pointer of Scheduler is cur.                                  *)
(***************************************************************************)
EXTENDS Interrupts

CONSTANTS MaxTasks, TimeSlice, KernelMayStop   \* as in Scheduler

VARIABLES id, state, esp, curTask, nextTaskID, schedulerTicks, stackMem, ctx, \* as in Scheduler
  section   \* what the section of the task on a stack is for, until it is done

S == INSTANCE Scheduler WITH sp <- cur

ASSUME KernelAssumption ==
  /\ MaxTasks \in Nat /\ MaxTasks >= 2
  /\ TimeSlice \in Nat /\ TimeSlice >= 1
  /\ KernelMayStop \in BOOLEAN
  /\ AllStacks = S!Stacks /\ BootStack = S!KernelStack

schedulerVars == <<id, state, esp, curTask, nextTaskID, schedulerTicks, stackMem, ctx>>
vars == <<interruptVars, schedulerVars, section>>

Sections == {"screen", "task_create", "task_unblock"}
Done     == "done"

Init ==
  /\ InterruptsInit
  /\ S!Init
  /\ section = [s \in AllStacks |-> Done]

-----------------------------------------------------------------------------
(***************************************************************************)
(* Steps that the scheduler does not notice.                               *)
(***************************************************************************)
Unnoticed == UNCHANGED <<schedulerVars, section>>

PitPeriod    == pit_period /\ Unnoticed
KeyCode      == key_code /\ Unnoticed
Deliver(irq) == deliver(irq) /\ Unnoticed
Spurious     == spurious /\ Unnoticed
Sti          == kmain_sti /\ Unnoticed
Handle       == HandlerStep /\ Unnoticed

\* The idle task only executes hlt, and task_block and task_create call nothing
\* that can fault after their section.
Exception(v) == S!InOwnCode /\ exception(v) /\ Unnoticed

-----------------------------------------------------------------------------
(***************************************************************************)
(* Returning from a handler, with the stack the scheduler has chosen.      *)
(***************************************************************************)
ReturnTo(v, s) ==
  /\ InHandler /\ Top.vector = v
  /\ handler_return(s)
  /\ UNCHANGED section

TimerReturn == \E s \in AllStacks : S!Tick /\ ReturnTo(32, s)
YieldReturn == \E s \in AllStacks : (S!task_yield \/ S!block_yield) /\ ReturnTo(49, s)
ExitReturn  == \E s \in AllStacks : S!task_exit /\ ReturnTo(50, s)
PlainReturn == \E v \in Vectors \ Switching : ReturnTo(v, cur) /\ UNCHANGED schedulerVars

-----------------------------------------------------------------------------
(***************************************************************************)
(* What tasks do.                                                          *)
(***************************************************************************)
Quiet == UNCHANGED <<interruptVars, section>>

\* int $49 in task_yield, called by the task or by task_block.
Yield ==
  /\ S!InOwnCode \/ ctx.pc = "blocking"
  /\ software_interrupt(49) /\ Unnoticed

Exit == S!InOwnCode /\ S!MayStop /\ software_interrupt(50) /\ Unnoticed

\* One store, with interrupts on.
Block == InTask /\ ~booting /\ S!task_block /\ Quiet

Enters(what) ==
  /\ S!InOwnCode
  /\ booting => what = "screen"
  /\ task_lock
  /\ section' = [section EXCEPT ![cur] = what]
  /\ UNCHANGED schedulerVars

Inside(what) ==
  /\ ~InHandler /\ cur \in locked /\ section[cur] = what
  /\ section' = [section EXCEPT ![cur] = Done]

\* Writing to the screen is left to Vga.
WriteScreen == Inside("screen") /\ UNCHANGED <<interruptVars, schedulerVars>>

Create ==
  /\ Inside("task_create")
  /\ \/ /\ S!task_create("task")
        /\ \E t \in S!UserSlots :
             /\ S!FirstFree(t)
             /\ IF state'[t] = S!TASK_READY THEN context_created(esp'[t]) ELSE UNCHANGED interruptVars
     \/ S!task_create_fails("task") /\ UNCHANGED interruptVars

Unblock ==
  /\ Inside("task_unblock")
  /\ \E wanted \in S!Slots : S!task_unblock(wanted) \/ S!task_unblock_fails(wanted)
  /\ UNCHANGED interruptVars

Leave ==
  /\ section[cur] = Done
  /\ task_unlock
  /\ UNCHANGED <<schedulerVars, section>>

\* task_create(NULL) comes to no section; slot->id is read after it.
CreateNull   == InTask /\ ~booting /\ S!task_create_fails(S!NULL) /\ Quiet
CreateReturn == InTask /\ S!create_return /\ Quiet

SectionStep == WriteScreen \/ Create \/ Unblock \/ Leave

HandlerRuns == Handle \/ TimerReturn \/ YieldReturn \/ ExitReturn \/ PlainReturn

Next ==
  \/ PitPeriod \/ KeyCode \/ Spurious
  \/ \E irq \in {0, 1} : Deliver(irq)
  \/ HandlerRuns
  \/ Sti \/ Yield \/ Exit \/ Block \/ CreateNull \/ CreateReturn
  \/ \E v \in Faults : Exception(v)
  \/ \E what \in Sections : Enters(what)
  \/ SectionStep

Spec == Init /\ [][Next]_vars

(***************************************************************************)
(* Fairness.  The PIT is periodic.  Handlers and sections end, and so does *)
(* kmain's initialisation: they wait for nothing.  With the flag set the   *)
(* CPU looks for a request before every instruction, so a request that it  *)
(* can take again and again is taken.  A task that is given the CPU again  *)
(* and again at the int $49 of task_block executes it some time.           *)
(***************************************************************************)
FairSpec ==
  /\ Spec
  /\ WF_vars(PitPeriod) /\ WF_vars(HandlerRuns) /\ WF_vars(SectionStep)
  /\ SF_vars(Sti) /\ SF_vars(Deliver(0))
  /\ \A t \in S!Slots : SF_vars(curTask = t /\ ctx.pc = "blocking" /\ Yield)

-----------------------------------------------------------------------------
(***************************************************************************)
(* Properties.                                                             *)
(***************************************************************************)
\* Gates, end-of-interrupts, frames and irq_save provide what Scheduler assumes:
\* handlers and sections take effect as one step each, nothing comes between a
\* task's steps but whole handlers, and the ticks never stop.
ImplementsScheduler == S!FairSpec
==============================================================================
