----------------------------- MODULE Interrupts ------------------------------
(***************************************************************************)
(* Interrupts: the interrupt flag, the interrupt controller                *)
(* (kernel/arch/x86/pic.c), the gates and the dispatch of                  *)
(* kernel/arch/x86/idt.c, the frames isr.asm pushes and pops, the tick     *)
(* counter of kernel/drivers/timer/pit.c, and the sections between         *)
(* irq_save and irq_restore that tasks and handlers use.                   *)
(*                                                                         *)
(* A task is known here by the stack it runs on.  Which stack the timer    *)
(* handler, int $49 and int $50 return to is left open; Kernel adds the    *)
(* scheduler.  pic_init leaves IRQ 0 and 1 unmasked; IRQ 7 can come all    *)
(* the same, as the spurious interrupt of the controller.                  *)
(***************************************************************************)
EXTENDS Frames

CONSTANTS
  AllStacks,   \* the stacks of the kernel, the tasks and the idle task
  BootStack,   \* the one kmain runs on
  Faults,      \* exceptions that the code of tasks may raise
  TickMod,     \* 2^32: ticks is counted modulo TickMod
  MaxNest      \* bound on the handlers nested on one stack

\* Exception 2 is the NMI and 29 belongs to encrypted virtual machines.
ASSUME InterruptsAssumption ==
  /\ BootStack \in AllStacks
  /\ Faults \subseteq (0 .. 31) \ {2, 29}
  /\ TickMod \in Nat /\ TickMod > 1
  /\ MaxNest \in Nat /\ MaxNest > 1

VARIABLES
  cpu,         \* the registers of the CPU
  IF_,         \* its interrupt flag
  cur,         \* the stack it is on
  stack,       \* the words on each stack
  irr, isr,    \* requests, and interrupts in service, in the controller
  booting,     \* kmain has not executed sti yet
  locked,      \* stacks whose task is between irq_save and irq_restore
  flags,       \* its local variable flags there
  handlers,    \* the handlers on each stack, the innermost first
  ticks        \* pit.c

pic       == <<irr, isr>>
sections  == <<locked, flags>>
interruptVars == <<cpu, IF_, cur, stack, pic, booting, sections, handlers, ticks>>

IRQs    == {0, 1, 7}
Vectors == Faults \cup {32 + irq : irq \in IRQs} \cup {49, 50}
Steps   == {"tick", "handle", "locked", "eoi", "eoi again", "return"}
Handler == [vector : Vectors, pc : Steps, flags : BOOLEAN]

\* What a task has on its stack outside handlers: the address its entry
\* function returns to.
OwnWords(s) == IF s = BootStack THEN <<>> ELSE <<TaskExit>>

\* kmain after scheduler_init and pit_init, still with interrupts off.
InterruptsInit ==
  /\ cpu = Own(BootStack) /\ IF_ = FALSE /\ cur = BootStack
  /\ stack = [s \in AllStacks |-> IF s = BootStack THEN <<>> ELSE task_create_context(s)]
  /\ irr = {} /\ isr = {}
  /\ booting = TRUE
  /\ locked = {} /\ flags = [s \in AllStacks |-> FALSE]
  /\ handlers = [s \in AllStacks |-> <<>>]
  /\ ticks = 0

-----------------------------------------------------------------------------
(***************************************************************************)
(* The devices and the controller.                                         *)
(***************************************************************************)
\* A request that is still pending is not counted twice.
pit_period ==
  /\ irr' = irr \cup {0}
  /\ UNCHANGED <<cpu, IF_, cur, stack, isr, booting, sections, handlers, ticks>>

key_code ==
  /\ irr' = irr \cup {1}
  /\ UNCHANGED <<cpu, IF_, cur, stack, isr, booting, sections, handlers, ticks>>

\* idt_set_gate: type 0x8E is an interrupt gate, which clears the flag.
MutTrapGate == IF_
GateFlag == FALSE

\* The case of interrupt_handler a vector comes to, by the first thing it does.
Dispatch(v) ==
  CASE v = 32        -> "tick"
    [] v = 33        -> "handle"
    [] v \in 34 .. 47 -> "eoi"
    [] v \in {49, 50} -> "return"
    [] OTHER         -> "handle"

\* Through the gate of vector v, its stub and isr_common, with c in the CPU.
Enter(v, c) ==
  /\ Len(handlers[cur]) < MaxNest
  /\ stack' = [stack EXCEPT ![cur] = Pushed(v, c, IF_) \o @]
  /\ handlers' = [handlers EXCEPT ![cur] =
       <<[vector |-> v, pc |-> Dispatch(v), flags |-> FALSE]>> \o @]
  /\ cpu' = Scratch
  /\ IF_' = GateFlag
  /\ UNCHANGED <<cur, booting, sections, ticks>>

deliver(irq) ==
  /\ IF_
  /\ irq \in irr
  /\ \A s \in isr : irq < s
  /\ irr' = irr \ {irq} /\ isr' = isr \cup {irq}
  /\ Enter(32 + irq, cpu)

spurious == IF_ /\ Enter(39, cpu) /\ UNCHANGED pic

\* PIC_EOI ends the interrupt in service with the highest priority.
MutEoi(service) == service
pic_send_eoi(service) == {irq \in service : \E s \in service : s < irq}

-----------------------------------------------------------------------------
(***************************************************************************)
(* irq_save and irq_restore, as the flag they leave.                       *)
(***************************************************************************)
MutIrqSave == IF_
irq_save == FALSE
MutIrqRestore(f) == TRUE
irq_restore(f) == f

-----------------------------------------------------------------------------
(***************************************************************************)
(* interrupt_handler, one step per call it makes.                          *)
(***************************************************************************)
InHandler == handlers[cur] # <<>>
Top       == Head(handlers[cur])
At(pc)    == InHandler /\ Top.pc = pc
Goto(pc)  == handlers' = [handlers EXCEPT ![cur][1].pc = pc]

pit_tick ==
  /\ At("tick")
  /\ Goto("eoi")
  /\ ticks' = (ticks + 1) % TickMod
  /\ UNCHANGED <<cpu, IF_, cur, stack, pic, booting, sections>>

\* An exception is reported on the screen, and keyboard_handler may write.
handler_lock ==
  /\ At("handle")
  /\ handlers' = [handlers EXCEPT ![cur][1].pc = "locked", ![cur][1].flags = IF_]
  /\ IF_' = irq_save
  /\ UNCHANGED <<cpu, cur, stack, pic, booting, sections, ticks>>

handler_unlock ==
  /\ At("locked")
  /\ Goto(IF Top.vector = 33 THEN "eoi" ELSE "return")
  /\ IF_' = irq_restore(Top.flags)
  /\ UNCHANGED <<cpu, cur, stack, pic, booting, sections, ticks>>

handler_no_output ==
  /\ At("handle") /\ Top.vector = 33
  /\ Goto("eoi")
  /\ UNCHANGED <<cpu, IF_, cur, stack, pic, booting, sections, ticks>>

\* keyboard_handler sends an EOI and case 33 another one.
handler_eoi ==
  /\ At("eoi") \/ At("eoi again")
  /\ isr' = pic_send_eoi(isr)
  /\ Goto(IF Top.vector = 33 /\ Top.pc = "eoi" THEN "eoi again" ELSE "return")
  /\ UNCHANGED <<cpu, IF_, cur, stack, irr, booting, sections, ticks>>

\* isr_common pops the frame on stack s, which only the timer and the two
\* software interrupts may have changed.
Switching == {32, 49, 50}

handler_return(s) ==
  /\ At("return")
  /\ Top.vector \notin Switching => s = cur
  /\ handlers' = [handlers EXCEPT ![cur] = Tail(@)]
  /\ cur' = s
  /\ cpu' = Popped(stack[s])
  /\ IF_' = PoppedFlag(stack[s])
  /\ stack' = [stack EXCEPT ![s] = Below(@)]
  /\ UNCHANGED <<pic, booting, sections, ticks>>

-----------------------------------------------------------------------------
(***************************************************************************)
(* Tasks.  One that acts has its own values in the registers.              *)
(***************************************************************************)
InTask == ~InHandler /\ cur \notin locked

kmain_sti ==
  /\ InTask /\ booting
  /\ booting' = FALSE
  /\ IF_' = TRUE
  /\ UNCHANGED <<cpu, cur, stack, pic, sections, handlers, ticks>>

\* The screen driver, in kmain before sti as well, task_create and task_unblock.
task_lock ==
  /\ InTask
  /\ cpu' = Own(cur)
  /\ locked' = locked \cup {cur}
  /\ flags' = [flags EXCEPT ![cur] = IF_]
  /\ IF_' = irq_save
  /\ UNCHANGED <<cur, stack, pic, booting, handlers, ticks>>

task_unlock ==
  /\ ~InHandler /\ cur \in locked
  /\ locked' = locked \ {cur}
  /\ flags' = [flags EXCEPT ![cur] = FALSE]
  /\ IF_' = irq_restore(flags[cur])
  /\ UNCHANGED <<cpu, cur, stack, pic, booting, handlers, ticks>>

\* int $49 and int $50.
software_interrupt(v) ==
  /\ InTask /\ ~booting
  /\ Enter(v, Own(cur))
  /\ UNCHANGED pic

\* The faulting instruction is executed again after the return.
exception(v) ==
  /\ InTask /\ ~booting
  /\ Enter(v, Own(cur))
  /\ UNCHANGED pic

\* The section of task_create writes the first frame of stack s.
context_created(s) ==
  /\ stack' = [stack EXCEPT ![s] = task_create_context(s)]
  /\ UNCHANGED <<cpu, IF_, cur, pic, booting, sections, handlers, ticks>>

HandlerStep ==
  pit_tick \/ handler_lock \/ handler_unlock \/ handler_no_output \/ handler_eoi

\* Any switch of stacks, and new tasks on any stack but the current and the kernel's.
InterruptsNext ==
  \/ pit_period \/ key_code \/ spurious
  \/ \E irq \in {0, 1} : deliver(irq)
  \/ HandlerStep
  \/ \E s \in AllStacks : handler_return(s)
  \/ kmain_sti \/ task_lock \/ task_unlock
  \/ \E v \in {49, 50} : software_interrupt(v)
  \/ \E v \in Faults : exception(v)
  \/ \E s \in AllStacks \ {cur, BootStack} : context_created(s)

InterruptsSpec == InterruptsInit /\ [][InterruptsNext]_interruptVars

-----------------------------------------------------------------------------
(***************************************************************************)
(* Properties.                                                             *)
(***************************************************************************)
\* Whenever the flag is set nothing is in service, so no request is held back
\* for an interrupt that was handled: each path through interrupt_handler sends
\* its end of interrupt, also the one that resumes another task.
NothingLeftInService ==
  /\ IF_ => isr = {}
  /\ \A irq \in isr : InHandler /\ Top.vector = 32 + irq

\* An interrupt handler is never interrupted, although the screen driver it calls
\* turns interrupts "on" again with irq_restore.
HandlersDontNest == \A s \in AllStacks : Len(handlers[s]) <= IF s = cur THEN 1 ELSE 0

\* At most one section between irq_save and irq_restore is open: not those of two
\* tasks, nor those of a task and of a handler that writes to the screen.
SectionsExclusive ==
  LET open == {s \in AllStacks : \E i \in DOMAIN handlers[s] : handlers[s][i].pc = "locked"} IN
  /\ locked \cap open = {}
  /\ \A s, t \in locked \cup open : s = t

\* The second EOI of the keyboard path, and the EOI of a spurious interrupt, never
\* end an interrupt that another handler is still serving.
EoiEndsOwn == [][\A irq \in isr \ isr' : Top.vector = 32 + irq]_interruptVars

\* However often a task was interrupted, preempted, or raised an exception, it goes
\* on with its own registers (zeros and its entry, if it is new), in the kernel's
\* code segment, with only its own words on its stack, so that its entry function
\* returns to task_exit, and with interrupts on outside its sections.
TaskStateRestored ==
  ~InHandler =>
    /\ cpu \in {Own(cur), Fresh(cur)}
    /\ stack[cur] = OwnWords(cur)
    /\ IF_ = (cur \notin locked /\ ~booting)
==============================================================================
