-------------------------------- MODULE Frames --------------------------------
(***************************************************************************)
(* The words an interrupt leaves on a stack: what the CPU pushes, what the *)
(* stub of the vector and isr_common push (kernel/arch/x86/isr.asm), what  *)
(* isr_common pops again, and the frame task_create_context builds by hand *)
(* (kernel/scheduler/scheduler.c) so that a new task can be popped like an *)
(* interrupted one.                                                        *)
(*                                                                         *)
(* A stack is a sequence of words, the top first.  A word is a pair: what  *)
(* it is, and the stack whose task it belongs to or its value.             *)
(***************************************************************************)
EXTENDS Integers, Sequences

Registers == {"eax", "ecx", "edx", "ebx", "ebp", "esi", "edi", "eip", "cs"}

Zero         == <<"0", 0>>
KernelCs     == <<"cs", 8>>
Eflags(if)   == <<"eflags", IF if THEN 1 ELSE 0>>
TaskExit     == <<"task_exit", 0>>
Vector(v)    == <<"vector", v>>
ErrorCode    == <<"error", 0>>

(***************************************************************************)
(* Contents of the CPU: a task in the middle of its work on stack s, a     *)
(* task that was just started, and the kernel's C code in a handler.       *)
(***************************************************************************)
Own(s)   == [r \in Registers |-> IF r = "cs" THEN KernelCs ELSE <<r, s>>]
Fresh(s) == [r \in Registers |-> CASE r = "cs"  -> KernelCs
                                   [] r = "eip" -> <<"entry", s>>
                                   [] OTHER     -> Zero]
Scratch  == [r \in Registers |-> IF r = "cs" THEN KernelCs ELSE <<"kernel", 0>>]

-----------------------------------------------------------------------------
(***************************************************************************)
(* On the way in.                                                          *)
(***************************************************************************)
\* The exceptions for which the CPU pushes an error code.
HasErrorCode == {8, 10, 11, 12, 13, 14, 17, 21, 29, 30}

CpuPushes(v, c, if) ==
  (IF v \in HasErrorCode THEN <<ErrorCode>> ELSE <<>>) \o <<c["eip"], c["cs"], Eflags(if)>>

MutISR_ERROR == {8, 10, 11, 12, 13, 17, 21, 30}
ISR_ERROR == {8, 10, 11, 12, 13, 14, 17, 21, 30}

StubPushes(v) == IF v \in ISR_ERROR THEN <<Vector(v)>> ELSE <<Vector(v), Zero>>

\* The word for esp is not used again.
pusha(c) ==
  <<c["edi"], c["esi"], c["ebp"], Zero, c["ebx"], c["edx"], c["ecx"], c["eax"]>>

Pushed(v, c, if) == pusha(c) \o StubPushes(v) \o CpuPushes(v, c, if)

-----------------------------------------------------------------------------
(***************************************************************************)
(* On the way out: popa, add esp, 8 and iretd on stack s.                  *)
(***************************************************************************)
FrameWords == 13

Popped(s) ==
  [edi |-> s[1], esi |-> s[2], ebp |-> s[3], ebx |-> s[5], edx |-> s[6], ecx |-> s[7],
   eax |-> s[8], eip |-> s[11], cs |-> s[12]]
PoppedFlag(s) == s[FrameWords] = Eflags(TRUE)
Below(s)      == SubSeq(s, FrameWords + 1, Len(s))

\* The stack of a new task; 0x202 is IF = 1.
task_create_context(s) ==
  <<Zero, Zero, Zero, Zero, Zero, Zero, Zero, Zero, Vector(32), Zero,
    Fresh(s)["eip"], KernelCs, Eflags(TRUE), TaskExit>>
==============================================================================
