----------------------------- MODULE KernelProofs -----------------------------
(***************************************************************************)
(* Proofs about Frames, about Interrupts for any set of stacks, any        *)
(* exceptions of the tasks and any bound on the nesting of handlers, and   *)
(* about the kernel of Kernel.tla for every number of tasks and every time *)
(* slice: its steps are steps of Scheduler, so what SchedulerProofs proves *)
(* holds of it, and with that its steps are steps of Interrupts, so what   *)
(* the second part proves holds of it as well.                             *)
(***************************************************************************)
EXTENDS Kernel, TLAPS

\* A step is for the SMT solver unless it names another prover.
USE SMTT(60)

-----------------------------------------------------------------------------
(***************************************************************************)
(* PART 1.  Frames: what isr_common pops is what the interrupt pushed, for *)
(* every vector the kernel has a gate for and every content of the CPU, and*)
(* the frame of task_create_context is popped like one: the words are found*)
(* at the places where popa, add esp, 8 and iretd take them.               *)
(***************************************************************************)
\* Length and words of a concatenation.
LEMMA Concat ==
  ASSUME NEW W, NEW s \in Seq(W), NEW t \in Seq(W)
  PROVE  /\ Len(s) \in Nat /\ Len(t) \in Nat
         /\ s \o t \in Seq(W)
         /\ Len(s \o t) = Len(s) + Len(t)
         /\ \A i \in 1 .. Len(s) : (s \o t)[i] = s[i]
         /\ \A i \in 1 .. Len(t) : (s \o t)[Len(s) + i] = t[i]
  OBVIOUS

\* What is behind the first part of a concatenation.
LEMMA SecondPart ==
  ASSUME NEW W, NEW f \in Seq(W), NEW w \in Seq(W)
  PROVE  SubSeq(f \o w, Len(f) + 1, Len(f \o w)) = w
<1>1. PICK fw : fw = f \o w
  BY ZenonT(30)
<1>2. fw \in Seq(W) /\ Len(fw) = Len(f) + Len(w) /\ \A i \in 1 .. Len(w) : fw[Len(f) + i] = w[i]
  BY <1>1
<1>3. PICK t : t = SubSeq(fw, Len(f) + 1, Len(fw))
  BY ZenonT(30)
<1>4. t \in Seq(W) /\ Len(t) = Len(w)
  BY <1>2, <1>3
<1>5. ASSUME NEW i \in 1 .. Len(w) PROVE t[i] = w[i]
  <2>1. t[i] = fw[Len(f) + i]
    BY <1>2, <1>3
  <2> QED BY <1>2, <2>1
<1>6. t = w
  BY <1>4, <1>5
<1> QED BY <1>1, <1>3, <1>6

\* The words of a frame pushed on w, and what is below it.
LEMMA FrameOnTop ==
  ASSUME NEW W, NEW f \in Seq(W), NEW w \in Seq(W), Len(f) = FrameWords
  PROVE  /\ \A i \in 1 .. FrameWords : (f \o w)[i] = f[i]
         /\ Below(f \o w) = w
<1>1. \A i \in 1 .. FrameWords : (f \o w)[i] = f[i]
  BY Concat, ZenonT(30)
<1>2. Below(f \o w) = w
  BY SecondPart, ZenonT(30) DEF Below
<1> QED BY <1>1, <1>2

\* Length and words of a frame, which is pushed in three parts.
LEMMA ThreeParts ==
  ASSUME NEW W, NEW a \in Seq(W), NEW b \in Seq(W), NEW c \in Seq(W)
  PROVE  /\ (a \o b) \o c \in Seq(W)
         /\ Len((a \o b) \o c) = Len(a) + Len(b) + Len(c)
         /\ \A i \in 1 .. Len(a) : ((a \o b) \o c)[i] = a[i]
         /\ \A i \in 1 .. Len(c) : ((a \o b) \o c)[Len(a) + Len(b) + i] = c[i]
<1> DEFINE ab == a \o b
<1>1. /\ Len(a) \in Nat /\ Len(b) \in Nat /\ ab \in Seq(W) /\ Len(ab) = Len(a) + Len(b)
      /\ \A i \in 1 .. Len(a) : ab[i] = a[i]
  BY Concat
<1> HIDE DEF ab
<1> DEFINE abc == ab \o c
<1>2. ab \in Seq(W)
  BY <1>1
<1>3. /\ Len(c) \in Nat /\ abc \in Seq(W) /\ Len(abc) = Len(ab) + Len(c)
      /\ \A i \in 1 .. Len(ab) : abc[i] = ab[i]
      /\ \A i \in 1 .. Len(c) : abc[Len(ab) + i] = c[i]
  BY <1>2, Concat
<1> HIDE DEF abc
<1>4. \A i \in 1 .. Len(a) : abc[i] = a[i]
  BY <1>1, <1>3
<1> QED BY <1>1, <1>3, <1>4 DEF ab, abc

\* Three words in a row.
LEMMA ThreeWords ==
  ASSUME NEW W, NEW x \in W, NEW y \in W, NEW z \in W
  PROVE  /\ <<x, y, z>> \in Seq(W) /\ Len(<<x, y, z>>) = 3
         /\ <<x, y, z>>[1] = x /\ <<x, y, z>>[2] = y /\ <<x, y, z>>[3] = z
  OBVIOUS

\* pusha pushes eight words.
LEMMA Pusha ==
  ASSUME NEW W, NEW c \in [Registers -> W], Zero \in W
  PROVE  pusha(c) \in Seq(W) /\ Len(pusha(c)) = 8
  BY DEF pusha, Registers

\* The words the CPU pushes for an error code.
CodeWords(v) == IF v \in HasErrorCode THEN 1 ELSE 0

\* What the CPU pushes, with or without an error code.
LEMMA Cpu ==
  ASSUME NEW W, NEW c \in [Registers -> W], ErrorCode \in W, Eflags(TRUE) \in W, NEW v
  PROVE  /\ CpuPushes(v, c, TRUE) \in Seq(W) /\ Len(CpuPushes(v, c, TRUE)) = CodeWords(v) + 3
         /\ CpuPushes(v, c, TRUE)[CodeWords(v) + 1] = c["eip"]
         /\ CpuPushes(v, c, TRUE)[CodeWords(v) + 2] = c["cs"]
         /\ CpuPushes(v, c, TRUE)[CodeWords(v) + 3] = Eflags(TRUE)
<1> DEFINE w == <<c["eip"], c["cs"], Eflags(TRUE)>>
           e == IF v \in HasErrorCode THEN <<ErrorCode>> ELSE <<>>
           p == CpuPushes(v, c, TRUE)
<1>1. w \in Seq(W) /\ Len(w) = 3 /\ w[1] = c["eip"] /\ w[2] = c["cs"] /\ w[3] = Eflags(TRUE)
  <2>1. c["eip"] \in W /\ c["cs"] \in W
    BY DEF Registers
  <2> QED BY <2>1, ThreeWords, ZenonT(30)
<1>2. e \in Seq(W) /\ Len(e) = CodeWords(v)
  BY DEF CodeWords
<1>3. p = e \o w
  BY DEF CpuPushes
<1> HIDE DEF e, w, p
<1>4. /\ p \in Seq(W)
      /\ Len(p) = Len(e) + Len(w)
      /\ \A i \in 1 .. Len(w) : p[Len(e) + i] = w[i]
  <2>1. w \in Seq(W) /\ e \in Seq(W)
    BY <1>1, <1>2
  <2> QED BY <1>3, <2>1, Concat
<1>5. p[Len(e) + 1] = w[1] /\ p[Len(e) + 2] = w[2] /\ p[Len(e) + 3] = w[3]
  <2>1. 1 \in 1 .. Len(w) /\ 2 \in 1 .. Len(w) /\ 3 \in 1 .. Len(w)
    BY <1>1
  <2> QED BY <1>4, <2>1
<1>6. Len(p) = CodeWords(v) + 3
  BY <1>1, <1>2, <1>4
<1> QED BY <1>1, <1>2, <1>4, <1>5, <1>6, ZenonT(30) DEF p

\* The stubs of isr.asm make up for the missing error code: ISR_ERROR is used
\* for the vectors that have one, except 29.
LEMMA Stub ==
  ASSUME NEW W, NEW v, Vector(v) \in W, Zero \in W, v # 29
  PROVE  StubPushes(v) \in Seq(W) /\ Len(StubPushes(v)) = 2 - CodeWords(v)
<1>1. v \in ISR_ERROR <=> v \in HasErrorCode
  BY DEF ISR_ERROR, HasErrorCode
<1> QED BY <1>1 DEF StubPushes, CodeWords

\* A set with the words that an interrupt with vector v adds to those in the CPU.
HasWords(W, v) == Zero \in W /\ Vector(v) \in W /\ ErrorCode \in W /\ Eflags(TRUE) \in W

\* f is a frame that gives back the registers c, and has words of W.
IsFrame(f, c, W) ==
  /\ f \in Seq(W)
  /\ Len(f) = FrameWords
  /\ \A i \in 1 .. 8 : f[i] = pusha(c)[i]
  /\ f[11] = c["eip"] /\ f[12] = c["cs"] /\ f[13] = Eflags(TRUE)

\* Whatever the vector, a frame has its words at the same places.
LEMMA PushedWords ==
  ASSUME NEW W, NEW c \in [Registers -> W], NEW v, v # 29, HasWords(W, v)
  PROVE  IsFrame(Pushed(v, c, TRUE), c, W)
<1> DEFINE a == pusha(c)
           b == StubPushes(v)
           p == CpuPushes(v, c, TRUE)
           f == Pushed(v, c, TRUE)
           n == CodeWords(v)
<1>0. Zero \in W /\ Vector(v) \in W /\ ErrorCode \in W /\ Eflags(TRUE) \in W
  BY ZenonT(30) DEF HasWords
<1>1. a \in Seq(W) /\ Len(a) = 8
  BY <1>0, Pusha
<1>2. b \in Seq(W) /\ Len(b) = 2 - n
  BY <1>0, Stub
<1>3. /\ p \in Seq(W) /\ Len(p) = n + 3
      /\ p[n + 1] = c["eip"] /\ p[n + 2] = c["cs"] /\ p[n + 3] = Eflags(TRUE)
  <2>1. /\ CpuPushes(v, c, TRUE) \in Seq(W) /\ Len(CpuPushes(v, c, TRUE)) = CodeWords(v) + 3
        /\ CpuPushes(v, c, TRUE)[CodeWords(v) + 1] = c["eip"]
        /\ CpuPushes(v, c, TRUE)[CodeWords(v) + 2] = c["cs"]
        /\ CpuPushes(v, c, TRUE)[CodeWords(v) + 3] = Eflags(TRUE)
    BY <1>0, Cpu, ZenonT(30)
  <2> QED BY <2>1, ZenonT(30)
<1>4. f = (a \o b) \o p
  BY DEF Pushed
<1>5. n \in 0 .. 1
  BY DEF CodeWords
<1> HIDE DEF a, b, p, f, n
<1>6. /\ f \in Seq(W)
      /\ Len(f) = Len(a) + Len(b) + Len(p)
      /\ \A i \in 1 .. Len(a) : f[i] = a[i]
      /\ \A i \in 1 .. Len(p) : f[Len(a) + Len(b) + i] = p[i]
  <2>1. a \in Seq(W) /\ b \in Seq(W) /\ p \in Seq(W)
    BY <1>1, <1>2, <1>3
  <2> QED BY <1>4, <2>1, ThreeParts
<1>7. f[11] = p[n + 1] /\ f[12] = p[n + 2] /\ f[13] = p[n + 3]
  <2>1. n + 1 \in 1 .. Len(p) /\ n + 2 \in 1 .. Len(p) /\ n + 3 \in 1 .. Len(p)
    BY <1>3, <1>5
  <2>2. /\ Len(a) + Len(b) + (n + 1) = 11 /\ Len(a) + Len(b) + (n + 2) = 12
        /\ Len(a) + Len(b) + (n + 3) = 13
    BY <1>1, <1>2, <1>5
  <2>3. /\ f[Len(a) + Len(b) + (n + 1)] = p[n + 1] /\ f[Len(a) + Len(b) + (n + 2)] = p[n + 2]
        /\ f[Len(a) + Len(b) + (n + 3)] = p[n + 3]
    BY <1>6, <2>1, ZenonT(30)
  <2> QED BY <2>2, <2>3, ZenonT(30)
<1>8. Len(f) = FrameWords
  BY <1>1, <1>2, <1>3, <1>5, <1>6 DEF FrameWords
<1>9. \A i \in 1 .. 8 : f[i] = a[i]
  BY <1>1, <1>6, ZenonT(30)
<1>10. IsFrame(f, c, W)
  BY <1>3, <1>6, <1>7, <1>8, <1>9, ZenonT(30) DEF IsFrame, a
<1> QED BY <1>10, ZenonT(30) DEF f

\* popa and iretd undo pusha and the push of the CPU.
LEMMA PoppedRegisters ==
  ASSUME NEW W, NEW c \in [Registers -> W], NEW k,
         \A i \in 1 .. 8 : k[i] = pusha(c)[i], k[11] = c["eip"], k[12] = c["cs"]
  PROVE  Popped(k) = c
<1>1. /\ k[1] = c["edi"] /\ k[2] = c["esi"] /\ k[3] = c["ebp"] /\ k[5] = c["ebx"]
      /\ k[6] = c["edx"] /\ k[7] = c["ecx"] /\ k[8] = c["eax"]
  BY DEF pusha
<1>2. c = [r \in Registers |-> c[r]]
  OBVIOUS
<1>3. Popped(k) = [r \in Registers |-> c[r]]
  BY <1>1 DEF Popped, Registers
<1> QED BY <1>2, <1>3

\* Popping the frame on top of stack k leaves c in the CPU, interrupts on and w on
\* the stack.
GivesBack(k, c, w) == Popped(k) = c /\ PoppedFlag(k) /\ Below(k) = w

\* An interrupt at any instruction leaves the registers, the flag and the stack as
\* they were: the frame of isr_common is popped completely, and not more.
THEOREM FrameGoesBack ==
  ASSUME NEW W, NEW c \in [Registers -> W], NEW w \in Seq(W), NEW v, v # 29, HasWords(W, v)
  PROVE  GivesBack(Pushed(v, c, TRUE) \o w, c, w)
<1> DEFINE f == Pushed(v, c, TRUE)
           k == f \o w
<1>0. IsFrame(f, c, W)
  BY PushedWords, ZenonT(30)
<1> HIDE DEF f
<1>1. /\ f \in Seq(W) /\ Len(f) = FrameWords
      /\ \A i \in 1 .. 8 : f[i] = pusha(c)[i]
      /\ f[11] = c["eip"] /\ f[12] = c["cs"] /\ f[13] = Eflags(TRUE)
  BY <1>0, ZenonT(30) DEF IsFrame
<1>2. (\A i \in 1 .. FrameWords : k[i] = f[i]) /\ Below(k) = w
  <2>1. f \in Seq(W) /\ Len(f) = FrameWords
    BY <1>1
  <2> QED BY <2>1, FrameOnTop
<1> HIDE DEF k
<1>3. (\A i \in 1 .. 8 : k[i] = pusha(c)[i]) /\ k[11] = c["eip"] /\ k[12] = c["cs"]
  <2>1. 11 \in 1 .. FrameWords /\ 12 \in 1 .. FrameWords /\ \A i \in 1 .. 8 : i \in 1 .. FrameWords
    BY DEF FrameWords
  <2>2. k[11] = f[11] /\ k[12] = f[12]
    BY <1>2, <2>1
  <2>3. \A i \in 1 .. 8 : k[i] = f[i]
    BY <1>2, <2>1, ZenonT(30)
  <2> QED BY <1>1, <2>2, <2>3
<1>4. Popped(k) = c
  BY <1>3, PoppedRegisters, ZenonT(30)
<1>5. PoppedFlag(k)
  <2>1. 13 \in 1 .. FrameWords
    BY DEF FrameWords
  <2>2. k[13] = Eflags(TRUE)
    BY <1>1, <1>2, <2>1, ZenonT(30)
  <2> QED BY <2>2 DEF PoppedFlag, FrameWords
<1> QED BY <1>2, <1>4, <1>5, ZenonT(30) DEF GivesBack, k, f

\* The frame of task_create_context starts a task with zeros in its registers at
\* its entry, interrupts on, and task_exit as the address it returns to.
THEOREM NewTaskFrame ==
  ASSUME NEW s
  PROVE  GivesBack(task_create_context(s), Fresh(s), <<TaskExit>>)
<1> DEFINE k == task_create_context(s)
<1>1. PoppedFlag(k)
  BY DEF PoppedFlag, FrameWords, task_create_context
<1>2. Len(k) = 14 /\ k[14] = TaskExit
  BY DEF task_create_context
<1>3. Below(k) = <<TaskExit>>
  <2> HIDE DEF k
  <2>1. PICK t : t = SubSeq(k, 14, 14)
    BY ZenonT(30)
  <2>2. Len(t) = 1 /\ t[1] = TaskExit /\ DOMAIN t = 1 .. 1 /\ t = [i \in 1 .. 1 |-> t[i]]
    BY <1>2, <2>1
  <2>3. t = <<TaskExit>>
    BY <2>2
  <2>4. FrameWords + 1 = 14
    BY DEF FrameWords
  <2> QED BY <1>2, <2>1, <2>3, <2>4, ZenonT(30) DEF Below
<1>4. /\ k[1] = Zero /\ k[2] = Zero /\ k[3] = Zero /\ k[5] = Zero
      /\ k[6] = Zero /\ k[7] = Zero /\ k[8] = Zero /\ k[11] = <<"entry", s>> /\ k[12] = KernelCs
  BY DEF task_create_context, Fresh, Registers
<1>5. Popped(k) = Fresh(s)
  <2> HIDE DEF k
  <2> QED BY <1>4 DEF Popped, Fresh, Registers
<1> QED BY <1>1, <1>3, <1>5 DEF GivesBack

-----------------------------------------------------------------------------
(***************************************************************************)
(* PART 2.  Interrupts.                                                    *)
(***************************************************************************)
(***************************************************************************)
(* The inductive invariant about handlers, the interrupt flag and the      *)
(* controller.  That a handler is not interrupted rests on the flag it     *)
(* saved itself, and that nothing is left in service on where the handler  *)
(* is: behind its last end of interrupt nothing may be.                    *)
(***************************************************************************)
Exceptions == 0 .. 31

GoodPc(v, pc) ==
  /\ pc = "tick" => v = 32
  /\ pc \in {"handle", "locked"} => v = 33 \/ v \in Exceptions
  /\ pc = "eoi" => v \in {32, 33, 39}
  /\ pc = "eoi again" => v = 33

GoodHandler(h) ==
  /\ h \in Handler
  /\ GoodPc(h.vector, h.pc)
  /\ h.flags = FALSE

\* What may be in service while h runs.
ServiceOf(h) ==
  IF h.vector \in {32, 33} /\ h.pc \notin {"return", "eoi again"} THEN {h.vector - 32} ELSE {}

Types ==
  /\ cur \in AllStacks
  /\ IF_ \in BOOLEAN
  /\ flags \in [AllStacks -> BOOLEAN]
  /\ handlers \in [AllStacks -> {<<>>} \cup {<<h>> : h \in Handler}]

OneHandler ==
  /\ \A s \in AllStacks \ {cur} : handlers[s] = <<>>
  /\ InHandler => GoodHandler(Top) /\ ~IF_ /\ locked = {}

ServiceInv == isr \subseteq IF InHandler THEN ServiceOf(Top) ELSE {}

SectionInv == locked \subseteq {cur} /\ (cur \in locked => ~IF_)

HandlerInv == Types /\ OneHandler /\ ServiceInv /\ SectionInv

-----------------------------------------------------------------------------
\* It holds at boot.
LEMMA InitHandlerInv == InterruptsInit => HandlerInv
  BY InterruptsAssumption, ZenonT(30)
  DEF InterruptsInit, HandlerInv, Types, OneHandler, ServiceInv, SectionInv, InHandler

\* The vectors there are.
LEMMA VectorCases == \A v \in Vectors : v \in Exceptions \/ v \in {32, 33, 39, 49, 50}
  BY InterruptsAssumption DEF Vectors, IRQs, Exceptions

\* The first step of interrupt_handler, by vector.
LEMMA DispatchValue ==
  /\ Dispatch(32) = "tick" /\ Dispatch(33) = "handle" /\ Dispatch(39) = "eoi"
  /\ Dispatch(49) = "return" /\ Dispatch(50) = "return"
  /\ \A v \in Exceptions : Dispatch(v) = "handle"
<1>1. ASSUME NEW v \in Exceptions PROVE Dispatch(v) = "handle"
  <2>1. v # 32 /\ v # 33 /\ v \notin 34 .. 47 /\ v \notin {49, 50}
    BY <1>1 DEF Exceptions
  <2> QED BY <2>1 DEF Dispatch
<1>2. Dispatch(32) = "tick" /\ Dispatch(33) = "handle" /\ Dispatch(39) = "eoi"
  BY DEF Dispatch
<1>3. Dispatch(49) = "return" /\ Dispatch(50) = "return"
  BY DEF Dispatch
<1> QED BY <1>1, <1>2, <1>3

\* The handler that a gate leads to.
LEMMA DispatchGood ==
  ASSUME NEW v \in Vectors
  PROVE  GoodHandler([vector |-> v, pc |-> Dispatch(v), flags |-> FALSE])
<1> DEFINE h == [vector |-> v, pc |-> Dispatch(v), flags |-> FALSE]
<1>1. Dispatch(v) \in Steps /\ GoodPc(v, Dispatch(v))
  <2>1. CASE v \in Exceptions
    <3>1. Dispatch(v) = "handle"
      BY <2>1, DispatchValue, ZenonT(30)
    <3> QED BY <2>1, <3>1 DEF Steps, GoodPc
  <2>2. CASE v = 32
    <3>1. Dispatch(v) = "tick"
      BY <2>2, DispatchValue, ZenonT(30)
    <3> QED BY <2>2, <3>1, ZenonT(30) DEF Steps, GoodPc
  <2>3. CASE v = 33
    <3>1. Dispatch(v) = "handle"
      BY <2>3, DispatchValue, ZenonT(30)
    <3> QED BY <2>3, <3>1, ZenonT(30) DEF Steps, GoodPc
  <2>4. CASE v = 39
    <3>1. Dispatch(v) = "eoi"
      BY <2>4, DispatchValue, ZenonT(30)
    <3> QED BY <2>4, <3>1, ZenonT(30) DEF Steps, GoodPc
  <2>5. CASE v = 49 \/ v = 50
    <3>1. Dispatch(v) = "return"
      BY <2>5, DispatchValue, ZenonT(30)
    <3> QED BY <2>5, <3>1 DEF Steps, GoodPc
  <2> QED BY <2>1, <2>2, <2>3, <2>4, <2>5, VectorCases
<1>2. h \in Handler
  BY <1>1 DEF Handler
<1> QED BY <1>1, <1>2 DEF GoodHandler

\* Through a gate, from a task.
LEMMA EnterPreserves ==
  ASSUME HandlerInv, ~InHandler, locked = {}, NEW v \in Vectors, NEW c, Enter(v, c),
         isr' \subseteq ServiceOf([vector |-> v, pc |-> Dispatch(v), flags |-> FALSE])
  PROVE  HandlerInv'
<1> DEFINE h == [vector |-> v, pc |-> Dispatch(v), flags |-> FALSE]
<1>1. GoodHandler(h)
  BY DispatchGood
<1>2. handlers[cur] = <<>>
  BY DEF InHandler
<1>3. handlers' = [handlers EXCEPT ![cur] = <<h>>]
  BY <1>2 DEF Enter, HandlerInv, Types
<1>4. Types'
  <2>1. <<h>> \in {<<>>} \cup {<<g>> : g \in Handler}
    BY <1>1 DEF GoodHandler
  <2>2. handlers' \in [AllStacks -> {<<>>} \cup {<<g>> : g \in Handler}]
    BY <1>3, <2>1 DEF HandlerInv, Types
  <2> QED BY <2>2, ZenonT(30) DEF Enter, HandlerInv, Types, GateFlag, sections
<1>5. InHandler' /\ Top' = h
  BY <1>3 DEF HandlerInv, Types, InHandler, Top, Enter
<1>6. OneHandler'
  BY <1>1, <1>3, <1>5 DEF HandlerInv, Types, OneHandler, Enter, GateFlag, sections
<1>7. ServiceInv'
  BY <1>5, ZenonT(30) DEF ServiceInv
<1>8. SectionInv'
  BY DEF Enter, sections, SectionInv
<1> QED BY <1>4, <1>6, <1>7, <1>8 DEF HandlerInv

\* A handler goes on, to g.
LEMMA ContinuePreserves ==
  ASSUME HandlerInv, InHandler, NEW g, GoodHandler(g),
         handlers' = [handlers EXCEPT ![cur] = <<g>>],
         ~IF_', IF_' \in BOOLEAN, UNCHANGED <<cur, sections>>, isr' \subseteq ServiceOf(g)
  PROVE  HandlerInv'
<1>1. Types'
  <2>1. <<g>> \in {<<>>} \cup {<<k>> : k \in Handler}
    BY DEF GoodHandler
  <2>2. handlers' \in [AllStacks -> {<<>>} \cup {<<k>> : k \in Handler}]
    BY <2>1 DEF HandlerInv, Types
  <2> QED BY <2>2 DEF HandlerInv, Types, sections
<1>2. InHandler' /\ Top' = g
  BY DEF HandlerInv, Types, InHandler, Top
<1>3. OneHandler'
  BY <1>2 DEF HandlerInv, Types, OneHandler, sections
<1>4. ServiceInv'
  BY <1>2 DEF ServiceInv
<1>5. SectionInv'
  BY DEF HandlerInv, SectionInv, sections
<1> QED BY <1>1, <1>3, <1>4, <1>5 DEF HandlerInv

\* The one handler of the current stack.
LEMMA TopHandler ==
  ASSUME HandlerInv, InHandler
  PROVE  handlers[cur] = <<Top>> /\ Top \in Handler
<1>1. PICK h \in Handler : handlers[cur] = <<h>>
  BY DEF HandlerInv, Types, InHandler
<1> QED BY <1>1 DEF Top

\* Only the step of the innermost handler changes.
LEMMA GotoValue ==
  ASSUME HandlerInv, InHandler, NEW pc \in Steps, Goto(pc)
  PROVE  handlers' = [handlers EXCEPT ![cur] = <<[vector |-> Top.vector, pc |-> pc, flags |-> Top.flags]>>]
<1>1. handlers[cur] = <<Top>> /\ Top \in Handler
  BY TopHandler
<1>2. [handlers[cur] EXCEPT ![1].pc = pc] = <<[Top EXCEPT !.pc = pc]>>
  BY <1>1
<1>3. [Top EXCEPT !.pc = pc] = [vector |-> Top.vector, pc |-> pc, flags |-> Top.flags]
  BY <1>1 DEF Handler
<1> QED BY <1>2, <1>3, ZenonT(30) DEF Goto, HandlerInv, Types

\* Where a handler may go on, by its vector.
LEMMA GoodNext ==
  ASSUME NEW h, GoodHandler(h), NEW pc \in Steps, GoodPc(h.vector, pc)
  PROVE  GoodHandler([vector |-> h.vector, pc |-> pc, flags |-> FALSE])
  BY DEF GoodHandler, Handler

\* Every call interrupt_handler makes keeps it.
LEMMA HandlerStepPreserves == HandlerInv /\ HandlerStep => HandlerInv'
<1> SUFFICES ASSUME HandlerInv, HandlerStep PROVE HandlerInv'
  OBVIOUS
<1>1. InHandler
  BY ZenonT(30) DEF HandlerStep, pit_tick, handler_lock, handler_unlock, handler_no_output, handler_eoi, At
<1>2. /\ handlers[cur] = <<Top>> /\ Top \in Handler
      /\ GoodHandler(Top) /\ Top.flags = FALSE /\ IF_ = FALSE /\ isr \subseteq ServiceOf(Top)
  BY <1>1, TopHandler, ZenonT(30) DEF HandlerInv, Types, OneHandler, ServiceInv, GoodHandler
<1> DEFINE g(pc) == [vector |-> Top.vector, pc |-> pc, flags |-> FALSE]
<1>3. CASE pit_tick
  <2>1. handlers' = [handlers EXCEPT ![cur] = <<g("eoi")>>]
    BY <1>1, <1>2, <1>3, GotoValue, ZenonT(30) DEF pit_tick, Steps
  <2>2. Top.vector = 32 /\ Top.pc = "tick"
    BY <1>2, <1>3 DEF GoodHandler, GoodPc, pit_tick, At
  <2>3. GoodHandler(g("eoi"))
    BY <1>2, <2>2, GoodNext, ZenonT(30) DEF GoodPc, Steps
  <2>4. isr' \subseteq ServiceOf(g("eoi"))
    BY <1>2, <1>3, <2>2 DEF pit_tick, pic, ServiceOf
  <2> QED BY <1>1, <1>2, <1>3, <2>1, <2>3, <2>4, ContinuePreserves, ZenonT(30) DEF pit_tick
<1>4. CASE handler_lock
  <2> DEFINE k == [Top EXCEPT !.pc = "locked", !.flags = FALSE]
  <2>1. handlers' = [handlers EXCEPT ![cur] = <<k>>]
    <3>1. [handlers[cur] EXCEPT ![1].pc = "locked", ![1].flags = FALSE] = <<k>>
      BY <1>2
    <3>2. handlers' = [handlers EXCEPT ![cur][1].pc = "locked", ![cur][1].flags = FALSE]
      BY <1>2, <1>4, ZenonT(30) DEF handler_lock
    <3> QED BY <3>1, <3>2, ZenonT(30) DEF HandlerInv, Types
  <2>2. Top.pc = "handle"
    BY <1>4 DEF handler_lock, At
  <2>3. k \in Handler /\ k.pc = "locked" /\ k.vector = Top.vector /\ k.flags = FALSE
    BY <1>2, ZenonT(30) DEF Handler, Steps
  <2>4. GoodHandler(k)
    <3>1. Top.vector = 33 \/ Top.vector \in Exceptions
      BY <1>2, <2>2 DEF GoodHandler, GoodPc
    <3>2. GoodPc(k.vector, k.pc)
      BY <2>3, <3>1 DEF GoodPc
    <3> QED BY <2>3, <3>2 DEF GoodHandler
  <2>5. isr' \subseteq ServiceOf(k)
    BY <1>2, <1>4, <2>2, <2>3 DEF handler_lock, pic, ServiceOf
  <2> QED BY <1>1, <1>2, <1>4, <2>1, <2>4, <2>5, ContinuePreserves, ZenonT(30) DEF handler_lock, irq_save
<1>5. CASE handler_unlock
  <2>1. Top.pc = "locked" /\ (Top.vector = 33 \/ Top.vector \in Exceptions)
    BY <1>2, <1>5, ZenonT(30) DEF GoodHandler, GoodPc, handler_unlock, At
  <2>2. CASE Top.vector = 33
    <3>1. handlers' = [handlers EXCEPT ![cur] = <<g("eoi")>>]
      BY <1>1, <1>2, <1>5, <2>2, GotoValue, ZenonT(30) DEF handler_unlock, Steps
    <3>2. GoodHandler(g("eoi"))
      BY <1>2, <2>2, GoodNext, ZenonT(30) DEF GoodPc, Steps
    <3>3. isr' \subseteq ServiceOf(g("eoi"))
      BY <1>2, <1>5, <2>1, <2>2 DEF handler_unlock, pic, ServiceOf
    <3> QED BY <1>1, <1>2, <1>5, <3>1, <3>2, <3>3, ContinuePreserves, ZenonT(30) DEF handler_unlock, irq_restore
  <2>3. CASE Top.vector # 33
    <3>1. handlers' = [handlers EXCEPT ![cur] = <<g("return")>>]
      BY <1>1, <1>2, <1>5, <2>3, GotoValue, ZenonT(30) DEF handler_unlock, Steps
    <3>2. GoodHandler(g("return"))
      <4>1. GoodPc(Top.vector, "return")
        BY <2>1, <2>3 DEF GoodPc
      <4> QED BY <1>2, <4>1, GoodNext, ZenonT(30) DEF Steps
    <3>3. isr' \subseteq ServiceOf(g("return"))
      BY <1>2, <1>5, <2>1, <2>3 DEF handler_unlock, pic, ServiceOf, Exceptions
    <3> QED BY <1>1, <1>2, <1>5, <3>1, <3>2, <3>3, ContinuePreserves, ZenonT(30) DEF handler_unlock, irq_restore
  <2> QED BY <2>2, <2>3
<1>6. CASE handler_no_output
  <2>1. Top.vector = 33 /\ Top.pc = "handle"
    BY <1>6 DEF handler_no_output, At
  <2>2. handlers' = [handlers EXCEPT ![cur] = <<g("eoi")>>]
    BY <1>1, <1>2, <1>6, GotoValue, ZenonT(30) DEF handler_no_output, Steps
  <2>3. GoodHandler(g("eoi"))
    BY <1>2, <2>1, GoodNext, ZenonT(30) DEF GoodPc, Steps
  <2>4. isr' \subseteq ServiceOf(g("eoi"))
    BY <1>2, <1>6, <2>1 DEF handler_no_output, pic, ServiceOf
  <2> QED BY <1>1, <1>2, <1>6, <2>2, <2>3, <2>4, ContinuePreserves, ZenonT(30) DEF handler_no_output
<1>7. CASE handler_eoi
  <2>1. isr' = {}
    <3>1. isr = {} \/ isr = {Top.vector - 32}
      BY <1>2, ZenonT(30) DEF ServiceOf
    <3>2. ASSUME NEW n \in Int PROVE pic_send_eoi({n}) = {}
      BY DEF pic_send_eoi
    <3>3. Top.pc \in {"eoi", "eoi again"}
      BY <1>7, ZenonT(30) DEF handler_eoi, At
    <3>4. Top.vector - 32 \in Int
      <4>1. GoodPc(Top.vector, Top.pc)
        BY <1>2 DEF GoodHandler
      <4>2. Top.vector \in {32, 33, 39}
        BY <3>3, <4>1, ZenonT(30) DEF GoodPc
      <4> QED BY <4>2
    <3>5. CASE isr = {}
      BY <1>7, <3>5, ZenonT(30) DEF handler_eoi, pic_send_eoi
    <3>6. CASE isr = {Top.vector - 32}
      BY <1>7, <3>2, <3>4, <3>6, ZenonT(30) DEF handler_eoi
    <3> QED BY <3>1, <3>5, <3>6
  <2>2. CASE Top.vector = 33 /\ Top.pc = "eoi"
    <3>1. handlers' = [handlers EXCEPT ![cur] = <<g("eoi again")>>]
      BY <1>1, <1>2, <1>7, <2>2, GotoValue, ZenonT(30) DEF handler_eoi, Steps
    <3>2. GoodHandler(g("eoi again"))
      BY <1>2, <2>2, GoodNext, ZenonT(30) DEF GoodPc, Steps
    <3> QED BY <1>1, <1>2, <1>7, <2>1, <3>1, <3>2, ContinuePreserves, ZenonT(30) DEF handler_eoi
  <2>3. CASE ~(Top.vector = 33 /\ Top.pc = "eoi")
    <3>1. handlers' = [handlers EXCEPT ![cur] = <<g("return")>>]
      BY <1>1, <1>2, <1>7, <2>3, GotoValue, ZenonT(30) DEF handler_eoi, Steps
    <3>2. GoodHandler(g("return"))
      <4>1. Top.vector \in {32, 33, 39}
        BY <1>2, <1>7, ZenonT(30) DEF GoodHandler, GoodPc, handler_eoi, At
      <4>2. GoodPc(Top.vector, "return")
        BY <4>1 DEF GoodPc
      <4> QED BY <1>2, <4>2, GoodNext, ZenonT(30) DEF Steps
    <3> QED BY <1>1, <1>2, <1>7, <2>1, <3>1, <3>2, ContinuePreserves, ZenonT(30) DEF handler_eoi
  <2> QED BY <2>2, <2>3
<1> QED BY <1>3, <1>4, <1>5, <1>6, <1>7 DEF HandlerStep

\* The return to any stack keeps it.
LEMMA ReturnPreserves ==
  ASSUME HandlerInv, NEW s \in AllStacks, handler_return(s)
  PROVE  HandlerInv'
<1>1. InHandler /\ handlers[cur] = <<Top>> /\ Top.pc = "return"
  BY TopHandler DEF handler_return, At
<1>2. handlers' = [handlers EXCEPT ![cur] = <<>>]
  BY <1>1 DEF handler_return
<1>3. \A t \in AllStacks : handlers'[t] = <<>>
  BY <1>2 DEF HandlerInv, Types, OneHandler
<1>4. isr' = {}
  BY <1>1 DEF HandlerInv, ServiceInv, ServiceOf, handler_return, pic
<1>5. locked' = {}
  BY <1>1 DEF HandlerInv, OneHandler, handler_return, sections
<1>6. cur' = s /\ ~InHandler'
  BY <1>3 DEF handler_return, InHandler
<1>7. Types'
  <2>1. IF_' \in BOOLEAN
    BY ZenonT(30) DEF handler_return, PoppedFlag
  <2> QED BY <1>2, <1>6, <2>1 DEF HandlerInv, Types, handler_return, sections
<1>8. OneHandler' /\ ServiceInv' /\ SectionInv'
  BY <1>3, <1>4, <1>5, <1>6 DEF OneHandler, ServiceInv, SectionInv
<1> QED BY <1>7, <1>8 DEF HandlerInv

\* With interrupts on, a task is outside its sections.
LEMMA FlagOnly ==
  ASSUME HandlerInv, IF_ \/ InTask
  PROVE  ~InHandler /\ locked = {}
  BY DEF HandlerInv, OneHandler, SectionInv, InTask

\* So does what tasks do.
LEMMA TaskStepPreserves ==
  ASSUME HandlerInv,
         kmain_sti \/ task_lock \/ task_unlock \/ \E s \in AllStacks : context_created(s)
  PROVE  HandlerInv'
<1>1. CASE kmain_sti
  <2>1. ~InHandler /\ locked = {}
    BY <1>1, FlagOnly, ZenonT(30) DEF kmain_sti
  <2>2. Types' /\ OneHandler' /\ ServiceInv' /\ SectionInv'
    BY <1>1, <2>1 DEF kmain_sti, HandlerInv, Types, OneHandler, ServiceInv, SectionInv, InHandler, sections, pic
  <2> QED BY <2>2 DEF HandlerInv
<1>2. CASE task_lock
  <2>1. ~InHandler /\ locked = {}
    BY <1>2, FlagOnly DEF task_lock
  <2>2. Types'
    BY <1>2, ZenonT(30) DEF task_lock, HandlerInv, Types, irq_save
  <2>3. OneHandler' /\ ServiceInv' /\ SectionInv'
    BY <1>2, <2>1 DEF task_lock, HandlerInv, OneHandler, ServiceInv, SectionInv, InHandler, pic, irq_save
  <2> QED BY <2>2, <2>3 DEF HandlerInv
<1>3. CASE task_unlock
  <2>1. ~InHandler /\ locked' = {}
    BY <1>3, ZenonT(30) DEF task_unlock, HandlerInv, SectionInv
  <2>2. Types'
    BY <1>3, ZenonT(30) DEF task_unlock, HandlerInv, Types, irq_restore
  <2>3. OneHandler' /\ ServiceInv' /\ SectionInv'
    BY <1>3, <2>1, ZenonT(30) DEF task_unlock, HandlerInv, OneHandler, ServiceInv, SectionInv, InHandler, pic
  <2> QED BY <2>2, <2>3 DEF HandlerInv
<1>4. CASE \E s \in AllStacks : context_created(s)
  BY <1>4 DEF context_created, HandlerInv, Types, OneHandler, ServiceInv, SectionInv, InHandler, Top, pic, sections
<1> QED BY <1>1, <1>2, <1>3, <1>4


\* Every step keeps it, and every stutter.
LEMMA NextPreservesHandlerInv == HandlerInv /\ [InterruptsNext]_interruptVars => HandlerInv'
<1> SUFFICES ASSUME HandlerInv, [InterruptsNext]_interruptVars PROVE HandlerInv'
  OBVIOUS
<1>1. CASE pit_period \/ key_code
  BY <1>1 DEF pit_period, key_code, HandlerInv, Types, OneHandler, ServiceInv, SectionInv, InHandler, Top, sections
<1>2. CASE UNCHANGED interruptVars
  BY <1>2 DEF interruptVars, HandlerInv, Types, OneHandler, ServiceInv, SectionInv, InHandler, Top, pic, sections
<1>3. CASE spurious
  <2>1. isr' = {} /\ ~InHandler /\ locked = {}
    BY <1>3, FlagOnly DEF spurious, pic, HandlerInv, ServiceInv
  <2>2. 39 \in Vectors
    BY DEF Vectors, IRQs
  <2> QED BY <1>3, <2>1, <2>2, EnterPreserves DEF spurious
<1>4. ASSUME NEW irq \in {0, 1}, deliver(irq) PROVE HandlerInv'
  <2>1. ~InHandler /\ locked = {}
    BY <1>4, FlagOnly DEF deliver
  <2>2. isr' = {irq}
    BY <1>4, <2>1 DEF deliver, HandlerInv, ServiceInv
  <2>3. 32 + irq \in Vectors
    BY DEF Vectors, IRQs
  <2>4. isr' \subseteq ServiceOf([vector |-> 32 + irq, pc |-> Dispatch(32 + irq), flags |-> FALSE])
    <3>1. Dispatch(32 + irq) \in {"tick", "handle"} /\ 32 + irq \in {32, 33} /\ (32 + irq) - 32 = irq
      <4>1. CASE irq = 0
        BY <4>1, DispatchValue
      <4>2. CASE irq = 1
        BY <4>2, DispatchValue
      <4> QED BY <4>1, <4>2
    <3> QED BY <2>2, <3>1, ZenonT(30) DEF ServiceOf
  <2> QED BY <1>4, <2>1, <2>3, <2>4, EnterPreserves DEF deliver
<1>5. CASE HandlerStep
  BY <1>5, HandlerStepPreserves
<1>6. ASSUME NEW s \in AllStacks, handler_return(s) PROVE HandlerInv'
  BY <1>6, ReturnPreserves
<1>7. CASE kmain_sti \/ task_lock \/ task_unlock \/ \E s \in AllStacks : context_created(s)
  BY <1>7, TaskStepPreserves
<1>8. ASSUME NEW v \in Faults \cup {49, 50}, InTask, Enter(v, Own(cur)), UNCHANGED pic PROVE HandlerInv'
  <2>1. isr' = {} /\ ~InHandler /\ locked = {}
    BY <1>8, FlagOnly DEF pic, HandlerInv, ServiceInv
  <2>2. v \in Vectors
    BY DEF Vectors
  <2> QED BY <1>8, <2>1, <2>2, EnterPreserves
<1> QED
  BY <1>1, <1>2, <1>3, <1>4, <1>5, <1>6, <1>7, <1>8 DEF InterruptsNext, software_interrupt, exception

\* It holds always.
LEMMA HandlerInvHolds == InterruptsSpec => []HandlerInv
<1> QED BY InitHandlerInv, NextPreservesHandlerInv, PTL DEF InterruptsSpec

-----------------------------------------------------------------------------
(***************************************************************************)
(* Theorems.                                                               *)
(***************************************************************************)
\* Every handler ends the interrupt it serves before it returns, to whatever stack.
THEOREM ServiceEnds == InterruptsSpec => []NothingLeftInService
<1>1. HandlerInv => NothingLeftInService
  <2> SUFFICES ASSUME HandlerInv PROVE NothingLeftInService
    OBVIOUS
  <2>1. IF_ => isr = {}
    BY DEF HandlerInv, OneHandler, ServiceInv
  <2>2. ASSUME NEW irq \in isr PROVE InHandler /\ Top.vector = 32 + irq
    <3>1. InHandler /\ irq \in ServiceOf(Top)
      BY <2>2 DEF HandlerInv, ServiceInv
    <3>2. Top.vector \in {32, 33} /\ irq = Top.vector - 32
      BY <3>1, ZenonT(30) DEF ServiceOf
    <3> QED BY <3>1, <3>2
  <2> QED BY <2>1, <2>2 DEF NothingLeftInService
<1> QED BY <1>1, HandlerInvHolds, PTL

\* No handler is interrupted.
THEOREM HandlersNeverNest == InterruptsSpec => []HandlersDontNest
<1>1. HandlerInv => HandlersDontNest
  <2> SUFFICES ASSUME HandlerInv, NEW s \in AllStacks
               PROVE  Len(handlers[s]) <= IF s = cur THEN 1 ELSE 0
    BY DEF HandlersDontNest
  <2>1. CASE s = cur
    <3>1. handlers[cur] = <<>> \/ \E h \in Handler : handlers[cur] = <<h>>
      BY DEF HandlerInv, Types
    <3>2. CASE handlers[cur] = <<>>
      BY <2>1, <3>2
    <3>3. CASE handlers[cur] # <<>>
      <4>1. PICK h : handlers[cur] = <<h>>
        BY <3>1, <3>3
      <4> QED BY <2>1, <4>1
    <3> QED BY <3>2, <3>3
  <2>2. CASE s # cur
    BY <2>2 DEF HandlerInv, OneHandler
  <2> QED BY <2>1, <2>2
<1> QED BY <1>1, HandlerInvHolds, PTL

\* At most one section with interrupts off is open, in all tasks and handlers.
THEOREM SectionsAreExclusive == InterruptsSpec => []SectionsExclusive
<1> DEFINE open == {s \in AllStacks : \E i \in DOMAIN handlers[s] : handlers[s][i].pc = "locked"}
<1>1. HandlerInv => (locked = {} /\ (open = {} \/ open = {cur})) \/ (locked = {cur} /\ open = {})
  <2> SUFFICES ASSUME HandlerInv
               PROVE  (locked = {} /\ (open = {} \/ open = {cur})) \/ (locked = {cur} /\ open = {})
    OBVIOUS
  <2>1. open \subseteq {cur}
    BY DEF HandlerInv, OneHandler
  <2>2. open # {} => InHandler
    BY <2>1 DEF InHandler
  <2>3. open = {} \/ open = {cur}
    BY <2>1
  <2>4. locked = {} \/ locked = {cur}
    BY DEF HandlerInv, SectionInv
  <2>5. open # {} => locked = {}
    BY <2>2, ZenonT(30) DEF HandlerInv, OneHandler
  <2> HIDE DEF open
  <2> QED BY <2>3, <2>4, <2>5, ZenonT(30)
<1>2. ASSUME HandlerInv PROVE SectionsExclusive
  <2> HIDE DEF open
  <2>1. locked \cap open = {} /\ \A s, t \in locked \cup open : s = t
    BY <1>1, <1>2
  <2> QED BY <2>1 DEF SectionsExclusive, open
<1> QED BY <1>2, HandlerInvHolds, PTL

\* An end of interrupt never ends the service of another handler.
THEOREM EoisEndTheirOwn == InterruptsSpec => EoiEndsOwn
<1>1. NothingLeftInService => \A irq \in isr \ isr' : Top.vector = 32 + irq
  BY DEF NothingLeftInService
<1>2. NothingLeftInService /\ [InterruptsNext]_interruptVars =>
        [\A irq \in isr \ isr' : Top.vector = 32 + irq]_interruptVars
  BY <1>1
<1> QED BY <1>2, ServiceEnds, PTL DEF InterruptsSpec, EoiEndsOwn

-----------------------------------------------------------------------------
(***************************************************************************)
(* Frames.  The invariant says of every stack that the CPU is not working  *)
(* on that the words on top give back its task, and what is below is the   *)
(* task's own.                                                             *)
(***************************************************************************)
FixedWords    == {Zero, ErrorCode, Eflags(TRUE), KernelCs, TaskExit}
VectorWords   == {Vector(v) : v \in Vectors}
RegisterWords == {<<r, s>> : r \in Registers, s \in AllStacks}
EntryWords    == {<<"entry", s>> : s \in AllStacks}
Words         == FixedWords \cup VectorWords \cup RegisterWords \cup EntryWords

Resumes(s) ==
  /\ Popped(stack[s]) \in {Own(s), Fresh(s)}
  /\ PoppedFlag(stack[s])
  /\ Below(stack[s]) = OwnWords(s)

FrameInv ==
  /\ stack \in [AllStacks -> Seq(Words)]
  /\ \A s \in AllStacks : s # cur \/ InHandler => Resumes(s)
  /\ TaskStateRestored
  /\ booting \in BOOLEAN
  /\ booting => ~InHandler
  /\ cur \in locked => flags[cur] = ~booting

\* A stack of fourteen words, as task_create_context writes them.
LEMMA FourteenWords ==
  ASSUME NEW W, NEW z \in W, NEW a \in W, NEW b \in W, NEW c \in W, NEW d \in W, NEW e \in W
  PROVE  <<z, z, z, z, z, z, z, z, a, z, b, c, d, e>> \in Seq(W)
  OBVIOUS

\* The words that are on the stacks.
LEMMA StackWords ==
  ASSUME NEW s \in AllStacks, NEW v \in Vectors
  PROVE  /\ HasWords(Words, v)
         /\ Own(s) \in [Registers -> Words] /\ Fresh(s) \in [Registers -> Words]
         /\ OwnWords(s) \in Seq(Words)
         /\ task_create_context(s) \in Seq(Words)
<1>1. /\ Zero \in Words /\ ErrorCode \in Words /\ Eflags(TRUE) \in Words
      /\ KernelCs \in Words /\ TaskExit \in Words
  BY DEF Words, FixedWords
<1>2. \A x \in Vectors : Vector(x) \in Words
  <2>1. \A x \in Vectors : Vector(x) \in VectorWords
    BY DEF VectorWords
  <2> QED BY <2>1 DEF Words
<1>3. HasWords(Words, v)
  BY <1>1, <1>2, ZenonT(30) DEF HasWords
<1>4. \A r \in Registers : <<r, s>> \in Words
  <2>1. \A r \in Registers : <<r, s>> \in RegisterWords
    BY DEF RegisterWords
  <2> QED BY <2>1, ZenonT(30) DEF Words
<1>5. <<"entry", s>> \in Words
  <2>1. <<"entry", s>> \in EntryWords
    BY DEF EntryWords
  <2> QED BY <2>1 DEF Words
<1>6. Own(s) \in [Registers -> Words]
  BY <1>1, <1>4 DEF Own
<1>7. Fresh(s) \in [Registers -> Words]
  BY <1>1, <1>5 DEF Fresh
<1>8. OwnWords(s) \in Seq(Words)
  BY <1>1 DEF OwnWords
<1>9. task_create_context(s) \in Seq(Words)
  <2>1. Fresh(s)["eip"] \in Words
    BY <1>7 DEF Registers
  <2>2. Vector(32) \in Words
    BY <1>2 DEF Vectors, IRQs
  <2> QED BY <1>1, <2>1, <2>2, FourteenWords, ZenonT(30) DEF task_create_context
<1> QED BY <1>3, <1>6, <1>7, <1>8, <1>9

\* Before sti, with an empty stack for kmain and first frames for the others.
LEMMA InitFrameInv == InterruptsInit => FrameInv
<1> SUFFICES ASSUME InterruptsInit PROVE FrameInv
  OBVIOUS
<1>1. /\ BootStack \in AllStacks /\ cur = BootStack /\ cpu = Own(BootStack)
      /\ IF_ = FALSE /\ booting = TRUE /\ locked = {} /\ ~InHandler
  BY InterruptsAssumption DEF InterruptsInit, InHandler
<1>2. stack = [s \in AllStacks |-> IF s = BootStack THEN <<>> ELSE task_create_context(s)]
  BY DEF InterruptsInit
<1>3. stack \in [AllStacks -> Seq(Words)]
  <2>1. 32 \in Vectors
    BY DEF Vectors, IRQs
  <2>2. \A s \in AllStacks : task_create_context(s) \in Seq(Words)
    BY <2>1, StackWords
  <2>3. <<>> \in Seq(Words)
    OBVIOUS
  <2> QED BY <1>2, <2>2, <2>3
<1>4. ASSUME NEW s \in AllStacks, s # cur PROVE Resumes(s)
  <2>1. stack[s] = task_create_context(s) /\ OwnWords(s) = <<TaskExit>>
    BY <1>1, <1>2, <1>4 DEF OwnWords
  <2>2. GivesBack(stack[s], Fresh(s), OwnWords(s))
    BY <2>1, NewTaskFrame
  <2> QED BY <2>2 DEF Resumes, GivesBack
<1>5. TaskStateRestored
  BY <1>1, <1>2, ZenonT(30) DEF TaskStateRestored, OwnWords
<1> QED BY <1>1, <1>3, <1>4, <1>5 DEF FrameInv

\* Through a gate with interrupts on: the frame and the words below it give the
\* task back.
LEMMA EnterKeepsFrames ==
  ASSUME HandlerInv, FrameInv, ~InHandler, IF_, NEW v \in Vectors,
         NEW c \in {Own(cur), Fresh(cur)}, Enter(v, c)
  PROVE  FrameInv'
<1> DEFINE k == Pushed(v, c, TRUE) \o stack[cur]
<1>1. cur \in AllStacks /\ IF_ = TRUE
  BY DEF HandlerInv, Types
<1>2. stack[cur] = OwnWords(cur) /\ cur \notin locked /\ ~booting
  BY <1>1, ZenonT(30) DEF FrameInv, TaskStateRestored
<1>3. c \in [Registers -> Words] /\ stack[cur] \in Seq(Words) /\ HasWords(Words, v) /\ v # 29
  <2>1. v # 29
    BY VectorCases, InterruptsAssumption DEF Vectors, IRQs
  <2> QED BY <1>1, <1>2, <2>1, StackWords
<1>4. GivesBack(k, c, stack[cur])
  BY <1>3, FrameGoesBack, ZenonT(30)
<1>5. k \in Seq(Words)
  <2>1. Pushed(v, c, TRUE) \in Seq(Words)
    BY <1>3, PushedWords, ZenonT(30) DEF IsFrame
  <2> QED BY <1>3, <2>1, Concat, ZenonT(30)
<1> HIDE DEF k
<1>6. stack' = [stack EXCEPT ![cur] = k]
  BY <1>1 DEF Enter, k
<1>7. stack' \in [AllStacks -> Seq(Words)] /\ stack'[cur] = k
  BY <1>1, <1>5, <1>6, ZenonT(30) DEF FrameInv
<1>8. /\ cur' = cur /\ booting' = booting /\ locked' = locked /\ flags' = flags
  BY ZenonT(30) DEF Enter, sections
<1>9. InHandler'
  BY <1>1, <1>8 DEF Enter, InHandler, HandlerInv, Types
<1>10. ASSUME NEW s \in AllStacks PROVE Resumes(s)'
  <2>1. CASE s = cur
    BY <1>2, <1>4, <1>7, <1>8, <2>1, ZenonT(30) DEF Resumes, GivesBack, OwnWords
  <2>2. CASE s # cur
    <3>1. stack'[s] = stack[s]
      BY <1>6, <2>2, ZenonT(30) DEF FrameInv
    <3> QED BY <2>2, <3>1 DEF FrameInv, Resumes, OwnWords
  <2> QED BY <2>1, <2>2, ZenonT(30)
<1> QED BY <1>2, <1>7, <1>8, <1>9, <1>10, ZenonT(30) DEF FrameInv, TaskStateRestored

\* Back to a task, on whatever stack.
LEMMA ReturnKeepsFrames ==
  ASSUME HandlerInv, FrameInv, NEW s \in AllStacks, handler_return(s)
  PROVE  FrameInv'
<1>1. InHandler /\ ~booting /\ locked = {} /\ Resumes(s)
  BY DEF handler_return, At, FrameInv, HandlerInv, OneHandler
<1>2. /\ cur' = s /\ cpu' = Popped(stack[s]) /\ IF_' = TRUE
      /\ stack' = [stack EXCEPT ![s] = OwnWords(s)]
  BY <1>1, ZenonT(30) DEF handler_return, Resumes, PoppedFlag
<1>3. booting' = booting /\ locked' = locked
  BY DEF handler_return, sections
<1>4. stack' \in [AllStacks -> Seq(Words)] /\ stack'[s] = OwnWords(s)
  <2>1. 32 \in Vectors
    BY DEF Vectors, IRQs
  <2>2. OwnWords(s) \in Seq(Words)
    BY <2>1, StackWords, ZenonT(30)
  <2> QED BY <1>2, <2>2 DEF FrameInv
<1>5. ~InHandler'
  <2>1. handlers[cur] = <<Top>>
    BY <1>1, TopHandler
  <2>2. handlers' = [handlers EXCEPT ![cur] = <<>>]
    BY <2>1 DEF handler_return
  <2>3. handlers'[s] = <<>>
    BY <2>2, ZenonT(30) DEF HandlerInv, Types, OneHandler
  <2> QED BY <1>2, <2>3 DEF InHandler
<1>6. ASSUME NEW t \in AllStacks, t # s PROVE Resumes(t)'
  <2>1. stack'[t] = stack[t]
    BY <1>2, <1>6 DEF FrameInv
  <2> QED BY <1>1, <2>1, ZenonT(30) DEF FrameInv, Resumes, OwnWords
<1>7. TaskStateRestored'
  BY <1>1, <1>2, <1>3, <1>4, ZenonT(30) DEF Resumes, TaskStateRestored, OwnWords
<1> QED BY <1>1, <1>2, <1>3, <1>4, <1>5, <1>6, <1>7, ZenonT(30) DEF FrameInv

\* Inside a handler the stacks stay as they are.
LEMMA HandlerStepKeepsFrames ==
  ASSUME HandlerInv, FrameInv, HandlerStep
  PROVE  FrameInv'
<1>1. InHandler
  BY ZenonT(30) DEF HandlerStep, pit_tick, handler_lock, handler_unlock, handler_no_output, handler_eoi, At
<1>2. UNCHANGED <<cur, stack, booting, locked, flags>>
  BY ZenonT(30) DEF HandlerStep, pit_tick, handler_lock, handler_unlock, handler_no_output, handler_eoi, sections
<1>3. handlers[cur] = <<Top>> /\ cur \in AllStacks
  BY <1>1, TopHandler, ZenonT(30) DEF HandlerInv, Types
<1>4. InHandler'
  <2>1. ASSUME NEW pc, Goto(pc) PROVE handlers'[cur] # <<>>
    BY <1>3, <2>1 DEF Goto, HandlerInv, Types
  <2>2. handler_lock => handlers'[cur] # <<>>
    BY <1>3 DEF handler_lock, HandlerInv, Types
  <2>3. pit_tick \/ handler_unlock \/ handler_no_output \/ handler_eoi => handlers'[cur] # <<>>
    BY <2>1, ZenonT(30) DEF pit_tick, handler_unlock, handler_no_output, handler_eoi
  <2>4. handlers'[cur] # <<>>
    BY <2>2, <2>3 DEF HandlerStep
  <2> QED BY <1>2, <2>4 DEF InHandler
<1>5. \A s \in AllStacks : Resumes(s)'
  BY <1>1, <1>2, ZenonT(30) DEF FrameInv, Resumes, OwnWords
<1> QED BY <1>1, <1>2, <1>4, <1>5 DEF FrameInv, TaskStateRestored

\* The steps of a task leave the frames of the others alone.
LEMMA TaskStepKeepsFrames ==
  ASSUME HandlerInv, FrameInv, kmain_sti \/ task_lock \/ task_unlock
  PROVE  FrameInv'
<1>1. /\ ~InHandler /\ cur \in AllStacks /\ locked \subseteq {cur} /\ IF_ \in BOOLEAN
      /\ flags \in [AllStacks -> BOOLEAN]
  BY DEF kmain_sti, task_lock, task_unlock, InTask, HandlerInv, Types, SectionInv
<1>2. UNCHANGED <<cur, stack, handlers>>
  BY DEF kmain_sti, task_lock, task_unlock
<1>3. ~InHandler'
  BY <1>1, <1>2, ZenonT(30) DEF InHandler
<1>4. \A s \in AllStacks : s # cur => Resumes(s)'
  BY <1>2 DEF FrameInv, Resumes, OwnWords
<1>5. /\ cpu \in {Own(cur), Fresh(cur)} /\ stack[cur] = OwnWords(cur)
      /\ IF_ = (cur \notin locked /\ ~booting)
  BY <1>1, ZenonT(30) DEF FrameInv, TaskStateRestored
<1>6. cpu' \in {Own(cur), Fresh(cur)}
  BY <1>5 DEF kmain_sti, task_lock, task_unlock
<1>7. booting' \in BOOLEAN /\ IF_' = (cur \notin locked' /\ ~booting')
  <2>1. CASE kmain_sti
    BY <2>1, ZenonT(30) DEF kmain_sti, InTask, sections
  <2>2. CASE task_lock
    BY <2>2, ZenonT(30) DEF task_lock, irq_save, FrameInv
  <2>3. CASE task_unlock
    BY <2>3 DEF task_unlock, irq_restore, FrameInv
  <2> QED BY <2>1, <2>2, <2>3
<1>8. cur \in locked' => flags'[cur] = ~booting'
  <2>1. CASE kmain_sti
    BY <2>1, ZenonT(30) DEF kmain_sti, InTask, sections
  <2>2. CASE task_lock
    <3>1. cur \notin locked
      BY <2>2 DEF task_lock, InTask
    <3>2. flags'[cur] = IF_ /\ booting' = booting
      BY <1>1, <2>2, ZenonT(30) DEF task_lock
    <3> QED BY <1>5, <3>1, <3>2
  <2>3. CASE task_unlock
    BY <2>3, ZenonT(30) DEF task_unlock
  <2> QED BY <2>1, <2>2, <2>3, ZenonT(30)
<1>9. TaskStateRestored'
  BY <1>2, <1>5, <1>6, <1>7, ZenonT(30) DEF TaskStateRestored, OwnWords
<1> QED BY <1>2, <1>3, <1>4, <1>7, <1>8, <1>9, ZenonT(30) DEF FrameInv

\* A new task is given a stack that is not in use.
LEMMA CreationKeepsFrames ==
  ASSUME HandlerInv, FrameInv, NEW s \in AllStacks \ {cur, BootStack}, context_created(s)
  PROVE  FrameInv'
<1>1. UNCHANGED <<cpu, IF_, cur, booting, locked, flags, handlers>>
  BY DEF context_created, sections
<1>2. stack' = [stack EXCEPT ![s] = task_create_context(s)]
  BY DEF context_created
<1>3. stack' \in [AllStacks -> Seq(Words)] /\ stack'[s] = task_create_context(s)
  <2>1. 32 \in Vectors
    BY DEF Vectors, IRQs
  <2>2. task_create_context(s) \in Seq(Words)
    BY <2>1, StackWords
  <2> QED BY <1>2, <2>2 DEF FrameInv
<1>4. Resumes(s)'
  <2>1. GivesBack(stack'[s], Fresh(s), OwnWords(s))
    BY <1>3, NewTaskFrame DEF OwnWords
  <2> QED BY <2>1 DEF Resumes, GivesBack, OwnWords
<1>5. \A t \in AllStacks \ {s} : stack'[t] = stack[t]
  BY <1>2, ZenonT(30) DEF FrameInv
<1>6. \A t \in AllStacks : t # cur \/ InHandler => Resumes(t)'
  BY <1>4, <1>5, ZenonT(30) DEF FrameInv, Resumes, OwnWords
<1>7. InHandler' = InHandler /\ cur \in AllStacks
  BY <1>1, ZenonT(30) DEF InHandler, HandlerInv, Types
<1>8. TaskStateRestored'
  BY <1>1, <1>5, <1>7, ZenonT(30) DEF FrameInv, TaskStateRestored, OwnWords
<1> QED BY <1>1, <1>3, <1>6, <1>7, <1>8 DEF FrameInv

\* Every step keeps the frames.
LEMMA NextPreservesFrameInv ==
  HandlerInv /\ FrameInv /\ [InterruptsNext]_interruptVars => FrameInv'
<1> SUFFICES ASSUME HandlerInv, FrameInv, [InterruptsNext]_interruptVars PROVE FrameInv'
  BY ZenonT(30)
<1>1. CASE pit_period \/ key_code \/ UNCHANGED interruptVars
  <2>1. UNCHANGED <<cpu, IF_, cur, stack, booting, locked, flags, handlers>>
    BY <1>1, ZenonT(30) DEF pit_period, key_code, interruptVars, sections
  <2> QED BY <2>1, ZenonT(30) DEF FrameInv, TaskStateRestored, Resumes, InHandler, OwnWords
<1>2. ASSUME NEW v \in {32 + irq : irq \in IRQs}, IF_, Enter(v, cpu) PROVE FrameInv'
  <2>1. ~InHandler
    BY <1>2, FlagOnly, ZenonT(30)
  <2>2. cpu \in {Own(cur), Fresh(cur)}
    BY <2>1 DEF FrameInv, TaskStateRestored
  <2>3. v \in Vectors
    BY DEF Vectors
  <2> QED BY <1>2, <2>1, <2>2, <2>3, EnterKeepsFrames, ZenonT(30)
<1>3. CASE spurious
  BY <1>2, <1>3 DEF spurious, IRQs
<1>4. ASSUME NEW irq \in {0, 1}, deliver(irq) PROVE FrameInv'
  BY <1>2, <1>4 DEF deliver, IRQs
<1>5. CASE HandlerStep
  BY <1>5, HandlerStepKeepsFrames
<1>6. ASSUME NEW s \in AllStacks, handler_return(s) PROVE FrameInv'
  BY <1>6, ReturnKeepsFrames
<1>7. CASE kmain_sti \/ task_lock \/ task_unlock
  BY <1>7, TaskStepKeepsFrames, ZenonT(30)
<1>8. ASSUME NEW v \in Faults \cup {49, 50}, InTask, ~booting, Enter(v, Own(cur)) PROVE FrameInv'
  <2>1. ~InHandler /\ cur \notin locked
    BY <1>8 DEF InTask
  <2>2. IF_
    BY <1>8, <2>1, ZenonT(30) DEF FrameInv, TaskStateRestored
  <2>3. v \in Vectors
    BY DEF Vectors
  <2> QED BY <1>8, <2>1, <2>2, <2>3, EnterKeepsFrames
<1>9. ASSUME NEW s \in AllStacks \ {cur, BootStack}, context_created(s) PROVE FrameInv'
  BY <1>9, CreationKeepsFrames
<1> QED
  BY <1>1, <1>3, <1>4, <1>5, <1>6, <1>7, <1>8, <1>9, ZenonT(30) DEF InterruptsNext, software_interrupt, exception

\* A task goes on with its own registers, words and flag, however it was stopped.
THEOREM TasksAreRestored == InterruptsSpec => []TaskStateRestored
<1>1. InterruptsInit => FrameInv
  BY InitFrameInv
<1>2. InterruptsSpec => []FrameInv
  BY <1>1, HandlerInvHolds, NextPreservesFrameInv, PTL DEF InterruptsSpec
<1>3. FrameInv => TaskStateRestored
  BY ZenonT(30) DEF FrameInv
<1> QED BY <1>2, <1>3, PTL

-----------------------------------------------------------------------------
(***************************************************************************)
(* PART 3.  Kernel.                                                        *)
(***************************************************************************)
\* What is used of the scheduler: whose stack the CPU is on, and which ids are
\* in use.
SchedulerInv == S!TypeOK /\ S!CurrentRuns /\ S!ContextIntegrity /\ S!IdsFollowSlots

-----------------------------------------------------------------------------
(***************************************************************************)
(* Every step of the kernel is a step of the scheduler or leaves its state *)
(* alone.                                                                  *)
(***************************************************************************)
\* One case per action.
LEMMA NextSchedules == [Next]_vars => [S!Next]_S!vars
<1> SUFFICES ASSUME [Next]_vars PROVE [S!Next]_S!vars
  OBVIOUS
<1>1. ASSUME UNCHANGED cur, UNCHANGED schedulerVars PROVE UNCHANGED S!vars
  BY <1>1, ZenonT(30) DEF schedulerVars, S!vars
<1>2. CASE UNCHANGED vars
  BY <1>1, <1>2, ZenonT(30) DEF vars, interruptVars
<1>3. CASE PitPeriod \/ KeyCode \/ Sti
  BY <1>1, <1>3 DEF PitPeriod, KeyCode, Sti, Unnoticed, pit_period, key_code, kmain_sti
<1>4. CASE Spurious \/ (\E irq \in {0, 1} : Deliver(irq)) \/ \E v \in Faults : Exception(v)
  BY <1>1, <1>4, ZenonT(30) DEF Spurious, Deliver, Exception, Unnoticed, spurious, deliver, exception, Enter
<1>5. CASE Yield \/ Exit
  BY <1>1, <1>5, ZenonT(30) DEF Yield, Exit, Unnoticed, software_interrupt, Enter
<1>6. CASE Handle
  <2>1. UNCHANGED cur
    BY <1>6, ZenonT(30) DEF Handle, HandlerStep, pit_tick, handler_lock, handler_unlock, handler_no_output, handler_eoi
  <2> QED BY <1>1, <1>6, <2>1, ZenonT(30) DEF Handle, Unnoticed
<1>7. CASE PlainReturn
  BY <1>1, <1>7, ZenonT(30) DEF PlainReturn, ReturnTo, handler_return
<1>8. CASE TimerReturn \/ YieldReturn \/ ExitReturn
  BY <1>8 DEF TimerReturn, YieldReturn, ExitReturn, S!Next
<1>9. CASE Block \/ CreateReturn
  BY <1>9, ZenonT(30) DEF Block, CreateReturn, S!Next
<1>10. CASE CreateNull
  BY <1>10, ZenonT(30) DEF CreateNull, S!Next, S!Entries
<1>11. CASE \E what \in Sections : Enters(what)
  BY <1>1, <1>11, ZenonT(30) DEF Enters, task_lock
<1>12. CASE WriteScreen \/ Leave
  BY <1>1, <1>12, ZenonT(30) DEF WriteScreen, Leave, task_unlock, interruptVars
<1>13. CASE Create
  BY <1>13, ZenonT(30) DEF Create, S!Next, S!Entries
<1>14. CASE Unblock
  BY <1>14 DEF Unblock, S!Next
<1> QED
  BY <1>2, <1>3, <1>4, <1>5, <1>6, <1>7, <1>8, <1>9, <1>10, <1>11, <1>12, <1>13, <1>14, ZenonT(30)
  DEF Next, HandlerRuns, SectionStep

\* The kernel implements the scheduler: the steps of handlers and sections add up
\* to steps of Scheduler, and between them nothing that it knows of changes.
THEOREM KernelRefinesScheduler == Spec => S!Spec
<1>1. Init => S!Init
  BY ZenonT(30) DEF Init
<1> QED BY <1>1, NextSchedules, PTL DEF Spec, S!Spec

-----------------------------------------------------------------------------
(***************************************************************************)
(* Every step of the kernel is a step of Interrupts or leaves its state    *)
(* alone.  task_create is the one that needs the scheduler's invariant.    *)
(***************************************************************************)
\* The stack of a new task is not the one the CPU is on, nor the kernel's.
LEMMA NewStackIsFree ==
  ASSUME SchedulerInv, S!task_create("task"), NEW t \in S!UserSlots, S!FirstFree(t),
         state'[t] = S!TASK_READY
  PROVE  esp'[t] \in AllStacks \ {cur, BootStack}
<1>1. PICK s \in S!UserSlots :
        /\ S!FirstFree(s)
        /\ state' = [state EXCEPT ![s] = IF S!NewId(s) - 1 < S!MaxUserTasks THEN S!TASK_READY ELSE @]
        /\ esp' = [esp EXCEPT ![s] = IF S!NewId(s) - 1 < S!MaxUserTasks THEN S!NewId(s) - 1 ELSE @]
  BY ZenonT(30) DEF S!task_create
<1>2. s = t
  BY <1>1, KernelAssumption DEF S!FirstFree, S!UserSlots
<1>3. esp'[t] = S!NewId(t) - 1 /\ S!NewId(t) - 1 < S!MaxUserTasks
  BY <1>1, <1>2 DEF SchedulerInv, S!IdsFollowSlots, S!TypeOK, S!Tasks, S!Slots, S!UserSlots
<1>4. S!InOwnCode /\ curTask \in S!Slots
  BY ZenonT(30) DEF S!task_create, S!InOwnCode, SchedulerInv, S!TypeOK, S!Tasks
<1>5. t # curTask /\ S!Live(curTask)
  BY <1>4, ZenonT(30) DEF SchedulerInv, S!CurrentRuns, S!FirstFree, S!IsFree, S!Live, S!TASK_RUNNING, S!TASK_BLOCKED, S!TASK_TERMINATED
<1>6. cur = IF curTask = 0 THEN MaxTasks - 1 ELSE id[curTask] - 1
  BY <1>4, KernelAssumption DEF SchedulerInv, S!ContextIntegrity, S!OwnStack, S!idleTask, S!Slots, S!KernelTask, S!KernelStack, S!MaxUserTasks
<1>7. nextTaskID \in 1 .. MaxTasks /\ t \in 1 .. MaxTasks - 1 /\ MaxTasks \in Nat
  BY KernelAssumption, ZenonT(30) DEF SchedulerInv, S!TypeOK, S!UserSlots
<1>8. id[t] = IF t < nextTaskID THEN t ELSE 0
  BY ZenonT(30) DEF SchedulerInv, S!IdsFollowSlots
<1>9. curTask # 0 => id[curTask] = curTask /\ curTask < nextTaskID
  BY <1>4, <1>5, <1>7 DEF SchedulerInv, S!IdsFollowSlots, S!Slots, S!UserSlots
<1>10. S!NewId(t) = IF t < nextTaskID THEN t ELSE nextTaskID
  BY <1>7, <1>8 DEF S!NewId
<1>11. S!NewId(t) - 1 \in 0 .. MaxTasks - 2
  BY <1>3, <1>7, <1>10 DEF S!MaxUserTasks
<1>12. S!NewId(t) - 1 # cur
  BY <1>4, <1>5, <1>6, <1>7, <1>9, <1>10, <1>11 DEF S!Slots
<1> QED BY <1>3, <1>7, <1>11, <1>12, KernelAssumption DEF S!Stacks, S!KernelStack, S!MaxUserTasks

\* One case per action.
LEMMA NextInterrupts == SchedulerInv /\ [Next]_vars => [InterruptsNext]_interruptVars
<1> SUFFICES ASSUME SchedulerInv, [Next]_vars PROVE [InterruptsNext]_interruptVars
  OBVIOUS
<1>1. CASE UNCHANGED interruptVars
  BY <1>1
<1>2. CASE UNCHANGED vars
  BY <1>2 DEF vars
<1>3. CASE PitPeriod \/ KeyCode \/ Sti \/ Spurious \/ Handle
  BY <1>3, ZenonT(30) DEF PitPeriod, KeyCode, Sti, Spurious, Handle, InterruptsNext
<1>4. CASE (\E irq \in {0, 1} : Deliver(irq)) \/ \E v \in Faults : Exception(v)
  BY <1>4, ZenonT(30) DEF Deliver, Exception, InterruptsNext
<1>5. CASE Yield \/ Exit
  BY <1>5, ZenonT(30) DEF Yield, Exit, InterruptsNext
<1>6. CASE TimerReturn \/ YieldReturn \/ ExitReturn
  BY <1>6, ZenonT(30) DEF TimerReturn, YieldReturn, ExitReturn, ReturnTo, InterruptsNext
<1>7. CASE PlainReturn
  <2>1. cur \in AllStacks
    BY KernelAssumption DEF SchedulerInv, S!TypeOK
  <2> QED BY <1>7, <2>1, ZenonT(30) DEF PlainReturn, ReturnTo, InterruptsNext
<1>8. CASE Block \/ CreateReturn \/ CreateNull \/ WriteScreen \/ Unblock
  BY <1>8, ZenonT(30) DEF Block, CreateReturn, CreateNull, WriteScreen, Unblock, Quiet
<1>9. CASE (\E what \in Sections : Enters(what)) \/ Leave
  BY <1>9, ZenonT(30) DEF Enters, Leave, InterruptsNext
<1>10. CASE Create
  <2>1. CASE UNCHANGED interruptVars
    BY <2>1
  <2>2. CASE \E t \in S!UserSlots :
               S!task_create("task") /\ S!FirstFree(t) /\ state'[t] = S!TASK_READY /\ context_created(esp'[t])
    BY <2>2, NewStackIsFree DEF InterruptsNext
  <2> QED BY <1>10, <2>1, <2>2, ZenonT(30) DEF Create
<1> QED
  BY <1>2, <1>3, <1>4, <1>5, <1>6, <1>7, <1>8, <1>9, <1>10, ZenonT(30) DEF Next, HandlerRuns, SectionStep

-----------------------------------------------------------------------------
(***************************************************************************)
(* S and SP are the same module with the same substitution: the prover is  *)
(* told so by expanding both.                                              *)
(***************************************************************************)
SP == INSTANCE SchedulerProofs WITH sp <- cur

\* The constants and the initial state.
LEMMA SameInit == S!Init <=> SP!Init
  BY ZenonT(30) DEF S!Init, S!TASK_READY, S!TASK_RUNNING, S!TASK_BLOCKED, S!TASK_TERMINATED,
     S!MaxUserTasks, S!KernelTask, S!UserSlots, S!Slots, S!idleTask, S!Tasks,
     S!KernelStack, S!idleStack, S!Stacks, S!NoContext, S!At, SP!Init, SP!TASK_READY,
     SP!TASK_RUNNING, SP!TASK_BLOCKED, SP!TASK_TERMINATED, SP!MaxUserTasks,
     SP!KernelTask, SP!UserSlots, SP!Slots, SP!idleTask, SP!Tasks, SP!KernelStack,
     SP!idleStack, SP!Stacks, SP!NoContext, SP!At

\* The steps.
LEMMA SameNext == S!Next <=> SP!Next
  BY ZenonT(30) DEF S!Next, S!curIdx, S!nextIdx, S!ScanRange, S!Demote, S!Resume, S!SwitchTo,
     S!NoneReady, S!scheduler_schedule, S!Tick, S!InOwnCode, S!MayStop, S!task_yield,
     S!task_block, S!block_yield, S!scheduler_exit, S!task_exit, S!IsFree,
     S!FirstFree, S!NewId, S!NULL, S!Entries, S!task_create, S!task_create_fails,
     S!create_return, S!Unblockable, S!task_unblock, S!task_unblock_fails,
     S!TASK_READY, S!TASK_RUNNING, S!TASK_BLOCKED, S!TASK_TERMINATED, S!MaxUserTasks,
     S!KernelTask, S!UserSlots, S!Slots, S!idleTask, S!Tasks, S!KernelStack,
     S!idleStack, S!Stacks, S!NoContext, S!At, SP!Next, SP!curIdx, SP!nextIdx,
     SP!ScanRange, SP!Demote, SP!Resume, SP!SwitchTo, SP!NoneReady,
     SP!scheduler_schedule, SP!Tick, SP!InOwnCode, SP!MayStop, SP!task_yield,
     SP!task_block, SP!block_yield, SP!scheduler_exit, SP!task_exit, SP!IsFree,
     SP!FirstFree, SP!NewId, SP!NULL, SP!Entries, SP!task_create,
     SP!task_create_fails, SP!create_return, SP!Unblockable, SP!task_unblock,
     SP!task_unblock_fails, SP!TASK_READY, SP!TASK_RUNNING, SP!TASK_BLOCKED,
     SP!TASK_TERMINATED, SP!MaxUserTasks, SP!KernelTask, SP!UserSlots, SP!Slots,
     SP!idleTask, SP!Tasks, SP!KernelStack, SP!idleStack, SP!Stacks, SP!NoContext,
     SP!At

\* The specification.
LEMMA SameSpec == S!Spec <=> SP!Spec
<1>1. [S!Next]_S!vars <=> [SP!Next]_SP!vars
  BY SameNext DEF S!vars, SP!vars
<1> QED BY <1>1, SameInit, PTL, ZenonT(30) DEF S!Spec, SP!Spec

\* It holds of the scheduler, by SchedulerProofs.
LEMMA SchedulerInvHolds == S!Spec => []SchedulerInv
<1>1. SP!Spec => [](SP!TypeOK /\ SP!CurrentRuns /\ SP!ContextIntegrity /\ SP!IdsFollowSlots)
  <2>1. SP!Spec => []SP!TypeOK
    BY SP!TypeCorrect, KernelAssumption, ZenonT(30)
  <2>2. SP!Spec => []SP!CurrentRuns
    BY SP!OnlyCurrentRuns, KernelAssumption, ZenonT(30)
  <2>3. SP!Spec => []SP!ContextIntegrity
    BY SP!ContextsAreSafe, KernelAssumption, ZenonT(30)
  <2>4. SP!Spec => []SP!IdsFollowSlots
    BY SP!IdsAreSlots, KernelAssumption
  <2> QED BY <2>1, <2>2, <2>3, <2>4, PTL, ZenonT(30)
<1>2. SP!TypeOK /\ SP!CurrentRuns /\ SP!ContextIntegrity /\ SP!IdsFollowSlots => SchedulerInv
  <2>1. SP!TypeOK => S!TypeOK
    BY ZenonT(30) DEF S!TypeOK, S!TaskStates, S!PCs, S!Contexts, S!MaxUserTasks, S!Slots, S!Tasks,
     S!idleTask, S!Stacks, S!NoContext, S!TASK_READY, S!TASK_RUNNING, S!TASK_BLOCKED,
     S!TASK_TERMINATED, SP!TypeOK, SP!TaskStates, SP!PCs, SP!Contexts,
     SP!MaxUserTasks, SP!Slots, SP!Tasks, SP!idleTask, SP!Stacks, SP!NoContext,
     SP!TASK_READY, SP!TASK_RUNNING, SP!TASK_BLOCKED, SP!TASK_TERMINATED
  <2>2. SP!CurrentRuns => S!CurrentRuns
    BY DEF S!CurrentRuns, S!Tasks, S!Slots, S!idleTask, S!TASK_RUNNING, S!TASK_BLOCKED,
     SP!CurrentRuns, SP!Tasks, SP!Slots, SP!idleTask, SP!TASK_RUNNING, SP!TASK_BLOCKED
  <2>3. SP!ContextIntegrity => S!ContextIntegrity
    BY ZenonT(30) DEF S!ContextIntegrity, S!OwnStack, S!Live, S!Context, S!Tasks, S!Slots, S!idleTask,
     S!idleStack, S!KernelTask, S!KernelStack, S!MaxUserTasks, S!TASK_TERMINATED,
     SP!ContextIntegrity, SP!OwnStack, SP!Live, SP!Context, SP!Tasks, SP!Slots,
     SP!idleTask, SP!idleStack, SP!KernelTask, SP!KernelStack, SP!MaxUserTasks,
     SP!TASK_TERMINATED
  <2>4. SP!IdsFollowSlots => S!IdsFollowSlots
    BY ZenonT(30) DEF S!IdsFollowSlots, S!UserSlots, S!Live, S!FirstFree, S!IsFree, S!NewId,
     S!MaxUserTasks, S!TASK_TERMINATED, SP!IdsFollowSlots, SP!UserSlots, SP!Live,
     SP!FirstFree, SP!IsFree, SP!NewId, SP!MaxUserTasks, SP!TASK_TERMINATED
  <2> QED BY <2>1, <2>2, <2>3, <2>4, ZenonT(30) DEF SchedulerInv
<1> QED BY <1>1, <1>2, SameSpec, PTL, ZenonT(30)

\* The kernel's scheduler switches between stacks, and puts new tasks on stacks,
\* only as Interrupts allows.
THEOREM KernelRefinesInterrupts == Spec => InterruptsSpec
<1>1. Init => InterruptsInit
  BY DEF Init
<1>2. Spec => []SchedulerInv
  BY KernelRefinesScheduler, SchedulerInvHolds, PTL, ZenonT(30)
<1> QED BY <1>1, <1>2, NextInterrupts, PTL, ZenonT(30) DEF Spec, InterruptsSpec

-----------------------------------------------------------------------------
(***************************************************************************)
(* So the whole kernel has the properties of both.                         *)
(***************************************************************************)
\* Interrupts are ended, handlers not interrupted, sections exclusive.
THEOREM KernelInterruptsSafe ==
  Spec => [](NothingLeftInService /\ HandlersDontNest /\ SectionsExclusive)
BY KernelRefinesInterrupts, ServiceEnds, HandlersNeverNest, SectionsAreExclusive, PTL, ZenonT(30)

\* Under the scheduler each task goes on with its own registers, stack and flag.
THEOREM KernelRestoresTasks == Spec => []TaskStateRestored
BY KernelRefinesInterrupts, TasksAreRestored, PTL

\* No end of interrupt is taken for another one's.
THEOREM KernelEndsItsOwn == Spec => EoiEndsOwn
BY KernelRefinesInterrupts, EoisEndTheirOwn, PTL

\* With interrupts on between any two steps of a task, the CPU is on the stack of
\* the current task and every other live task is saved on its own.
THEOREM KernelContextsAreSafe == Spec => []S!ContextIntegrity
<1>1. SchedulerInv => S!ContextIntegrity
  BY DEF SchedulerInv
<1> QED BY <1>1, KernelRefinesScheduler, SchedulerInvHolds, PTL, ZenonT(30)
==============================================================================
