----------------------------- MODULE DriverProofs -----------------------------
(***************************************************************************)
(* Proofs about Keyboard, for every set of keys, any number of codes under *)
(* way and any answers of the controller, and about Vga, for every size of *)
(* the screen and of the line buffer (the kernel has 80 columns, 25 rows   *)
(* and its own number of lines).                                           *)
(***************************************************************************)
EXTENDS Keyboard, Vga, FiniteSetTheorems, TLAPS

\* A step is for the SMT solver unless it names another prover.
USE SMTT(60)

-----------------------------------------------------------------------------
(***************************************************************************)
(* Part 1: Keyboard.                                                       *)
(***************************************************************************)

(***************************************************************************)
(* The driver's state as a set: the shift keys it takes to be down, and    *)
(* "E0" if a prefix was read last.  What reading a code does to it, and    *)
(* when the code is typed as it should be.                                 *)
(***************************************************************************)
Driver == SUBSET (Shifts \cup {"E0"})

StepOf(d, c) ==
  IF c.key = "E0" THEN d \cup {"E0"}
  ELSE IF "E0" \in d THEN d \ {"E0"}
  ELSE IF c.key \notin Shifts THEN d
  ELSE IF c.up THEN d \ {c.key} ELSE d \cup {c.key}

Typed(d, c) == c.key = "char" /\ "E0" \notin d => (c.held <=> d # {})

\* The driver goes from a to b over the codes q and types each as it should;
\* r is where it is after each code.
Run(r, a, q, b) ==
  /\ r \in [0 .. Len(q) -> Driver]
  /\ r[0] = a /\ r[Len(q)] = b
  /\ \A n \in 1 .. Len(q) : r[n] = StepOf(r[n - 1], q[n]) /\ Typed(r[n - 1], q[n])

Leads(a, q, b) == \E r : Run(r, a, q, b)

(***************************************************************************)
(* The inductive invariant: the codes under way lead the driver from where *)
(* it is to the shift keys that are down now, without a prefix left over.  *)
(***************************************************************************)
Now  == (IF extendedScancode THEN {"E0"} ELSE {})
        \cup (IF leftShiftPressed THEN {"lshift"} ELSE {})
        \cup (IF rightShiftPressed THEN {"rshift"} ELSE {})
Then == pressed \cap Shifts

KeyboardInv == KeyboardTypeOK /\ TypedAsHeld /\ Leads(Now, codes, Then)

-----------------------------------------------------------------------------
\* Reading a code leaves a state of the driver.
LEMMA StepIsDriver ==
  ASSUME NEW d \in Driver, NEW c PROVE StepOf(d, c) \in Driver
  BY DEF Driver, StepOf

\* No codes, no change.
LEMMA LeadsEmpty == ASSUME NEW a \in Driver PROVE Leads(a, <<>>, a)
<1> DEFINE r == [n \in 0 .. 0 |-> a]
<1>1. Run(r, a, <<>>, a)
  BY DEF Run
<1> QED BY <1>1 DEF Leads

\* And conversely.
LEMMA LeadsNowhere == ASSUME NEW a, NEW b, Leads(a, <<>>, b) PROVE a = b
  BY DEF Leads, Run

\* One more code is sent.
LEMMA LeadsAppend ==
  ASSUME NEW a, NEW b, NEW q \in Seq(Codes), NEW c \in Codes,
         Leads(a, q, b), Typed(b, c)
  PROVE  Leads(a, Append(q, c), StepOf(b, c))
<1>1. PICK r : Run(r, a, q, b)
  BY DEF Leads
<1> DEFINE m == Len(q)
           e == [n \in 0 .. m + 1 |-> IF n <= m THEN r[n] ELSE StepOf(b, c)]
           p == Append(q, c)
<1>2. m \in Nat /\ Len(p) = m + 1 /\ p[m + 1] = c /\ \A n \in 1 .. m : p[n] = q[n]
  OBVIOUS
<1>3. r \in [0 .. m -> Driver] /\ b \in Driver /\ r[0] = a /\ r[m] = b
  BY <1>1, <1>2 DEF Run
<1>4. e \in [0 .. m + 1 -> Driver]
  BY <1>3, StepIsDriver
<1>5. e[0] = a /\ e[m + 1] = StepOf(b, c)
  BY <1>2, <1>3
<1>6. ASSUME NEW n \in 1 .. m + 1
      PROVE  e[n] = StepOf(e[n - 1], p[n]) /\ Typed(e[n - 1], p[n])
  <2>1. CASE n <= m
    <3>1. n \in 1 .. m /\ n - 1 \in 0 .. m /\ n \in 0 .. m
      BY <1>2, <2>1
    <3>2. e[n] = r[n] /\ e[n - 1] = r[n - 1] /\ p[n] = q[n]
      BY <1>2, <3>1
    <3>3. r[n] = StepOf(r[n - 1], q[n]) /\ Typed(r[n - 1], q[n])
      BY <1>1, <3>1 DEF Run
    <3> QED BY <3>2, <3>3
  <2>2. CASE n = m + 1
    <3>1. e[n] = StepOf(b, c) /\ e[n - 1] = b /\ p[n] = c
      BY <1>2, <1>3, <2>2
    <3> QED BY <3>1
  <2> QED BY <1>2, <2>1, <2>2
<1> HIDE DEF e, p
<1>7. Run(e, a, p, StepOf(b, c))
  BY <1>2, <1>4, <1>5, <1>6 DEF Run
<1> QED BY <1>7 DEF Leads, p

\* The first code is read.
LEMMA LeadsTail ==
  ASSUME NEW a, NEW b, NEW q \in Seq(Codes), q # <<>>, Leads(a, q, b)
  PROVE  Leads(StepOf(a, Head(q)), Tail(q), b) /\ Typed(a, Head(q))
<1>1. PICK r : Run(r, a, q, b)
  BY DEF Leads
<1> DEFINE m == Len(q)
           p == Tail(q)
           e == [n \in 0 .. m - 1 |-> r[n + 1]]
<1>2. m \in Nat /\ m > 0 /\ Len(p) = m - 1 /\ Head(q) = q[1] /\ \A n \in 1 .. m - 1 : p[n] = q[n + 1]
  OBVIOUS
<1>3. /\ r \in [0 .. m -> Driver] /\ r[0] = a /\ r[m] = b
      /\ r[1] = StepOf(a, q[1]) /\ Typed(a, q[1])
  BY <1>1, <1>2 DEF Run
<1>4. e \in [0 .. m - 1 -> Driver]
  BY <1>2, <1>3
<1>5. e[0] = StepOf(a, q[1]) /\ e[m - 1] = b
  BY <1>2, <1>3
<1>6. ASSUME NEW n \in 1 .. m - 1
      PROVE  e[n] = StepOf(e[n - 1], p[n]) /\ Typed(e[n - 1], p[n])
  <2>1. n + 1 \in 1 .. m /\ (n + 1) - 1 = n
    BY <1>2
  <2>2. r[n + 1] = StepOf(r[n], q[n + 1]) /\ Typed(r[n], q[n + 1])
    BY <1>1, <2>1 DEF Run
  <2>3. e[n] = r[n + 1] /\ e[n - 1] = r[n] /\ p[n] = q[n + 1]
    BY <1>2
  <2> QED BY <2>2, <2>3
<1> HIDE DEF e, p
<1>7. Run(e, StepOf(a, q[1]), p, b)
  BY <1>2, <1>4, <1>5, <1>6 DEF Run
<1> QED BY <1>2, <1>3, <1>7 DEF Leads, p

-----------------------------------------------------------------------------
(***************************************************************************)
(* The keyboard sends.                                                     *)
(***************************************************************************)
\* What it sends are codes.
LEMMA CodeIsCode ==
  ASSUME NEW k \in PhysicalKeys \cup Shifts \cup {"E0", "FA"}, NEW up \in BOOLEAN
  PROVE  /\ Code(k, up) \in Codes
         /\ Code(k, up).key = k /\ Code(k, up).up = up /\ Code(k, up).held = Held
<1>1. Held \in BOOLEAN
  BY DEF Held
<1> QED BY <1>1, ZenonT(30) DEF Code, Codes

\* A code is told as held if a shift key is down when it is sent.
LEMMA SentAsHeld ==
  ASSUME NEW k \in PhysicalKeys \cup Shifts \cup {"FA"}, NEW up \in BOOLEAN
  PROVE  Typed(Then, Code(k, up))
<1>1. Code(k, up).held = Held
  BY CodeIsCode
<1>2. Held <=> Then # {}
  BY DEF Held, Then
<1> QED BY <1>1, <1>2, ZenonT(30) DEF Typed

\* The codes of a grey key under shift.
LEMMA FourCodes ==
  ASSUME NEW q \in Seq(Codes), NEW k \in PhysicalKeys \cup Shifts, NEW l \in PhysicalKeys \cup Shifts,
         NEW up \in BOOLEAN, NEW vp \in BOOLEAN
  PROVE  q \o (E0(k, up) \o E0(l, vp)) = (q \o E0(k, up)) \o E0(l, vp)
<1> PICK a, b, c, d : a = Code("E0", FALSE) /\ b = Code(k, up) /\ c = a /\ d = Code(l, vp)
  BY ZenonT(30)
<1>1. a \in Codes /\ b \in Codes /\ c \in Codes /\ d \in Codes
  BY CodeIsCode, ZenonT(30)
<1>2. q \o (<<a, b>> \o <<c, d>>) = (q \o <<a, b>>) \o <<c, d>>
  BY <1>1
<1> QED BY <1>2 DEF E0

\* A pair of codes with the prefix leaves the driver as it was.
LEMMA LeadsPrefixed ==
  ASSUME NEW a, NEW q \in Seq(Codes), Leads(a, q, Then),
         NEW k \in PhysicalKeys \cup Shifts, NEW up \in BOOLEAN
  PROVE  q \o E0(k, up) \in Seq(Codes) /\ Leads(a, q \o E0(k, up), Then)
<1> DEFINE c == Code("E0", FALSE)
           d == Code(k, up)
           p == Append(q, c)
<1>1. c \in Codes /\ d \in Codes /\ c.key = "E0" /\ d.key = k
  BY CodeIsCode, ZenonT(30)
<1>2. k # "E0" /\ "E0" \notin Then
  BY KeyboardAssumption DEF Then, Shifts
<1> HIDE DEF c, d
<1>3. Typed(Then, c) /\ StepOf(Then, c) = Then \cup {"E0"}
  BY <1>1 DEF Typed, StepOf
<1>4. p \in Seq(Codes) /\ Leads(a, p, Then \cup {"E0"})
  <2>1. Leads(a, Append(q, c), StepOf(Then, c))
    BY <1>1, <1>3, LeadsAppend, ZenonT(30)
  <2>2. Append(q, c) \in Seq(Codes)
    BY <1>1
  <2> QED BY <1>3, <2>1, <2>2
<1>5. Typed(Then \cup {"E0"}, d) /\ StepOf(Then \cup {"E0"}, d) = Then
  BY <1>1, <1>2 DEF Typed, StepOf
<1> HIDE DEF p
<1>6. Append(p, d) \in Seq(Codes) /\ Leads(a, Append(p, d), Then)
  BY <1>1, <1>4, <1>5, LeadsAppend
<1>7. q \o E0(k, up) = Append(p, d)
  <2>1. q \o <<c, d>> = Append(Append(q, c), d)
    BY <1>1
  <2> QED BY <2>1, ZenonT(30) DEF E0, c, d, p
<1> QED BY <1>6, <1>7

\* So do two pairs.
LEMMA LeadsTwoPairs ==
  ASSUME NEW a, NEW q \in Seq(Codes), Leads(a, q, Then),
         NEW k \in PhysicalKeys \cup Shifts, NEW l \in PhysicalKeys \cup Shifts,
         NEW up \in BOOLEAN, NEW vp \in BOOLEAN
  PROVE  /\ q \o (E0(k, up) \o E0(l, vp)) \in Seq(Codes)
         /\ Leads(a, q \o (E0(k, up) \o E0(l, vp)), Then)
<1> PICK p : p = q \o E0(k, up)
  BY ZenonT(30)
<1>1. p \in Seq(Codes) /\ Leads(a, p, Then)
  BY LeadsPrefixed
<1>2. p \o E0(l, vp) \in Seq(Codes) /\ Leads(a, p \o E0(l, vp), Then)
  BY <1>1, LeadsPrefixed, ZenonT(30)
<1>3. q \o (E0(k, up) \o E0(l, vp)) = p \o E0(l, vp)
  BY FourCodes, ZenonT(30)
<1> QED BY <1>2, <1>3

\* A key of the keyboard goes down or up.
LEMMA LeadsSent ==
  ASSUME KeyboardInv, NEW k \in PhysicalKeys, NEW up \in BOOLEAN,
         pressed' = IF up THEN pressed \ {k} ELSE pressed \cup {k}
  PROVE  codes \o Sent(k, up) \in Seq(Codes) /\ Leads(Now, codes \o Sent(k, up), Then')
<1> USE DEF KeyboardInv, KeyboardTypeOK
<1>1. k # "E0"
  BY KeyboardAssumption
<1>2. CASE k \notin Grey
  <2>1. /\ Code(k, up) \in Codes /\ Code(k, up).key = k /\ Code(k, up).up = up
        /\ Typed(Then, Code(k, up))
    BY CodeIsCode, SentAsHeld
  <2>2. "E0" \notin Then /\ Then \subseteq Shifts
    BY DEF Then, Shifts
  <2>3. StepOf(Then, Code(k, up)) = Then'
    <3>1. CASE k \notin Shifts
      BY <1>1, <2>1, <2>2, <3>1 DEF StepOf, Then
    <3>2. CASE k \in Shifts
      <4>1. StepOf(Then, Code(k, up)) = IF up THEN Then \ {k} ELSE Then \cup {k}
        BY <1>1, <2>1, <2>2, <3>2, ZenonT(30) DEF StepOf
      <4> QED BY <4>1, <3>2 DEF Then
    <3> QED BY <3>1, <3>2
  <2>4. Sent(k, up) = <<Code(k, up)>>
    BY <1>2 DEF Sent
  <2>5. codes \o <<Code(k, up)>> = Append(codes, Code(k, up))
    BY <2>1
  <2>6. Append(codes, Code(k, up)) \in Seq(Codes) /\ Leads(Now, Append(codes, Code(k, up)), Then')
    BY <2>1, <2>3, LeadsAppend
  <2> QED BY <2>4, <2>5, <2>6, ZenonT(30)
<1>3. CASE k \in Grey
  <2>1. Then' = Then
    BY <1>3 DEF Then, Grey, Shifts
  <2>2. CASE ~Held
    BY <1>3, <2>1, <2>2, LeadsPrefixed DEF Sent
  <2>3. CASE Held
    <3>1. PICK s : s = CHOOSE x \in Shifts : x \in pressed
      OBVIOUS
    <3>2. s \in Shifts
      BY <2>3, <3>1 DEF Held
    <3>3. CASE up
      <4>1. Sent(k, up) = E0(k, TRUE) \o E0(s, FALSE)
        BY <1>3, <2>3, <3>1, <3>3, ZenonT(30) DEF Sent
      <4> QED BY <2>1, <3>2, <4>1, LeadsTwoPairs, ZenonT(30)
    <3>4. CASE ~up
      <4>1. Sent(k, up) = E0(s, TRUE) \o E0(k, FALSE)
        BY <1>3, <2>3, <3>1, <3>4, ZenonT(30) DEF Sent
      <4> QED BY <2>1, <3>2, <4>1, LeadsTwoPairs, ZenonT(30)
    <3> QED BY <3>3, <3>4
  <2> QED BY <2>2, <2>3
<1> QED BY <1>2, <1>3

-----------------------------------------------------------------------------
(***************************************************************************)
(* The driver reads.                                                       *)
(***************************************************************************)
\* The flags of the driver from its state as a set.
LEMMA NowFlags ==
  ASSUME KeyboardTypeOK
  PROVE  /\ Now \in Driver
         /\ extendedScancode <=> "E0" \in Now
         /\ leftShiftPressed <=> "lshift" \in Now
         /\ rightShiftPressed <=> "rshift" \in Now
  BY DEF KeyboardTypeOK, Now, Driver, Shifts

\* A code is read, and the answers are appended, which the driver ignores.
LEMMA LeadsRead ==
  ASSUME KeyboardInv, codes # <<>>, NEW answers \in {<<>>, <<Code("FA", TRUE)>>,
                                            <<Code("FA", TRUE)>> \o <<Code("FA", TRUE)>>},
         ReadThen(answers)
  PROVE  /\ codes' \in Seq(Codes) /\ Leads(StepOf(Now, code), codes', Then')
         /\ code \in Codes /\ Typed(Now, code)
<1> USE DEF KeyboardInv, KeyboardTypeOK
<1> DEFINE a == StepOf(Now, code)
           q == Tail(codes)
           c == Code("FA", TRUE)
<1>1. q \in Seq(Codes) /\ code \in Codes
  BY DEF code
<1>2. Leads(a, q, Then) /\ Typed(Now, code)
  BY LeadsTail DEF code
<1>3. Then' = Then /\ codes' = q \o answers
  BY DEF ReadThen, Then
<1>4. c \in Codes /\ Typed(Then, c) /\ StepOf(Then, c) = Then
  <2>1. c \in Codes /\ c.key = "FA" /\ Typed(Then, c)
    BY CodeIsCode, SentAsHeld, ZenonT(30)
  <2>2. "E0" \notin Then
    BY DEF Then, Shifts
  <2> QED BY <2>1, <2>2, ZenonT(30) DEF StepOf, Shifts
<1> HIDE DEF a, q, c
<1>5. CASE answers = <<>>
  BY <1>1, <1>2, <1>3, <1>5 DEF a
<1>6. Append(q, c) \in Seq(Codes) /\ Leads(a, Append(q, c), Then)
  <2>1. Leads(a, Append(q, c), StepOf(Then, c))
    BY <1>1, <1>2, <1>4, LeadsAppend
  <2> QED BY <1>1, <1>4, <2>1
<1>7. CASE answers = <<c>>
  <2>1. q \o <<c>> = Append(q, c)
    BY <1>1, <1>4
  <2> QED BY <1>1, <1>2, <1>3, <1>6, <1>7, <2>1, ZenonT(30) DEF a
<1>8. CASE answers = <<c>> \o <<c>>
  <2> DEFINE p == Append(q, c)
  <2>1. q \o (<<c>> \o <<c>>) = Append(p, c)
    BY <1>1, <1>4
  <2> HIDE DEF p
  <2>2. Append(p, c) \in Seq(Codes) /\ Leads(a, Append(p, c), Then)
    <3>1. p \in Seq(Codes) /\ Leads(a, p, Then)
      BY <1>6 DEF p
    <3>2. Leads(a, Append(p, c), StepOf(Then, c))
      BY <1>4, <3>1, LeadsAppend
    <3> QED BY <1>4, <3>1, <3>2
  <2> QED BY <1>1, <1>2, <1>3, <1>8, <2>1, <2>2, ZenonT(30) DEF a
<1> QED BY <1>5, <1>7, <1>8, ZenonT(30) DEF c

\* What is left of a step of the driver: its flags follow StepOf.
LEMMA ReadPreserves ==
  ASSUME KeyboardInv, codes # <<>>, NEW answers \in {<<>>, <<Code("FA", TRUE)>>,
                                            <<Code("FA", TRUE)>> \o <<Code("FA", TRUE)>>},
         ReadThen(answers), Now' = StepOf(Now, code), KeyboardTypeOK', TypedAsHeld'
  PROVE  KeyboardInv'
<1>1. Leads(StepOf(Now, code), codes', Then')
  BY LeadsRead, ZenonT(30)
<1> QED BY <1>1 DEF KeyboardInv
-----------------------------------------------------------------------------
(***************************************************************************)
(* The invariant is kept.                                                  *)
(***************************************************************************)
\* It holds at boot.
LEMMA KeyboardInitInv == KeyboardInit => KeyboardInv
<1> SUFFICES ASSUME KeyboardInit PROVE KeyboardInv
  OBVIOUS
<1>1. KeyboardTypeOK
  <2>1. codes \in Seq(Codes) /\ pressed \subseteq PhysicalKeys
    BY DEF KeyboardInit
  <2>2. output \in [act : Acts, shifted : BOOLEAN, held : BOOLEAN]
    BY DEF KeyboardInit, None, Acts
  <2> QED BY <2>1, <2>2, ZenonT(30) DEF KeyboardInit, KeyboardTypeOK
<1>2. TypedAsHeld
  BY DEF KeyboardInit, TypedAsHeld, None
<1>3. Now = {} /\ Then = {} /\ codes = <<>> /\ {} \in Driver
  BY DEF KeyboardInit, Now, Then, Driver
<1> QED BY <1>1, <1>2, <1>3, LeadsEmpty DEF KeyboardInv

\* The keyboard sends.
LEMMA KeysPreserve ==
  ASSUME KeyboardInv, NEW k \in PhysicalKeys, press(k) \/ release(k)
  PROVE  KeyboardInv'
<1>0. UNCHANGED driverVars
  BY ZenonT(30) DEF press, release
<1>1. PICK up \in BOOLEAN : /\ pressed' = IF up THEN pressed \ {k} ELSE pressed \cup {k}
                            /\ codes' = codes \o Sent(k, up)
  <2>1. CASE press(k)
    BY <2>1, ZenonT(30) DEF press
  <2>2. CASE release(k)
    BY <2>2, ZenonT(30) DEF release
  <2> QED BY <2>1, <2>2
<1>2. codes' \in Seq(Codes) /\ Leads(Now, codes', Then')
  BY <1>1, LeadsSent, ZenonT(30)
<1>3. pressed' \subseteq PhysicalKeys
  BY <1>1 DEF KeyboardInv, KeyboardTypeOK
<1>4. Now' = Now /\ TypedAsHeld'
  BY <1>0 DEF Now, driverVars, KeyboardInv, TypedAsHeld
<1>5. KeyboardTypeOK'
  BY <1>0, <1>2, <1>3 DEF driverVars, KeyboardInv, KeyboardTypeOK
<1> QED BY <1>2, <1>4, <1>5 DEF KeyboardInv

\* The branches of keyboard_handler.
LEMMA HandlerPreserves ==
  ASSUME KeyboardInv, \/ handle_prefix \/ handle_extended \/ handle_shift
              \/ handle_release \/ handle_caps \/ handle_key
  PROVE  KeyboardInv'
<1>0. KeyboardTypeOK
  BY DEF KeyboardInv
<1>1. PICK answers \in {<<>>, <<Code("FA", TRUE)>>,
                       <<Code("FA", TRUE)>> \o <<Code("FA", TRUE)>>} :
        codes # <<>> /\ ReadThen(answers)
  BY ZenonT(30) DEF handle_prefix, handle_extended, handle_shift, handle_release, handle_caps, handle_key,
     Read, ReadThen, keyboard_set_caps_lock_led
<1>2. /\ codes' \in Seq(Codes) /\ code \in Codes /\ Typed(Now, code)
      /\ pressed' = pressed
  BY <1>1, LeadsRead, ZenonT(30) DEF ReadThen
<1>3. code.up \in BOOLEAN /\ code.held \in BOOLEAN
  BY <1>2 DEF Codes
<1>4. CASE handle_prefix
  <2>1. KeyboardTypeOK'
    BY <1>0, <1>2, <1>4 DEF KeyboardTypeOK, handle_prefix, None, Acts
  <2>2. TypedAsHeld'
    BY <1>4, ZenonT(30) DEF handle_prefix, TypedAsHeld, None
  <2>3. Now' = StepOf(Now, code)
    BY <1>0, <1>4 DEF KeyboardTypeOK, handle_prefix, Now, StepOf
  <2> QED BY <1>1, <2>1, <2>2, <2>3, ReadPreserves, ZenonT(30)
<1>5. CASE handle_extended
  <2>1. KeyboardTypeOK'
    <3>1. output' \in [act : Acts, shifted : BOOLEAN, held : BOOLEAN]
      BY <1>5, ZenonT(30) DEF handle_extended, None, Acts, Grey
    <3> QED BY <1>0, <1>2, <1>5, <3>1, ZenonT(30) DEF KeyboardTypeOK, handle_extended
  <2>2. TypedAsHeld'
    BY <1>5 DEF handle_extended, TypedAsHeld, None, Grey
  <2>3. Now' = StepOf(Now, code)
    BY <1>0, <1>5 DEF KeyboardTypeOK, handle_extended, Now, StepOf
  <2> QED BY <1>1, <2>1, <2>2, <2>3, ReadPreserves, ZenonT(30)
<1>6. CASE handle_shift
  <2>1. KeyboardTypeOK'
    BY <1>0, <1>2, <1>3, <1>6, ZenonT(30) DEF KeyboardTypeOK, handle_shift, Plain, None, Acts
  <2>2. TypedAsHeld'
    BY <1>6 DEF handle_shift, TypedAsHeld, None
  <2>3. Now' = StepOf(Now, code)
    BY <1>0, <1>3, <1>6, ZenonT(30) DEF KeyboardTypeOK, handle_shift, Plain, Now, StepOf, Shifts
  <2> QED BY <1>1, <2>1, <2>2, <2>3, ReadPreserves, ZenonT(30)
<1>7. CASE handle_release
  <2>1. KeyboardTypeOK'
    BY <1>0, <1>2, <1>7 DEF KeyboardTypeOK, handle_release, Plain, None, Acts
  <2>2. TypedAsHeld'
    BY <1>7 DEF handle_release, TypedAsHeld, None
  <2>3. Now' = StepOf(Now, code)
    BY <1>0, <1>7 DEF KeyboardTypeOK, handle_release, Plain, Now, StepOf
  <2> QED BY <1>1, <2>1, <2>2, <2>3, ReadPreserves, ZenonT(30)
<1>8. CASE handle_caps
  <2>1. KeyboardTypeOK'
    <3>1. capsLockEnabled' \in BOOLEAN
      BY <1>0, <1>8, ZenonT(30) DEF KeyboardTypeOK, handle_caps
    <3>2. led' \in BOOLEAN
      BY <1>0, <1>8, <3>1, ZenonT(30) DEF KeyboardTypeOK, handle_caps, keyboard_set_caps_lock_led
    <3> QED BY <1>0, <1>2, <1>8, <3>1, <3>2 DEF KeyboardTypeOK, handle_caps, Plain, None, Acts
  <2>2. TypedAsHeld'
    BY <1>8 DEF handle_caps, TypedAsHeld, None
  <2>3. Now' = StepOf(Now, code)
    BY <1>0, <1>8 DEF KeyboardTypeOK, handle_caps, Plain, Now, StepOf, Shifts
  <2> QED BY <1>1, <2>1, <2>2, <2>3, ReadPreserves, ZenonT(30)
<1>9. CASE handle_key
  <2>1. KeyboardTypeOK'
    <3>1. output' \in [act : Acts, shifted : BOOLEAN, held : BOOLEAN]
      BY <1>0, <1>3, <1>9, ZenonT(30) DEF handle_key, None, Acts, KeyboardTypeOK
    <3> QED BY <1>0, <1>2, <1>9, <3>1, ZenonT(30) DEF KeyboardTypeOK, handle_key, Plain
  <2>2. TypedAsHeld'
    <3>1. CASE code.key # "char"
      BY <1>9, <3>1, ZenonT(30) DEF handle_key, TypedAsHeld, None
    <3>2. CASE code.key = "char"
      <4>1. output'.shifted <=> leftShiftPressed \/ rightShiftPressed
        BY <1>9, <3>2, ZenonT(30) DEF handle_key
      <4>2. output'.held = code.held
        BY <1>9, <3>2, ZenonT(30) DEF handle_key
      <4>3. "E0" \notin Now /\ (Now # {} <=> leftShiftPressed \/ rightShiftPressed)
        BY <1>0, <1>9 DEF handle_key, Plain, Now
      <4>4. code.held <=> Now # {}
        BY <1>2, <3>2, <4>3 DEF Typed
      <4> QED BY <4>1, <4>2, <4>3, <4>4 DEF TypedAsHeld
    <3> QED BY <3>1, <3>2
  <2>3. Now' = StepOf(Now, code)
    BY <1>0, <1>9, ZenonT(30) DEF KeyboardTypeOK, handle_key, Plain, Now, StepOf
  <2> QED BY <1>1, <2>1, <2>2, <2>3, ReadPreserves, ZenonT(30)
<1> QED BY <1>4, <1>5, <1>6, <1>7, <1>8, <1>9

\* Every step keeps it.
LEMMA KeyboardNextInv == KeyboardInv /\ [KeyboardNext]_keyboardVars => KeyboardInv'
<1> SUFFICES ASSUME KeyboardInv, [KeyboardNext]_keyboardVars PROVE KeyboardInv'
  OBVIOUS
<1>1. CASE UNCHANGED keyboardVars
  BY <1>1, ZenonT(30) DEF keyboardVars, KeyboardInv, KeyboardTypeOK, TypedAsHeld, Now, Then
<1>2. CASE \E k \in PhysicalKeys : press(k) \/ release(k)
  BY <1>2, KeysPreserve
<1>3. CASE \/ handle_prefix \/ handle_extended \/ handle_shift
           \/ handle_release \/ handle_caps \/ handle_key
  BY <1>3, HandlerPreserves
<1> QED BY <1>1, <1>2, <1>3 DEF KeyboardNext

\* It holds in every state.
LEMMA KeyboardInvHolds == KeyboardSpec => []KeyboardInv
  BY KeyboardInitInv, KeyboardNextInv, PTL DEF KeyboardSpec

-----------------------------------------------------------------------------
(***************************************************************************)
(* The properties.                                                         *)
(***************************************************************************)
\* When keyboard_handler has read all codes, its two flags are the shift keys that
\* are down and no prefix is left over, whatever grey keys were pressed meanwhile.
THEOREM ShiftStateIsRight == KeyboardSpec => []ShiftTracksKeys
<1>1. KeyboardInv => ShiftTracksKeys
  <2> SUFFICES ASSUME KeyboardInv, codes = <<>>
               PROVE  /\ leftShiftPressed <=> "lshift" \in pressed
                      /\ rightShiftPressed <=> "rshift" \in pressed
                      /\ ~extendedScancode
    BY DEF ShiftTracksKeys
  <2>1. Now = Then
    BY LeadsNowhere DEF KeyboardInv
  <2>2. "lshift" \in Then <=> "lshift" \in pressed
    BY DEF Then, Shifts
  <2>3. "rshift" \in Then <=> "rshift" \in pressed
    BY DEF Then, Shifts
  <2>4. "E0" \notin Then
    BY DEF Then, Shifts
  <2>5. /\ extendedScancode <=> "E0" \in Now
        /\ leftShiftPressed <=> "lshift" \in Now
        /\ rightShiftPressed <=> "rshift" \in Now
    BY NowFlags DEF KeyboardInv
  <2> QED BY <2>1, <2>2, <2>3, <2>4, <2>5
<1> QED BY <1>1, KeyboardInvHolds, PTL

\* A key types its shifted character exactly if a shift key was down when its code
\* was sent, however many codes are under way before keyboard_handler reads it.
THEOREM KeysTypeAsHeld == KeyboardSpec => []TypedAsHeld
<1>1. KeyboardInv => TypedAsHeld
  BY DEF KeyboardInv
<1> QED BY <1>1, KeyboardInvHolds, PTL

\* The flags are Booleans, the codes under way are codes a key can send.
THEOREM KeyboardTypeCorrect == KeyboardSpec => []KeyboardTypeOK
<1>1. KeyboardInv => KeyboardTypeOK
  BY DEF KeyboardInv
<1> QED BY <1>1, KeyboardInvHolds, PTL

-----------------------------------------------------------------------------
(***************************************************************************)
(* Part 2: Vga.                                                            *)
(***************************************************************************)

(***************************************************************************)
(* The inductive invariant.  The properties need each other's help only    *)
(* through the types: that the viewport is in range makes vga_write_cell   *)
(* and vga_render agree on which lines are shown.                          *)
(***************************************************************************)
VgaInv == VgaTypeOK /\ ScreenShowsViewport /\ ViewportBounded

\* The sizes, as numbers.
LEMMA Sizes ==
  /\ Width \in Nat /\ Width > 0 /\ Height \in Nat /\ Height > 0
  /\ Lines \in Nat /\ Height <= Lines /\ TabStop \in Nat /\ TabStop > 0
  BY VgaAssumption

\* Screens with the same rows are equal.
LEMMA SameRows ==
  \A f, g \in [0 .. Height - 1 -> [Columns -> Cells]] :
    (\A r \in 0 .. Height - 1 : f[r] = g[r]) => f = g
<1>1. ASSUME NEW S, NEW T, NEW f \in [S -> T], NEW g \in [S -> T], \A x \in S : f[x] = g[x]
      PROVE  f = g
  BY <1>1
<1> QED BY <1>1, ZenonT(30)

\* An empty line is a line, and what vga_render draws has the type of the screen.
LEMMA BlankType == Blank \in [Columns -> Cells]
  BY DEF Blank, Cells

\* What vga_render draws has the type of the screen.
LEMMA RenderType ==
  ASSUME NEW buffer \in [Rows -> [Columns -> Cells]], NEW view \in Nat
  PROVE  vga_render(buffer, view) \in [0 .. Height - 1 -> [Columns -> Cells]]
  BY BlankType DEF vga_render

-----------------------------------------------------------------------------
(***************************************************************************)
(* vga_putchar_raw.                                                        *)
(***************************************************************************)
\* The next tab stop is a column or beyond the line.
LEMMA NextTab == \A x \in Nat, t \in Nat \ {0} : ((x + t) \div t) * t \in Nat
<1> SUFFICES ASSUME NEW x \in Nat, NEW t \in Nat \ {0} PROVE ((x + t) \div t) * t \in Nat
  OBVIOUS
<1>1. (x + t) \div t \in Nat
  OBVIOUS
<1> QED BY <1>1

\* A column beyond the line wraps to the beginning of the next one.
LEMMA WrappedInside ==
  ASSUME VgaTypeOK, NEW x \in Nat
  PROVE  Wrapped(x)[1] \in Columns /\ Wrapped(x)[2] \in {cursorY, cursorY + 1}
  BY Sizes DEF Wrapped, Columns

\* The switch leaves the cursor in a column, on its line or the next.
LEMMA MovedInside ==
  ASSUME VgaTypeOK, NEW c \in Entries \cup Controls
  PROVE  Moved(c)[1] \in Columns /\ Moved(c)[2] \in {cursorY, cursorY + 1}
<1>1. cursorX \in Nat /\ cursorX < Width
  BY Sizes DEF VgaTypeOK, Columns
<1>2. 0 \in Columns
  BY Sizes DEF Columns
<1>3. CASE c = "TAB"
  <2>1. ((cursorX + TabStop) \div TabStop) * TabStop \in Nat
    <3>1. cursorX \in Nat /\ TabStop \in Nat \ {0}
      BY <1>1, Sizes
    <3> PICK x : x = cursorX
      OBVIOUS
    <3>2. ((x + TabStop) \div TabStop) * TabStop \in Nat
      BY <3>1, NextTab
    <3> QED BY <3>2
  <2> QED BY <1>3, <2>1, WrappedInside DEF Moved
<1>4. CASE c = "LF" \/ c = "CR"
  BY <1>2, <1>4 DEF Moved
<1>5. CASE c = "BS"
  <2>1. cursorX > 0 => cursorX - 1 \in Columns
    BY <1>1, Sizes DEF Columns
  <2> QED BY <1>2, <1>5, <2>1 DEF Moved
<1>6. CASE c \notin Controls
  <2>1. Moved(c) = Wrapped(cursorX + 1)
    BY <1>6 DEF Moved, Controls
  <2>2. cursorX + 1 \in Nat
    BY <1>1
  <2> QED BY <2>1, <2>2, WrappedInside
<1> QED BY <1>3, <1>4, <1>5, <1>6 DEF Controls

\* A character changes at most one cell of a line.
LEMMA EditedLine ==
  ASSUME VgaTypeOK, NEW c \in Entries \cup Controls, NEW line \in [Columns -> Cells]
  PROVE  /\ Edited(line, c) \in [Columns -> Cells]
         /\ \E x \in Int : \A z \in Columns \ {x} : Edited(line, c)[z] = line[z]
<1>1. c = "BS" \/ c \in Controls \ {"BS"} \/ c \in Entries \ Controls
  BY DEF Controls
<1>2. PICK x \in Int : Touched(c) \subseteq {x}
  <2>1. cursorX \in Int /\ cursorX - 1 \in Int
    BY Sizes DEF VgaTypeOK, Columns
  <2>2. Touched(c) \subseteq {cursorX - 1} \/ Touched(c) \subseteq {cursorX}
    BY <1>1 DEF Touched
  <2> QED BY <2>1, <2>2
<1>3. Touched(c) # {} /\ c # "BS" => c \in Entries
  BY <1>1 DEF Touched
<1>4. Edited(line, c) \in [Columns -> Cells]
  BY <1>3 DEF Edited, Cells
<1>5. \A z \in Columns \ {x} : Edited(line, c)[z] = line[z]
  BY <1>2 DEF Edited
<1> QED BY <1>2, <1>4, <1>5

\* What one character does.  edited is the buffer before lines move up.
LEMMA PutcharPreservesInv ==
  ASSUME VgaInv, NEW c \in Entries \cup Controls, vga_putchar_raw(c)
  PROVE  VgaInv'
<1> PICK moved : moved = Moved(c)
  OBVIOUS
<1> PICK edited : edited = [terminalBuffer EXCEPT ![cursorY] = Edited(@, c)]
  BY ZenonT(30)
<1> DEFINE full == moved[2] >= Lines
<1> PICK y : y = IF full THEN Lines - 1 ELSE moved[2]
  OBVIOUS
<1>1. /\ writing /\ writing' = writing
      /\ terminalBuffer' = IF full THEN MovedUp(edited) ELSE edited
      /\ screen' = vga_write_cell(c)
      /\ cursorX' = moved[1] /\ cursorY' = y
      /\ viewportY' = vga_follow_cursor(y, renderPending \/ full)[1]
      /\ renderPending' = vga_follow_cursor(y, renderPending \/ full)[2]
  BY DEF vga_putchar_raw
<1> HIDE DEF full
<1>2. VgaTypeOK
  BY DEF VgaInv
<1>3. /\ cursorY \in Nat /\ cursorY <= Lines - 1 /\ viewportY \in Nat /\ viewportY <= Lines - 1
      /\ cursorY \in Rows
  BY <1>2, Sizes DEF VgaTypeOK, Rows
<1>4. moved[1] \in Columns /\ moved[2] \in {cursorY, cursorY + 1}
  BY <1>2, MovedInside
<1>5. y \in Nat /\ cursorY <= y /\ y <= Lines - 1
  <2> PICK m : m = moved[2]
    OBVIOUS
  <2>1. m \in {cursorY, cursorY + 1} /\ y = IF m >= Lines THEN Lines - 1 ELSE m
    BY <1>4 DEF full
  <2> QED BY <1>3, <2>1, Sizes
<1>6. viewportY' = IF y >= viewportY + Height THEN y - Height + 1 ELSE viewportY
  BY <1>1 DEF vga_follow_cursor
<1>7. renderPending' = IF y >= viewportY + Height THEN TRUE ELSE (renderPending \/ full)
  BY <1>1 DEF vga_follow_cursor
<1>8. ViewportBounded'
  <2>1. viewportY <= IF cursorY >= Height THEN cursorY - Height + 1 ELSE 0
    BY DEF VgaInv, ViewportBounded, maxViewport
  <2>2. viewportY' <= IF y >= Height THEN y - Height + 1 ELSE 0
    BY <1>3, <1>5, <1>6, <2>1, Sizes
  <2> QED BY <1>1, <2>2 DEF ViewportBounded, maxViewport
<1>9. terminalBuffer[cursorY] \in [Columns -> Cells]
  BY <1>2, <1>3 DEF VgaTypeOK
<1>10. edited \in [Rows -> [Columns -> Cells]]
  <2>1. Edited(terminalBuffer[cursorY], c) \in [Columns -> Cells]
    BY <1>2, <1>9, EditedLine
  <2> QED BY <1>2, <2>1 DEF VgaTypeOK
<1>11. VgaTypeOK'
  <2>1. MovedUp(edited) \in [Rows -> [Columns -> Cells]]
    <3>1. \A r \in Rows : r < Lines - 1 => r + 1 \in Rows
      BY Sizes DEF Rows
    <3> QED BY <1>10, <3>1, BlankType DEF MovedUp
  <2>2. terminalBuffer' \in [Rows -> [Columns -> Cells]]
    BY <1>1, <1>10, <2>1, ZenonT(30)
  <2>3. screen' \in [0 .. Height - 1 -> [Columns -> Cells]]
    <3>1. CASE cursorY >= viewportY /\ cursorY < viewportY + Height
      <4>1. cursorY - viewportY \in 0 .. Height - 1
        BY <1>3, <3>1, Sizes
      <4>2. Edited(screen[cursorY - viewportY], c) \in [Columns -> Cells]
        BY <1>2, <4>1, EditedLine DEF VgaTypeOK
      <4> QED BY <1>1, <1>2, <4>2, ZenonT(30) DEF VgaTypeOK, vga_write_cell
    <3>2. CASE ~(cursorY >= viewportY /\ cursorY < viewportY + Height)
      BY <1>1, <1>2, <3>2 DEF VgaTypeOK, vga_write_cell
    <3> QED BY <3>1, <3>2
  <2>4. cursorX' \in Columns /\ cursorY' \in Rows
    BY <1>1, <1>4, <1>5, Sizes DEF Rows
  <2>5. viewportY' \in Rows
    BY <1>3, <1>5, <1>6, Sizes DEF Rows
  <2>6. renderPending' \in BOOLEAN /\ writing' \in BOOLEAN
    BY <1>1, <1>2, <1>7, ZenonT(30) DEF VgaTypeOK
  <2> QED BY <2>2, <2>3, <2>4, <2>5, <2>6 DEF VgaTypeOK
<1>12. ASSUME ~renderPending' PROVE screen' = vga_render(terminalBuffer', viewportY')
  <2>1. ~renderPending /\ ~full /\ viewportY' = viewportY /\ terminalBuffer' = edited
    BY <1>1, <1>2, <1>6, <1>7, <1>12, ZenonT(30) DEF VgaTypeOK
  <2>2. screen = vga_render(terminalBuffer, viewportY)
    BY <2>1 DEF VgaInv, ScreenShowsViewport
  <2>3. DOMAIN terminalBuffer = Rows
    BY <1>2 DEF VgaTypeOK
  <2>4. CASE cursorY >= viewportY /\ cursorY < viewportY + Height
    <3>1. screen' = [screen EXCEPT ![cursorY - viewportY] = Edited(@, c)]
      BY <1>1, <2>1, <2>4 DEF vga_write_cell
    <3>2. /\ DOMAIN screen = 0 .. Height - 1 /\ cursorY - viewportY \in 0 .. Height - 1
          /\ viewportY + (cursorY - viewportY) = cursorY
      BY <1>2, <1>3, <2>4, Sizes DEF VgaTypeOK
    <3>3. screen[cursorY - viewportY] = terminalBuffer[cursorY]
      BY <1>3, <2>2, <3>2 DEF vga_render
    <3>4. ASSUME NEW r \in 0 .. Height - 1
          PROVE  screen'[r] = vga_render(edited, viewportY)[r]
      <4>1. CASE r = cursorY - viewportY
        <5>1. screen'[r] = Edited(terminalBuffer[cursorY], c)
          BY <3>1, <3>2, <3>3, <4>1
        <5>2. vga_render(edited, viewportY)[r] = edited[cursorY]
          BY <1>3, <3>2, <4>1 DEF vga_render
        <5> QED BY <1>3, <2>3, <5>1, <5>2
      <4>2. CASE r # cursorY - viewportY
        <5>1. screen'[r] = screen[r]
          BY <3>1, <3>2, <4>2
        <5>2. viewportY + r # cursorY
          BY <1>3, <4>2
        <5>3. viewportY + r \in Rows => edited[viewportY + r] = terminalBuffer[viewportY + r]
          BY <2>3, <5>2
        <5> QED BY <2>2, <5>1, <5>3 DEF vga_render
      <4> QED BY <4>1, <4>2
    <3>5. screen' \in [0 .. Height - 1 -> [Columns -> Cells]]
      BY <1>11 DEF VgaTypeOK
    <3>6. vga_render(edited, viewportY) \in [0 .. Height - 1 -> [Columns -> Cells]]
      BY <1>3, <1>10, RenderType, ZenonT(30)
    <3>7. screen' = vga_render(edited, viewportY)
      BY <3>4, <3>5, <3>6, SameRows, ZenonT(30)
    <3> QED BY <2>1, <3>7
  <2>5. CASE ~(cursorY >= viewportY /\ cursorY < viewportY + Height)
    <3>1. screen' = screen
      BY <1>1, <2>5 DEF vga_write_cell
    <3>2. \A r \in 0 .. Height - 1 : viewportY + r # cursorY
      BY <1>3, <2>5, Sizes
    <3>3. \A r \in 0 .. Height - 1 :
            viewportY + r \in Rows => edited[viewportY + r] = terminalBuffer[viewportY + r]
      BY <2>3, <3>2
    <3>4. vga_render(edited, viewportY) = vga_render(terminalBuffer, viewportY)
      BY <3>3 DEF vga_render
    <3> QED BY <2>1, <2>2, <3>1, <3>4
  <2> QED BY <2>4, <2>5
<1>13. ScreenShowsViewport'
  <2>1. vga_render(terminalBuffer, viewportY)' = vga_render(terminalBuffer', viewportY')
    BY DEF vga_render
  <2> QED BY <1>1, <1>12, <2>1 DEF ScreenShowsViewport
<1> QED BY <1>8, <1>11, <1>13 DEF VgaInv

-----------------------------------------------------------------------------
(***************************************************************************)
(* The other steps.                                                        *)
(***************************************************************************)
\* vga_init, and vga_clear again: nothing but empty lines, seen from the top.
LEMMA ClearedInv ==
  ASSUME terminalBuffer = [y \in Rows |-> Blank], screen = [y \in 0 .. Height - 1 |-> Blank],
         cursorX = 0, cursorY = 0, viewportY = 0, renderPending = FALSE, writing = FALSE
  PROVE  VgaInv
<1>1. 0 \in Rows /\ 0 \in Columns
  BY Sizes DEF Rows, Columns
<1>2. VgaTypeOK
  BY <1>1, BlankType, ZenonT(30) DEF VgaTypeOK
<1>3. vga_render(terminalBuffer, viewportY) = screen
  BY DEF vga_render
<1>4. ViewportBounded
  BY Sizes DEF ViewportBounded, maxViewport
<1> QED BY <1>2, <1>3, <1>4 DEF VgaInv, ScreenShowsViewport

\* It holds at the beginning.
LEMMA VgaInitInv == VgaInit => VgaInv
  BY ClearedInv, ZenonT(30) DEF VgaInit

\* vga_clear keeps it.
LEMMA ClearPreservesInv ==
  ASSUME VgaInv, vga_clear
  PROVE  VgaInv'
<1>1. /\ terminalBuffer' = [y \in Rows |-> Blank] /\ screen' = [y \in 0 .. Height - 1 |-> Blank]
      /\ cursorX' = 0 /\ cursorY' = 0 /\ viewportY' = 0 /\ renderPending' = FALSE /\ writing' = FALSE
  BY DEF vga_clear, VgaInv, VgaTypeOK, ScreenShowsViewport
<1>2. 0 \in Rows /\ 0 \in Columns
  BY Sizes DEF Rows, Columns
<1>3. VgaTypeOK'
  BY <1>1, <1>2, BlankType, ZenonT(30) DEF VgaTypeOK
<1>4. vga_render(terminalBuffer, viewportY)' = screen'
  BY <1>1 DEF vga_render
<1>5. ViewportBounded'
  BY <1>1, Sizes DEF ViewportBounded, maxViewport
<1> QED BY <1>1, <1>3, <1>4, <1>5 DEF VgaInv, ScreenShowsViewport

\* The scroll functions, given that they stay above the cursor.
LEMMA ShowPreservesInv ==
  ASSUME VgaInv, NEW view \in Nat, view <= maxViewport, ShowFrom(view)
  PROVE  VgaInv'
<1>1. /\ UNCHANGED <<terminalBuffer, cursorX, cursorY, renderPending, writing>>
      /\ viewportY' = view /\ screen' = vga_render(terminalBuffer, view)
  BY DEF ShowFrom
<1>2. cursorY \in Nat /\ cursorY <= Lines - 1
  BY Sizes DEF VgaInv, VgaTypeOK, Rows
<1>3. view \in Rows
  BY <1>2, Sizes DEF maxViewport, Rows
<1>4. screen' \in [0 .. Height - 1 -> [Columns -> Cells]]
  BY <1>1, RenderType DEF VgaInv, VgaTypeOK
<1>5. VgaTypeOK'
  BY <1>1, <1>3, <1>4 DEF VgaInv, VgaTypeOK
<1>6. ScreenShowsViewport'
  BY <1>1 DEF VgaInv, ScreenShowsViewport, vga_render
<1>7. ViewportBounded'
  BY <1>1 DEF ViewportBounded, maxViewport
<1> QED BY <1>5, <1>6, <1>7 DEF VgaInv

\* So does each of them.
LEMMA ScrollPreservesInv ==
  ASSUME VgaInv, vga_scroll_up \/ vga_scroll_down \/ vga_page_up \/ vga_page_down
  PROVE  VgaInv'
<1>1. /\ viewportY \in Nat /\ cursorY \in Nat /\ maxViewport \in Nat /\ viewportY <= maxViewport
  BY Sizes DEF VgaInv, VgaTypeOK, Rows, ViewportBounded, maxViewport
<1>2. PICK view : /\ ShowFrom(view)
                  /\ \/ viewportY > 0 /\ view = viewportY - 1
                     \/ viewportY < maxViewport /\ view = viewportY + 1
                     \/ view = IF viewportY >= Height THEN viewportY - Height ELSE 0
                     \/ view = IF viewportY + Height > maxViewport THEN maxViewport
                               ELSE viewportY + Height
  BY DEF vga_scroll_up, vga_scroll_down, vga_page_up, vga_page_down
<1>3. view \in Nat /\ view <= maxViewport
  <2> PICK m : m = maxViewport
    OBVIOUS
  <2>1. view \in Nat /\ view <= m
    BY <1>1, <1>2, Sizes
  <2> QED BY <2>1
<1> QED BY <1>2, <1>3, ShowPreservesInv

\* The flush draws what is pending.
LEMMA FlushPreservesInv ==
  ASSUME VgaInv, vga_flush
  PROVE  VgaInv'
<1>1. /\ UNCHANGED <<terminalBuffer, cursorX, cursorY, viewportY>>
      /\ writing' = FALSE /\ renderPending' = FALSE
      /\ screen' = IF renderPending THEN vga_render(terminalBuffer, viewportY) ELSE screen
  BY DEF vga_flush
<1>2. screen' = vga_render(terminalBuffer, viewportY)
  BY <1>1 DEF VgaInv, VgaTypeOK, ScreenShowsViewport
<1>3. screen' \in [0 .. Height - 1 -> [Columns -> Cells]]
  <2>1. viewportY \in Nat
    BY Sizes DEF VgaInv, VgaTypeOK, Rows
  <2> QED BY <1>2, <2>1, RenderType DEF VgaInv, VgaTypeOK
<1>4. VgaTypeOK'
  BY <1>1, <1>3, ZenonT(30) DEF VgaInv, VgaTypeOK
<1>5. ScreenShowsViewport' /\ ViewportBounded'
  BY <1>1, <1>2, ZenonT(30) DEF VgaInv, ScreenShowsViewport, ViewportBounded, maxViewport, vga_render
<1> QED BY <1>4, <1>5 DEF VgaInv

\* Every step, and every stutter.
LEMMA VgaNextPreservesInv == VgaInv /\ [VgaNext]_vgaVars => VgaInv'
<1> SUFFICES ASSUME VgaInv, [VgaNext]_vgaVars PROVE VgaInv'
  OBVIOUS
<1>1. CASE UNCHANGED vgaVars \/ scroll_ignored
  BY <1>1 DEF scroll_ignored, vgaVars, VgaInv, VgaTypeOK, ScreenShowsViewport, ViewportBounded,
              maxViewport, vga_render
<1>2. CASE irq_save
  BY <1>2 DEF irq_save, VgaInv, VgaTypeOK, ScreenShowsViewport, ViewportBounded, maxViewport, vga_render
<1>3. CASE \E c \in Entries \cup Controls : vga_putchar_raw(c)
  BY <1>3, PutcharPreservesInv
<1>4. CASE vga_scroll_up \/ vga_scroll_down \/ vga_page_up \/ vga_page_down
  BY <1>4, ScrollPreservesInv
<1> QED BY <1>1, <1>2, <1>3, <1>4, FlushPreservesInv, ClearPreservesInv DEF VgaNext

\* It holds always.
LEMMA VgaInvHolds == VgaSpec => []VgaInv
  BY VgaInitInv, VgaNextPreservesInv, PTL DEF VgaSpec

-----------------------------------------------------------------------------
(***************************************************************************)
(* The theorems.                                                           *)
(***************************************************************************)
\* vga.c: whatever is written and scrolled, the video memory shows the viewport
\* whenever no render is pending, and none is pending between calls.
THEOREM ScreenIsCurrent == VgaSpec => []ScreenShowsViewport
<1>1. VgaInv => ScreenShowsViewport
  BY DEF VgaInv
<1> QED BY <1>1, VgaInvHolds, PTL

\* The viewport stays in range, also when the line buffer runs full while the
\* user has scrolled up.
THEOREM ViewportInRange == VgaSpec => []ViewportBounded
<1>1. VgaInv => ViewportBounded
  BY DEF VgaInv
<1> QED BY <1>1, VgaInvHolds, PTL

\* vga_putchar_raw edits one cell and moves lines only as a whole; no other
\* function but vga_clear changes the text.
THEOREM TextIsKept == VgaSpec => TextKept
<1> DEFINE Differ(u) == {x \in Columns :
             terminalBuffer'[cursorY - u][x] # terminalBuffer[cursorY][x]}
<1> DEFINE Kept(up) ==
             /\ \A y \in Rows : y + up \in Rows \ {cursorY} =>
                  terminalBuffer'[y] = terminalBuffer[y + up]
             /\ cursorY - up \in Rows => Cardinality(Differ(up)) <= 1
             /\ up = 1 => terminalBuffer'[Lines - 1] = Blank
<1>1. ASSUME NEW D, NEW x, D \subseteq {x} PROVE Cardinality(D) <= 1
  <2>1. IsFiniteSet({x}) /\ Cardinality({x}) = 1
    BY FS_Singleton
  <2> QED BY <1>1, <2>1, FS_Subset
<1>2. ASSUME VgaInv, terminalBuffer' = terminalBuffer PROVE Kept(0)
  <2>1. cursorY \in Int /\ cursorY - 0 = cursorY /\ \A y \in Rows : y + 0 = y
    BY <1>2, Sizes DEF VgaInv, VgaTypeOK, Rows
  <2>2. Differ(0) \subseteq {0}
    BY <1>2, <2>1
  <2>3. Cardinality(Differ(0)) <= 1
    BY <1>1, <2>2
  <2> QED BY <1>2, <2>1, <2>3
<1>3. ASSUME VgaInv, NEW c \in Entries \cup Controls, vga_putchar_raw(c)
      PROVE  \E up \in {0, 1} : Kept(up)
  <2> PICK edited : edited = [terminalBuffer EXCEPT ![cursorY] = Edited(@, c)]
    BY ZenonT(30)
  <2>1. terminalBuffer' = edited \/ terminalBuffer' = MovedUp(edited)
    BY <1>3 DEF vga_putchar_raw
  <2>2. /\ VgaTypeOK /\ cursorY \in Rows /\ cursorY \in Int /\ DOMAIN terminalBuffer = Rows
        /\ terminalBuffer[cursorY] \in [Columns -> Cells]
    BY <1>3, Sizes DEF VgaInv, VgaTypeOK, Rows
  <2>3. PICK x \in Int : \A z \in Columns \ {x} : edited[cursorY][z] = terminalBuffer[cursorY][z]
    <3>1. edited[cursorY] = Edited(terminalBuffer[cursorY], c)
      BY <2>2
    <3> QED BY <2>2, <3>1, EditedLine
  <2>4. \A y \in Rows \ {cursorY} : edited[y] = terminalBuffer[y]
    BY <2>2
  <2>5. CASE terminalBuffer' = edited
    <3>1. cursorY - 0 = cursorY /\ \A y \in Rows : y + 0 = y
      BY <2>2, Sizes DEF Rows
    <3>2. Differ(0) \subseteq {x}
      BY <2>3, <2>5, <3>1
    <3>3. Cardinality(Differ(0)) <= 1
      BY <1>1, <3>2, ZenonT(30)
    <3>4. Kept(0)
      BY <2>4, <2>5, <3>1, <3>3
    <3> QED BY <3>4
  <2>6. CASE terminalBuffer' = MovedUp(edited)
    <3>1. \A y \in Rows : y + 1 \in Rows => y < Lines - 1
      BY Sizes DEF Rows
    <3>2. \A y \in Rows : y + 1 \in Rows => terminalBuffer'[y] = edited[y + 1]
      BY <2>6, <3>1 DEF MovedUp
    <3>3. cursorY - 1 \in Rows => terminalBuffer'[cursorY - 1] = edited[cursorY]
      <4>1. (cursorY - 1) + 1 = cursorY
        BY <2>2
      <4> QED BY <2>2, <3>2, <4>1
    <3>4. cursorY - 1 \in Rows => Cardinality(Differ(1)) <= 1
      <4>1. cursorY - 1 \in Rows => Differ(1) \subseteq {x}
        BY <2>3, <3>3
      <4> QED BY <1>1, <4>1, ZenonT(30)
    <3>5. terminalBuffer'[Lines - 1] = Blank
      <4>1. Lines - 1 \in Rows /\ ~(Lines - 1 < Lines - 1)
        BY Sizes DEF Rows
      <4> QED BY <2>6, <4>1 DEF MovedUp
    <3>6. Kept(1)
      BY <2>4, <3>2, <3>4, <3>5, ZenonT(30)
    <3> QED BY <3>6
  <2> QED BY <2>1, <2>5, <2>6
<1>4. VgaInv /\ [VgaNext]_vgaVars => [vga_clear \/ \E up \in {0, 1} : Kept(up)]_vgaVars
  <2> SUFFICES ASSUME VgaInv, VgaNext PROVE vga_clear \/ \E up \in {0, 1} : Kept(up)
    OBVIOUS
  <2> HIDE DEF Kept
  <2>1. CASE \E c \in Entries \cup Controls : vga_putchar_raw(c)
    BY <1>3, <2>1
  <2>2. CASE terminalBuffer' = terminalBuffer
    BY <1>2, <2>2
  <2> QED BY <2>1, <2>2, ZenonT(30) DEF VgaNext, irq_save, vga_flush, vga_scroll_up, vga_scroll_down, ShowFrom,
             scroll_ignored, vga_page_up, vga_page_down, vgaVars
<1> QED BY <1>4, VgaInvHolds, PTL DEF VgaSpec, TextKept

\* The variables keep their types: the cursor is always in the buffer.
THEOREM VgaTypeCorrect == VgaSpec => []VgaTypeOK
<1>1. VgaInv => VgaTypeOK
  BY DEF VgaInv
<1> QED BY <1>1, VgaInvHolds, PTL

==============================================================================
