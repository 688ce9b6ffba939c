----------------------------- MODULE FormatProofs -----------------------------
(***************************************************************************)
(* Proofs about Format for every set of characters, of strings and of      *)
(* calls, and for words of any even range: what printf and fvga_write      *)
(* print and count.  What Concat and Power compute is proved by induction  *)
(* from the functions they are defined by.                                 *)
(***************************************************************************)
EXTENDS Format, WellFoundedInduction, TLAPS

\* A step is for the SMT solver unless it names another prover.
USE SMTT(60)

\* Induction: a set with 0 and with every successor holds all numbers.
LEMMA Induction ==
  ASSUME NEW S, 0 \in S, \A n \in Nat : n \in S => n + 1 \in S
  PROVE  Nat \subseteq S
<1> SUFFICES ASSUME Nat \ S # {} PROVE FALSE
  OBVIOUS
<1> DEFINE T == Nat \ S
<1>1. PICK x \in T : \A y \in T : ~(<<y, x>> \in OpToRel(<, Nat))
  BY NatLessThanWellFounded, WFMin, ZenonT(30)
<1>2. \A y \in T : x <= y
  <2> SUFFICES ASSUME NEW y \in T PROVE x <= y
    OBVIOUS
  <2>1. <<y, x>> \in Nat \X Nat /\ ~(<<y, x>> \in OpToRel(<, Nat))
    BY <1>1, ZenonT(30)
  <2> QED BY <2>1 DEF OpToRel
<1>3. x \in Nat /\ x \notin S
  OBVIOUS
<1>4. x # 0
  BY <1>3
<1>5. x - 1 \in T
  BY <1>3, <1>4
<1> HIDE DEF T
<1> QED BY <1>2, <1>3, <1>5

-----------------------------------------------------------------------------
(***************************************************************************)
(* Concat, by its recursion.                                               *)
(***************************************************************************)
\* Concatenation, by a name of its own where only its arguments matter.
Joined(s, t) == s \o t

\* The step of the recursion in Concat.
ConcatStep(f, parts, i) == IF i = 0 THEN <<>> ELSE Joined(f[i - 1], parts[i])

\* f[i] is what the first i of parts make up, for i up to k.
Builds(f, k, parts) == f[0] = <<>> /\ \A i \in 1 .. k : f[i] = Joined(f[i - 1], parts[i])

\* f is the function that Concat defines.
Concats(f, parts) == f = [i \in 0 .. Len(parts) |-> ConcatStep(f, parts, i)]

\* Concat goes by some such function.
LEMMA ConcatIs ==
  ASSUME NEW parts
  PROVE  Concat(parts) = (CHOOSE f : Concats(f, parts))[Len(parts)]
  BY ZenonT(30) DEF Concat, Concats, ConcatStep, Joined

\* Such a function gives the text of the first parts, one part after the other,
LEMMA ConcatsBuilds ==
  ASSUME NEW parts, Len(parts) \in Nat, NEW f, Concats(f, parts)
  PROVE  Builds(f, Len(parts), parts)
<1>1. ASSUME NEW i \in 0 .. Len(parts) PROVE f[i] = ConcatStep(f, parts, i)
  BY ZenonT(30) DEF Concats
<1>2. 0 \in 0 .. Len(parts) /\ \A i \in 1 .. Len(parts) : i \in 0 .. Len(parts) /\ i # 0
  OBVIOUS
<1> QED BY <1>1, <1>2, ZenonT(30) DEF Builds, ConcatStep

\* and a function that does is such a function.
LEMMA BuildsConcats ==
  ASSUME NEW parts, Len(parts) \in Nat, NEW X, NEW f \in [0 .. Len(parts) -> X], Builds(f, Len(parts), parts)
  PROVE  Concats(f, parts)
<1>1. ASSUME NEW i \in 0 .. Len(parts) PROVE f[i] = ConcatStep(f, parts, i)
  <2>1. i # 0 => i \in 1 .. Len(parts)
    OBVIOUS
  <2> QED BY <2>1, ZenonT(30) DEF Builds, ConcatStep
<1>2. f = [i \in 0 .. Len(parts) |-> ConcatStep(f, parts, i)]
  BY <1>1
<1> QED BY <1>2, ZenonT(30) DEF Concats

\* There is one.
LEMMA ConcatsExists ==
  ASSUME NEW X, NEW parts \in Seq(Seq(X))
  PROVE  \E f \in [0 .. Len(parts) -> Seq(X)] : Concats(f, parts)
<1> DEFINE P(k) == k <= Len(parts) => \E f \in [0 .. k -> Seq(X)] : Builds(f, k, parts)
           S == {k \in Nat : P(k)}
<1>1. P(0)
  <2>1. [i \in 0 .. 0 |-> <<>>] \in [0 .. 0 -> Seq(X)]
    OBVIOUS
  <2>2. Builds([i \in 0 .. 0 |-> <<>>], 0, parts)
    BY DEF Builds
  <2> QED BY <2>1, <2>2, ZenonT(30)
<1>2. ASSUME NEW k \in Nat, P(k) PROVE P(k + 1)
  <2> SUFFICES ASSUME k + 1 <= Len(parts) PROVE \E f \in [0 .. k + 1 -> Seq(X)] : Builds(f, k + 1, parts)
    BY ZenonT(30)
  <2>0. k <= Len(parts) /\ k + 1 \in 1 .. Len(parts)
    OBVIOUS
  <2>1. PICK f \in [0 .. k -> Seq(X)] : Builds(f, k, parts)
    BY <1>2, <2>0, ZenonT(30)
  <2>2. parts[k + 1] \in Seq(X) /\ f[k] \in Seq(X)
    BY <2>0
  <2> DEFINE last == Joined(f[k], parts[k + 1])
             g == [i \in 0 .. k + 1 |-> IF i = k + 1 THEN last ELSE f[i]]
  <2>3. last \in Seq(X)
    BY <2>2 DEF Joined
  <2> HIDE DEF last
  <2>4. g \in [0 .. k + 1 -> Seq(X)] /\ g[k + 1] = last /\ \A i \in 0 .. k : g[i] = f[i]
    BY <2>3
  <2> HIDE DEF g
  <2>5. g[0] = <<>>
    BY <2>1, <2>4 DEF Builds
  <2>6. ASSUME NEW i \in 1 .. k + 1 PROVE g[i] = Joined(g[i - 1], parts[i])
    <3>1. CASE i = k + 1
      <4>1. i - 1 = k /\ k \in 0 .. k
        BY <3>1
      <4> QED BY <2>4, <3>1, <4>1, ZenonT(30) DEF last
    <3>2. CASE i # k + 1
      <4>1. i \in 1 .. k /\ i \in 0 .. k /\ i - 1 \in 0 .. k
        BY <3>2
      <4> QED BY <2>1, <2>4, <4>1, ZenonT(30) DEF Builds
    <3> QED BY <3>1, <3>2, ZenonT(30)
  <2>7. Builds(g, k + 1, parts)
    BY <2>5, <2>6, ZenonT(30) DEF Builds
  <2> QED BY <2>4, <2>7, ZenonT(30)
<1>3. Len(parts) \in Nat /\ Len(parts) <= Len(parts)
  OBVIOUS
<1> HIDE DEF P
<1>4. 0 \in S /\ \A k \in Nat : k \in S => k + 1 \in S
  BY <1>1, <1>2
<1>5. P(Len(parts))
  <2> HIDE DEF S
  <2>1. Len(parts) \in S
    BY <1>3, <1>4, Induction, ZenonT(30)
  <2> QED BY <2>1, ZenonT(30) DEF S
<1>6. PICK f \in [0 .. Len(parts) -> Seq(X)] : Builds(f, Len(parts), parts)
  BY <1>3, <1>5, ZenonT(30) DEF P
<1>7. Concats(f, parts)
  BY <1>3, <1>6, BuildsConcats, ZenonT(30)
<1> QED BY <1>7, ZenonT(30)

\* There is only one.
LEMMA BuildsUnique ==
  ASSUME NEW parts, NEW n \in Nat, NEW f, NEW g, Builds(f, n, parts), Builds(g, n, parts)
  PROVE  \A i \in 0 .. n : f[i] = g[i]
<1> DEFINE P(k) == k \in 0 .. n => f[k] = g[k]
           S == {k \in Nat : P(k)}
<1>1. P(0)
  BY ZenonT(30) DEF Builds
<1>2. ASSUME NEW k \in Nat, P(k) PROVE P(k + 1)
  <2> SUFFICES ASSUME k + 1 \in 0 .. n PROVE f[k + 1] = g[k + 1]
    BY ZenonT(30)
  <2>1. k + 1 \in 1 .. n /\ k + 1 - 1 = k /\ k \in 0 .. n
    OBVIOUS
  <2>2. f[k + 1] = Joined(f[k + 1 - 1], parts[k + 1])
    BY <2>1 DEF Builds
  <2>3. g[k + 1] = Joined(g[k + 1 - 1], parts[k + 1])
    BY <2>1 DEF Builds
  <2> QED BY <1>2, <2>1, <2>2, <2>3, ZenonT(30)
<1> HIDE DEF P
<1>3. 0 \in S /\ \A k \in Nat : k \in S => k + 1 \in S
  BY <1>1, <1>2
<1>4. Nat \subseteq S
  <2> HIDE DEF S
  <2> QED BY <1>3, Induction, ZenonT(30)
<1>5. ASSUME NEW k \in 0 .. n PROVE k \in Nat
  OBVIOUS
<1> QED BY <1>4, <1>5, ZenonT(30) DEF P

\* So Concat is the last value of any such function.
LEMMA ConcatValue ==
  ASSUME NEW X, NEW parts \in Seq(Seq(X)), NEW f, Builds(f, Len(parts), parts)
  PROVE  Concat(parts) = f[Len(parts)]
<1> DEFINE g == CHOOSE h : Concats(h, parts)
<1>1. Concats(g, parts)
  BY ConcatsExists, ZenonT(30)
<1>2. Concat(parts) = g[Len(parts)]
  BY ConcatIs, ZenonT(30)
<1> HIDE DEF g
<1>3. Len(parts) \in Nat /\ Len(parts) \in 0 .. Len(parts)
  OBVIOUS
<1>4. Builds(g, Len(parts), parts)
  BY <1>1, <1>3, ConcatsBuilds, ZenonT(30)
<1>5. \A i \in 0 .. Len(parts) : f[i] = g[i]
  BY <1>3, <1>4, BuildsUnique
<1> QED BY <1>2, <1>3, <1>5, ZenonT(30)

\* The text of any parts is a text, and that of no parts is empty.
LEMMA ConcatType ==
  ASSUME NEW X, NEW parts \in Seq(Seq(X))
  PROVE  Concat(parts) \in Seq(X)
<1>1. PICK f \in [0 .. Len(parts) -> Seq(X)] : Concats(f, parts)
  BY ConcatsExists, ZenonT(30)
<1>2. Len(parts) \in Nat /\ Len(parts) \in 0 .. Len(parts)
  OBVIOUS
<1>3. Builds(f, Len(parts), parts)
  BY <1>1, <1>2, ConcatsBuilds, ZenonT(30)
<1>4. Concat(parts) = f[Len(parts)]
  BY <1>3, ConcatValue, ZenonT(30)
<1> QED BY <1>2, <1>4, ZenonT(30)

\* No parts make up the empty text.
LEMMA ConcatEmpty ==
  Concat(<<>>) = <<>>
<1>1. <<>> \in Seq(Seq({})) /\ Len(<<>>) = 0
  OBVIOUS
<1> DEFINE f == [i \in {0} |-> <<>>]
<1>2. Builds(f, 0, <<>>)
  BY DEF Builds
<1>3. f[0] = <<>>
  OBVIOUS
<1> HIDE DEF f
<1> QED BY <1>1, <1>2, <1>3, ConcatValue, ZenonT(30)

\* One more part at the end.
LEMMA ConcatAppend ==
  ASSUME NEW X, NEW parts \in Seq(Seq(X)), NEW s \in Seq(X)
  PROVE  Concat(Append(parts, s)) = Concat(parts) \o s
<1> DEFINE n == Len(parts)
           all == Append(parts, s)
<1>1. PICK f \in [0 .. n -> Seq(X)] : Concats(f, parts)
  BY ConcatsExists, ZenonT(30)
<1>2. n \in Nat /\ all \in Seq(Seq(X)) /\ Len(all) = n + 1
  OBVIOUS
<1>3. all[n + 1] = s /\ \A i \in 1 .. n : all[i] = parts[i]
  OBVIOUS
<1>4. Builds(f, n, parts)
  BY <1>1, <1>2, ConcatsBuilds, ZenonT(30)
<1>5. Concat(parts) = f[n]
  BY <1>4, ConcatValue, ZenonT(30)
<1> DEFINE last == Joined(f[n], s)
<1> HIDE DEF all, last
<1> DEFINE g == [i \in 0 .. n + 1 |-> IF i = n + 1 THEN last ELSE f[i]]
<1>6. g[n + 1] = last /\ \A i \in 0 .. n : g[i] = f[i]
  BY <1>2
<1>7. 0 \in 0 .. n /\ n \in 0 .. n
  BY <1>2
<1> HIDE DEF g, n
<1>8. ASSUME NEW i \in 1 .. n + 1 PROVE g[i] = Joined(g[i - 1], all[i])
  <2>1. CASE i = n + 1
    <3>1. i - 1 = n
      BY <1>2, <2>1
    <3> QED BY <1>3, <1>6, <1>7, <2>1, <3>1, ZenonT(30) DEF last
  <2>2. CASE i # n + 1
    <3>1. i \in 1 .. n /\ i \in 0 .. n /\ i - 1 \in 0 .. n
      BY <1>2, <2>2
    <3> QED BY <1>3, <1>4, <1>6, <3>1, ZenonT(30) DEF Builds
  <2> QED BY <2>1, <2>2, ZenonT(30)
<1>9. Builds(g, n + 1, all)
  BY <1>4, <1>6, <1>7, <1>8, ZenonT(30) DEF Builds
<1>10. Concat(all) = last
  BY <1>2, <1>6, <1>9, ConcatValue, ZenonT(30)
<1> QED BY <1>5, <1>10, ZenonT(30) DEF all, last, Joined

\* One more part at the start.
LEMMA ConcatCons ==
  ASSUME NEW X, NEW parts \in Seq(Seq(X)), NEW s \in Seq(X)
  PROVE  Concat(<<s>> \o parts) = s \o Concat(parts)
<1> DEFINE n == Len(parts)
           all == <<s>> \o parts
<1>1. PICK f \in [0 .. n -> Seq(X)] : Concats(f, parts)
  BY ConcatsExists, ZenonT(30)
<1>2. n \in Nat /\ all \in Seq(Seq(X)) /\ Len(all) = n + 1
  OBVIOUS
<1>3. all[1] = s /\ \A i \in 1 .. n : all[i + 1] = parts[i]
  OBVIOUS
<1>4. Builds(f, n, parts)
  BY <1>1, <1>2, ConcatsBuilds, ZenonT(30)
<1>5. Concat(parts) = f[n]
  BY <1>4, ConcatValue, ZenonT(30)
<1>6. \A i \in 1 .. n : f[i - 1] \in Seq(X) /\ parts[i] \in Seq(X)
  <2>1. \A i \in 1 .. n : i - 1 \in 0 .. n
    BY <1>2
  <2>2. \A i \in 1 .. n : parts[i] \in Seq(X)
    OBVIOUS
  <2> HIDE DEF n
  <2> QED BY <2>1, <2>2, ZenonT(30)
<1> HIDE DEF all
<1> DEFINE g == [i \in 0 .. n + 1 |-> IF i = 0 THEN <<>> ELSE Joined(s, f[i - 1])]
<1>7. g[0] = <<>> /\ \A i \in 1 .. n + 1 : g[i] = Joined(s, f[i - 1])
  BY <1>2
<1> HIDE DEF g, n
<1>8. ASSUME NEW i \in 1 .. n + 1 PROVE g[i] = Joined(g[i - 1], all[i])
  <2>1. g[i] = Joined(s, f[i - 1])
    BY <1>7, ZenonT(30)
  <2>2. CASE i = 1
    <3>1. i - 1 = 0 /\ f[0] = <<>>
      BY <1>4, <2>2 DEF Builds
    <3>2. Joined(s, <<>>) = s /\ Joined(<<>>, s) = s
      BY DEF Joined
    <3> QED BY <1>3, <1>7, <2>1, <2>2, <3>1, <3>2, ZenonT(30)
  <2>3. CASE i # 1
    <3> DEFINE j == i - 1
    <3>1. j \in 1 .. n /\ j \in 1 .. n + 1 /\ j + 1 = i
      BY <1>2, <2>3
    <3> HIDE DEF j
    <3>2. f[j] = Joined(f[j - 1], parts[j]) /\ all[i] = parts[j] /\ g[j] = Joined(s, f[j - 1])
      BY <1>3, <1>4, <1>7, <3>1, ZenonT(30) DEF Builds
    <3>3. Joined(s, Joined(f[j - 1], parts[j])) = Joined(Joined(s, f[j - 1]), parts[j])
      <4>1. ASSUME NEW a \in Seq(X), NEW b \in Seq(X), NEW c \in Seq(X)
            PROVE  a \o (b \o c) = (a \o b) \o c
        OBVIOUS
      <4> QED BY <1>6, <3>1, <4>1, ZenonT(30) DEF Joined
    <3> QED BY <2>1, <3>2, <3>3, ZenonT(30) DEF j
  <2> QED BY <2>2, <2>3, ZenonT(30)
<1>9. Builds(g, n + 1, all)
  BY <1>7, <1>8, ZenonT(30) DEF Builds
<1> DEFINE m == n + 1
<1>10. m \in 1 .. n + 1 /\ m - 1 = n
  BY <1>2
<1>11. Concat(all) = Joined(s, f[n])
  <2>1. Concat(all) = g[m]
    BY <1>2, <1>9, ConcatValue, ZenonT(30)
  <2> HIDE DEF m
  <2>2. g[m] = Joined(s, f[m - 1])
    BY <1>7, <1>10, ZenonT(30)
  <2> QED BY <1>10, <2>1, <2>2, ZenonT(30)
<1> QED BY <1>5, <1>11, ZenonT(30) DEF all, Joined

-----------------------------------------------------------------------------
(***************************************************************************)
(* Powers and quotients.                                                   *)
(***************************************************************************)
\* Multiplication, by a name of its own where only its arguments matter.
Product(a, b) == a * b

\* The step of the recursion in Power.
PowerStep(p, b, i) == IF i = 0 THEN 1 ELSE Product(b, p[i - 1])

\* p[i] is the power of b with exponent i, for i up to k.
Powers(p, b, k) == p[0] = 1 /\ \A i \in 0 .. k : i # 0 => p[i] = Product(b, p[i - 1])

\* p is the function that Power defines.
PowersTo(p, b, k) == p = [i \in 0 .. k |-> PowerStep(p, b, i)]

\* Power goes by some such function.
LEMMA PowerIs ==
  ASSUME NEW b, NEW k
  PROVE  Power(b, k) = (CHOOSE p : PowersTo(p, b, k))[k]
  BY ZenonT(30) DEF Power, PowersTo, PowerStep, Product

\* The powers up to any exponent exist.
LEMMA PowersExist ==
  ASSUME NEW b \in Nat, NEW m \in Nat
  PROVE  \E p \in [0 .. m -> Nat] : Powers(p, b, m)
<1> DEFINE P(k) == \E p \in [0 .. k -> Nat] : Powers(p, b, k)
           S == {k \in Nat : P(k)}
<1>1. P(0)
  <2>1. PICK p \in [0 .. 0 -> Nat] : p[0] = 1
    <3>1. [i \in 0 .. 0 |-> 1] \in [0 .. 0 -> Nat] /\ [i \in 0 .. 0 |-> 1][0] = 1
      OBVIOUS
    <3> QED BY <3>1, ZenonT(30)
  <2>2. Powers(p, b, 0)
    BY <2>1 DEF Powers
  <2> QED BY <2>2, ZenonT(30)
<1>2. ASSUME NEW k \in Nat, P(k) PROVE P(k + 1)
  <2>1. PICK p \in [0 .. k -> Nat] : Powers(p, b, k)
    BY <1>2, ZenonT(30)
  <2>2. PICK last \in Nat : last = Product(b, p[k])
    BY DEF Product
  <2>3. PICK q \in [0 .. k + 1 -> Nat] : q[k + 1] = last /\ \A i \in 0 .. k : q[i] = p[i]
    <3> DEFINE h == [i \in 0 .. k + 1 |-> IF i = k + 1 THEN last ELSE p[i]]
    <3>1. h \in [0 .. k + 1 -> Nat] /\ h[k + 1] = last
      OBVIOUS
    <3>2. ASSUME NEW i \in 0 .. k PROVE h[i] = p[i]
      OBVIOUS
    <3> HIDE DEF h
    <3> QED BY <3>1, <3>2, ZenonT(30)
  <2>4. q[0] = 1
    BY <2>1, <2>3 DEF Powers
  <2>5. ASSUME NEW i \in 0 .. k + 1, i # 0 PROVE q[i] = Product(b, q[i - 1])
    <3>1. CASE i = k + 1
      <4>1. i - 1 = k /\ k \in 0 .. k
        BY <3>1
      <4> QED BY <2>2, <2>3, <3>1, <4>1, ZenonT(30)
    <3>2. CASE i # k + 1
      <4>1. i \in 0 .. k /\ i - 1 \in 0 .. k
        BY <2>5, <3>2
      <4> QED BY <2>1, <2>3, <2>5, <4>1, ZenonT(30) DEF Powers
    <3> QED BY <3>1, <3>2, ZenonT(30)
  <2>6. Powers(q, b, k + 1)
    BY <2>4, <2>5, ZenonT(30) DEF Powers
  <2> QED BY <2>6, ZenonT(30)
<1> HIDE DEF P
<1>3. 0 \in S /\ \A k \in Nat : k \in S => k + 1 \in S
  BY <1>1, <1>2
<1>4. m \in S
  <2> HIDE DEF S
  <2> QED BY <1>3, Induction, ZenonT(30)
<1> QED BY <1>4, ZenonT(30) DEF P

\* They are unique.
LEMMA PowersUnique ==
  ASSUME NEW b, NEW m \in Nat, NEW p, NEW q, Powers(p, b, m), Powers(q, b, m)
  PROVE  \A i \in 0 .. m : p[i] = q[i]
<1> DEFINE P(k) == k \in 0 .. m => p[k] = q[k]
           S == {k \in Nat : P(k)}
<1>1. P(0)
  BY DEF Powers
<1>2. ASSUME NEW k \in Nat, P(k) PROVE P(k + 1)
  <2> SUFFICES ASSUME k + 1 \in 0 .. m PROVE p[k + 1] = q[k + 1]
    BY ZenonT(30)
  <2>1. k + 1 # 0 /\ k + 1 - 1 = k /\ k \in 0 .. m
    OBVIOUS
  <2>2. p[k + 1] = Product(b, p[k])
    BY <2>1 DEF Powers
  <2>3. q[k + 1] = Product(b, q[k])
    BY <2>1 DEF Powers
  <2> QED BY <1>2, <2>1, <2>2, <2>3, ZenonT(30)
<1> HIDE DEF P
<1>3. 0 \in S /\ \A k \in Nat : k \in S => k + 1 \in S
  BY <1>1, <1>2
<1>4. Nat \subseteq S
  <2> HIDE DEF S
  <2> QED BY <1>3, Induction, ZenonT(30)
<1>5. ASSUME NEW k \in 0 .. m PROVE k \in Nat
  OBVIOUS
<1> QED BY <1>4, <1>5, ZenonT(30) DEF P

\* Power is the value of any such function.
LEMMA PowerValue ==
  ASSUME NEW b \in Nat, NEW k \in Nat, NEW m \in Nat, k <= m,
         NEW p \in [0 .. m -> Nat], Powers(p, b, m)
  PROVE  Power(b, k) = p[k]
<1>1. PICK r \in [0 .. k -> Nat] : Powers(r, b, k)
  BY PowersExist, ZenonT(30)
<1>2. PowersTo(r, b, k)
  <2>1. ASSUME NEW i \in 0 .. k PROVE r[i] = PowerStep(r, b, i)
    <3>1. CASE i = 0
      BY <1>1, <3>1, ZenonT(30) DEF Powers, PowerStep
    <3>2. CASE i # 0
      BY <1>1, <3>2, ZenonT(30) DEF Powers, PowerStep
    <3> QED BY <3>1, <3>2, ZenonT(30)
  <2>2. r = [i \in 0 .. k |-> PowerStep(r, b, i)]
    BY <2>1
  <2> QED BY <2>2, ZenonT(30) DEF PowersTo
<1> DEFINE q == CHOOSE f : PowersTo(f, b, k)
<1>3. PowersTo(q, b, k)
  BY <1>2, ZenonT(30)
<1>4. Power(b, k) = q[k]
  BY PowerIs, ZenonT(30)
<1> HIDE DEF q
<1>5. Powers(q, b, k)
  <2>1. ASSUME NEW i \in 0 .. k PROVE q[i] = PowerStep(q, b, i)
    BY <1>3, ZenonT(30) DEF PowersTo
  <2>2. 0 \in 0 .. k
    OBVIOUS
  <2> QED BY <2>1, <2>2, ZenonT(30) DEF Powers, PowerStep
<1>6. Powers(p, b, k)
  <2>1. ASSUME NEW i \in 0 .. k PROVE i \in 0 .. m
    OBVIOUS
  <2> QED BY <2>1, ZenonT(30) DEF Powers
<1>7. \A i \in 0 .. k : q[i] = p[i]
  BY <1>5, <1>6, PowersUnique
<1>8. k \in 0 .. k
  OBVIOUS
<1> QED BY <1>4, <1>7, <1>8, ZenonT(30)

\* The powers of a base, one from the other.
LEMMA PowerSteps ==
  ASSUME NEW b \in Nat, NEW k \in Nat
  PROVE  /\ Power(b, 0) = 1
         /\ Power(b, k) \in Nat
         /\ Power(b, k + 1) = b * Power(b, k)
<1>1. PICK p \in [0 .. k + 1 -> Nat] : Powers(p, b, k + 1)
  <2>1. k + 1 \in Nat
    OBVIOUS
  <2> QED BY <2>1, PowersExist, ZenonT(30)
<1>2. 0 <= k + 1 /\ k <= k + 1 /\ k + 1 <= k + 1 /\ k + 1 \in Nat /\ k \in 0 .. k + 1
  OBVIOUS
<1>3. Power(b, 0) = p[0] /\ Power(b, k) = p[k] /\ Power(b, k + 1) = p[k + 1]
  BY <1>1, <1>2, PowerValue
<1>4. p[k + 1] = Product(b, p[k]) /\ p[0] = 1
  <2>1. k + 1 # 0 /\ k + 1 \in 0 .. k + 1 /\ k + 1 - 1 = k
    OBVIOUS
  <2> QED BY <1>1, <2>1 DEF Powers
<1>5. p[k] \in Nat
  BY <1>2
<1> QED BY <1>3, <1>4, <1>5, ZenonT(30) DEF Product

\* Powers are positive, grow, and exceed their exponents.
LEMMA PowerGrows ==
  ASSUME NEW b \in Nat, b >= 2, NEW k \in Nat
  PROVE  /\ Power(b, k) \in Nat /\ Power(b, k) > k
         /\ \A i \in 0 .. k : Power(b, i) \in Nat /\ Power(b, i) <= Power(b, k)
<1> DEFINE P(j) == Power(b, j) > j /\ \A i \in 0 .. j : Power(b, i) <= Power(b, j)
           S == {j \in Nat : P(j)}
<1>0. \A j \in Nat : Power(b, j) \in Nat
  BY PowerSteps, ZenonT(30)
<1>1. P(0)
  <2>1. Power(b, 0) = 1
    BY PowerSteps
  <2> QED BY <2>1
<1>2. ASSUME NEW j \in Nat, P(j) PROVE P(j + 1)
  <2>1. PICK p : p = Power(b, j)
    OBVIOUS
  <2>2. PICK q : q = Power(b, j + 1)
    OBVIOUS
  <2>3. p \in Nat /\ p > j /\ q = b * p
    BY <1>2, <2>1, <2>2, PowerSteps
  <2>4. q \in Nat /\ q >= 2 * p
    BY <2>3
  <2>5. q > j + 1 /\ p <= q
    BY <2>3, <2>4
  <2>6. ASSUME NEW i \in 0 .. j + 1 PROVE Power(b, i) <= q
    <3>1. CASE i = j + 1
      BY <2>2, <2>4, <3>1
    <3>2. CASE i # j + 1
      <4>1. i \in 0 .. j /\ i \in Nat
        BY <3>2
      <4>2. Power(b, i) \in Nat /\ Power(b, i) <= p
        BY <1>0, <1>2, <2>1, <4>1, ZenonT(30)
      <4> QED BY <2>3, <2>4, <2>5, <4>2
    <3> QED BY <3>1, <3>2, ZenonT(30)
  <2> QED BY <2>2, <2>5, <2>6, ZenonT(30)
<1> HIDE DEF P
<1>3. 0 \in S /\ \A j \in Nat : j \in S => j + 1 \in S
  BY <1>1, <1>2
<1>4. k \in S
  <2> HIDE DEF S
  <2> QED BY <1>3, Induction, ZenonT(30)
<1>5. P(k)
  BY <1>4, ZenonT(30)
<1>6. ASSUME NEW i \in 0 .. k PROVE i \in Nat
  OBVIOUS
<1> QED BY <1>0, <1>5, <1>6, ZenonT(30) DEF P

\* Quotient and remainder.
LEMMA Division ==
  ASSUME NEW a \in Nat, NEW n \in Nat, n > 0
  PROVE  /\ a \div n \in Nat /\ a % n \in Nat /\ a % n < n
         /\ a = (a \div n) * n + (a % n)
<1>1. a \div n \in Int /\ a % n \in Nat /\ a % n < n
  OBVIOUS
<1>2. (a \div n) * n + (a % n) = a
  OBVIOUS
<1>3. a \div n >= 0
  <2> PICK d : d = a \div n
    OBVIOUS
  <2> PICK m : m = a % n
    OBVIOUS
  <2>1. d \in Int /\ m \in Nat /\ m < n /\ a = d * n + m
    BY <1>1, <1>2
  <2>2. d < 0 => d * n + n <= 0 * n
    BY <2>1
  <2> QED BY <2>1, <2>2
<1> QED BY <1>1, <1>2, <1>3

\* Multiples keep the order of what they are multiples of.
LEMMA Multiples ==
  ASSUME NEW a \in Nat, NEW b \in Nat, NEW n \in Nat, n > 0, a < b
  PROVE  a * n + n <= b * n
<1>1. (b - a - 1) * n >= 0
  OBVIOUS
<1> QED BY <1>1

\* A quotient is determined by the number it is part of.
LEMMA Quotient ==
  ASSUME NEW n \in Nat, n > 0, NEW q \in Nat, NEW r \in Nat, r < n, NEW a \in Nat, a = q * n + r
  PROVE  a \div n = q
<1>1. PICK d : d = a \div n
  OBVIOUS
<1>2. PICK m : m = a % n
  OBVIOUS
<1>3. d \in Nat /\ m \in Nat /\ m < n /\ d * n + m = q * n + r
  BY <1>1, <1>2, Division
<1>4. ~(d < q)
  <2> SUFFICES ASSUME d < q PROVE FALSE
    OBVIOUS
  <2>1. d * n + n <= q * n
    BY <1>3, Multiples
  <2> QED BY <2>1, <1>3
<1>5. ~(q < d)
  <2> SUFFICES ASSUME q < d PROVE FALSE
    OBVIOUS
  <2>1. q * n + n <= d * n
    BY <1>3, Multiples
  <2> QED BY <2>1, <1>3
<1> QED BY <1>1, <1>3, <1>4, <1>5

\* The quotient of a number that is too small is 0.
LEMMA SmallQuotient ==
  ASSUME NEW v \in Nat, NEW p \in Nat, p > 0
  PROVE  v \div p = 0 <=> v < p
<1>1. PICK d : d = v \div p
  OBVIOUS
<1>2. PICK m : m = v % p
  OBVIOUS
<1>3. d \in Nat /\ m \in Nat /\ m < p /\ v = d * p + m
  BY <1>1, <1>2, Division
<1>4. d = 0 => v < p
  BY <1>3
<1>5. d > 0 => v >= p
  BY <1>3
<1> QED BY <1>1, <1>3, <1>4, <1>5

\* To divide by p and then by b is to divide by their product.
LEMMA QuotientTwice ==
  ASSUME NEW v \in Nat, NEW p \in Nat, p > 0, NEW b \in Nat, b > 0
  PROVE  (v \div p) \div b = v \div (b * p)
<1>1. PICK d : d = v \div p
  OBVIOUS
<1>2. PICK m : m = v % p
  OBVIOUS
<1>3. d \in Nat /\ m \in Nat /\ m < p /\ v = d * p + m
  BY <1>1, <1>2, Division
<1>4. PICK e : e = d \div b
  OBVIOUS
<1>5. PICK r : r = d % b
  OBVIOUS
<1>6. e \in Nat /\ r \in Nat /\ r < b /\ d = e * b + r
  BY <1>3, <1>4, <1>5, Division
<1>7. PICK x : x = r * p
  OBVIOUS
<1>8. x \in Nat /\ x + p <= b * p
  BY <1>6, <1>7, Multiples
<1>9. v = e * (b * p) + (x + m)
  <2>1. d * p = e * b * p + r * p
    BY <1>3, <1>6
  <2>2. e * b * p = e * (b * p)
    BY <1>6
  <2> QED BY <1>3, <1>6, <1>7, <1>8, <2>1, <2>2
<1>10. PICK y \in Nat : y = b * p /\ y > 0
  OBVIOUS
<1>11. PICK z \in Nat : z = x + m /\ z < y
  BY <1>3, <1>8, <1>10
<1>12. v \div y = e
  <2>1. v = e * y + z
    BY <1>9, <1>10, <1>11, ZenonT(30)
  <2> QED BY <1>6, <1>10, <1>11, <2>1, Quotient, ZenonT(30)
<1> QED BY <1>1, <1>4, <1>10, <1>12

-----------------------------------------------------------------------------
(***************************************************************************)
(* Numerals.                                                               *)
(***************************************************************************)
\* The digit of v that stands for the multiples of b to the power of i.
Digit(v, b, i) == digits[((v \div Power(b, i)) % b) + 1]

\* len digits in base b are enough for n, and no fewer.
IsLength(len, n, b) == Power(b, len) > n /\ (len = 1 \/ Power(b, len - 1) <= n)

\* There is one such length.
LEMMA OneLength ==
  ASSUME NEW n \in Nat, NEW b \in Nat, b >= 2, NEW k \in Nat, NEW m \in Nat,
         k >= 1, m >= 1, IsLength(k, n, b), IsLength(m, n, b)
  PROVE  ~(k < m)
<1> SUFFICES ASSUME k < m PROVE FALSE
  OBVIOUS
<1>1. m - 1 \in Nat /\ k \in 0 .. m - 1 /\ m # 1
  OBVIOUS
<1>2. Power(b, k) \in Nat /\ Power(b, m - 1) \in Nat /\ Power(b, k) <= Power(b, m - 1)
  BY <1>1, PowerGrows, ZenonT(30)
<1>3. Power(b, k) > n /\ Power(b, m - 1) <= n
  BY <1>1, ZenonT(30) DEF IsLength
<1> QED BY <1>2, <1>3

\* The numeral has that length, and its digits are the quotients by the powers.
LEMMA NumeralIs ==
  ASSUME NEW n \in Nat, NEW b \in Nat, b >= 2, NEW k \in Nat, k >= 1, IsLength(k, n, b)
  PROVE  Numeral(n, b) = [i \in 1 .. k |-> Digit(n, b, k - i)]
<1> DEFINE len == CHOOSE m \in 1 .. n + 1 : IsLength(m, n, b)
<1>1. k \in 1 .. n + 1
  <2>1. CASE k = 1
    BY <2>1
  <2>2. CASE k # 1
    <3>1. k - 1 \in Nat
      OBVIOUS
    <3>2. Power(b, k - 1) \in Nat /\ Power(b, k - 1) > k - 1
      BY <3>1, PowerGrows, ZenonT(30)
    <3>3. Power(b, k - 1) <= n
      BY <2>2, ZenonT(30) DEF IsLength
    <3> QED BY <3>2, <3>3
  <2> QED BY <2>1, <2>2
<1>2. len \in 1 .. n + 1 /\ IsLength(len, n, b)
  BY <1>1, ZenonT(30)
<1>3. Numeral(n, b) = [i \in 1 .. len |-> digits[((n \div Power(b, len - i)) % b) + 1]]
  BY ZenonT(30) DEF Numeral, IsLength
<1> HIDE DEF len
<1>4. len \in Nat /\ len >= 1
  BY <1>2
<1>5. ~(k < len) /\ ~(len < k)
  BY <1>2, <1>4, OneLength, ZenonT(30)
<1>6. len = k
  BY <1>4, <1>5
<1> QED BY <1>3, <1>6, ZenonT(30) DEF Digit

\* The numeral of 0.
LEMMA NumeralZero ==
  ASSUME NEW b \in Nat, b >= 2
  PROVE  Numeral(0, b) = <<"0">>
<1>1. Power(b, 0) = 1 /\ Power(b, 0 + 1) = b * Power(b, 0)
  BY PowerSteps
<1>2. Power(b, 1) = b
  BY <1>1
<1>3. IsLength(1, 0, b)
  BY <1>2 DEF IsLength
<1>4. Numeral(0, b) = [i \in 1 .. 1 |-> Digit(0, b, 1 - i)]
  <2>1. 0 \in Nat /\ 1 \in Nat /\ 1 >= 1
    OBVIOUS
  <2> QED BY <1>3, <2>1, NumeralIs, ZenonT(30)
<1>5. ASSUME NEW i \in 1 .. 1 PROVE Digit(0, b, 1 - i) = "0"
  <2>1. i = 1 /\ 1 - i = 0
    OBVIOUS
  <2>2. 0 \div 1 = 0 /\ 0 % b = 0
    OBVIOUS
  <2>3. Digit(0, b, 1 - i) = digits[0 + 1]
    BY <1>1, <2>1, <2>2 DEF Digit
  <2>4. digits[0 + 1] = "0"
    BY DEF digits
  <2> QED BY <2>3, <2>4, ZenonT(30)
<1>6. [i \in 1 .. 1 |-> Digit(0, b, 1 - i)] = [i \in 1 .. 1 |-> "0"]
  BY <1>5, ZenonT(30)
<1>7. [i \in 1 .. 1 |-> "0"] = <<"0">>
  OBVIOUS
<1> QED BY <1>4, <1>6, <1>7, ZenonT(30)

\* The bases that numbers are printed in.
Bases == {10, 16}

\* Digits are characters.
LEMMA DigitType ==
  ASSUME NEW v \in Nat, NEW b \in Bases, NEW i \in Nat
  PROVE  Digit(v, b, i) \in Alphabet
<1>1. b \in Nat /\ b >= 2
  BY DEF Bases
<1>2. PICK p \in Nat : p = Power(b, i) /\ p > 0
  BY <1>1, PowerGrows
<1>3. PICK q : q = v \div p
  OBVIOUS
<1>4. q \in Nat
  BY <1>2, <1>3, Division
<1>5. PICK r : r = q % b
  OBVIOUS
<1>6. r \in Nat /\ r < 16
  BY <1>4, <1>5 DEF Bases
<1>7. \A j \in DOMAIN digits : digits[j] \in Alphabet
  BY FormatAssumption, ZenonT(30) DEF Own
<1>8. DOMAIN digits = 1 .. 16
  BY DEF digits
<1>9. digits[r + 1] \in Alphabet
  <2>1. r + 1 \in 1 .. 16
    BY <1>6
  <2> QED BY <1>7, <1>8, <2>1, ZenonT(30)
<1> QED BY <1>2, <1>3, <1>5, <1>9, ZenonT(30) DEF Digit

-----------------------------------------------------------------------------
(***************************************************************************)
(* Sequences: what is left of one, and what its elements stand for.        *)
(***************************************************************************)
\* What is left of a sequence after its first n elements.
Rest(pieces, n) == SubSeq(pieces, n + 1, Len(pieces))

\* Sequences with the same length and elements are equal.
LEMMA SameSequence ==
  ASSUME NEW X, NEW s \in Seq(X), NEW t \in Seq(X), Len(s) = Len(t),
         \A i \in 1 .. Len(s) : s[i] = t[i]
  PROVE  s = t
  OBVIOUS

\* A function on the first n numbers is a sequence.
LEMMA FunctionIsSequence ==
  ASSUME NEW X, NEW n \in Nat, NEW g \in [1 .. n -> X]
  PROVE  g \in Seq(X) /\ Len(g) = n
  OBVIOUS

\* What is left, element by element.
LEMMA RestType ==
  ASSUME NEW X, NEW pieces \in Seq(X), NEW n \in Nat, n <= Len(pieces)
  PROVE  /\ Rest(pieces, n) \in Seq(X) /\ Len(Rest(pieces, n)) = Len(pieces) - n
         /\ \A i \in 1 .. Len(pieces) - n : Rest(pieces, n)[i] = pieces[n + i]
  BY DEF Rest

\* It is the next element and what is left after that.
LEMMA RestStep ==
  ASSUME NEW X, NEW pieces \in Seq(X), NEW n \in Nat, n < Len(pieces)
  PROVE  Rest(pieces, n) = <<pieces[n + 1]>> \o Rest(pieces, n + 1)
<1>0. n <= Len(pieces) /\ n + 1 \in Nat /\ n + 1 <= Len(pieces)
  OBVIOUS
<1>1. Rest(pieces, n) \in Seq(X) /\ Len(Rest(pieces, n)) = Len(pieces) - n
  BY <1>0, RestType, ZenonT(30)
<1>2. \A i \in 1 .. Len(pieces) - n : Rest(pieces, n)[i] = pieces[n + i]
  BY <1>0, RestType, ZenonT(30)
<1>3. Rest(pieces, n + 1) \in Seq(X) /\ Len(Rest(pieces, n + 1)) = Len(pieces) - (n + 1)
  BY <1>0, RestType, ZenonT(30)
<1>4. \A i \in 1 .. Len(pieces) - (n + 1) : Rest(pieces, n + 1)[i] = pieces[n + 1 + i]
  BY <1>0, RestType, ZenonT(30)
<1>5. pieces[n + 1] \in X
  OBVIOUS
<1>6. PICK r : r = Rest(pieces, n + 1)
  OBVIOUS
<1>7. PICK s : s = <<pieces[n + 1]>> \o r
  BY ZenonT(30)
<1>8. s \in Seq(X) /\ Len(s) = Len(pieces) - n /\ s[1] = pieces[n + 1]
      /\ \A i \in 1 .. Len(pieces) - n : i # 1 => s[i] = r[i - 1]
  BY <1>3, <1>5, <1>6, <1>7
<1>9. ASSUME NEW i \in 1 .. Len(pieces) - n PROVE s[i] = pieces[n + i]
  <2>1. CASE i = 1
    BY <1>8, <2>1
  <2>2. CASE i # 1
    <3>1. i - 1 \in 1 .. Len(pieces) - (n + 1) /\ n + 1 + (i - 1) = n + i
      BY <2>2
    <3>2. s[i] = r[i - 1]
      BY <1>8, <2>2, ZenonT(30)
    <3>3. r[i - 1] = pieces[n + 1 + (i - 1)]
      BY <1>4, <1>6, <3>1, ZenonT(30)
    <3> QED BY <3>1, <3>2, <3>3, ZenonT(30)
  <2> QED BY <2>1, <2>2
<1>10. s = Rest(pieces, n)
  BY <1>1, <1>2, <1>8, <1>9, SameSequence, ZenonT(30)
<1> QED BY <1>6, <1>7, <1>10, ZenonT(30)

\* What each piece stands for in the format and in the arguments.
LEMMA SourceType ==
  ASSUME NEW p \in Pieces
  PROVE  Source(p) \in Seq(Alphabet) /\ Argument(p) \in Seq(0 .. WordMod - 1)
<1>1. p.char \in Alphabet /\ p.word \in 0 .. WordMod - 1 /\ p.directive \in Directives \cup {"none", "end"}
  BY DEF Pieces
<1>2. "%" \in Directives
  BY ZenonT(30) DEF Directives
<1>3. Directives \subseteq Alphabet
  BY FormatAssumption, ZenonT(30) DEF Own
<1>6. Source(p) \in Seq(Alphabet)
  <2>1. CASE p.directive \in {"none", "end"}
    <3>1. <<p.char>> \in Seq(Alphabet)
      BY <1>1
    <3> QED BY <2>1, <3>1, ZenonT(30) DEF Source
  <2>2. CASE p.directive \notin {"none", "end"}
    <3>1. p.directive \in Alphabet /\ "%" \in Alphabet
      BY <1>1, <1>2, <1>3, <2>2, ZenonT(30)
    <3>2. <<"%", p.directive>> \in Seq(Alphabet)
      BY <3>1
    <3> QED BY <2>2, <3>2, ZenonT(30) DEF Source
  <2> QED BY <2>1, <2>2, ZenonT(30)
<1>7. <<p.word>> \in Seq(0 .. WordMod - 1) /\ <<>> \in Seq(0 .. WordMod - 1)
  BY <1>1
<1>8. Argument(p) \in Seq(0 .. WordMod - 1)
  BY <1>7, ZenonT(30) DEF Argument
<1> QED BY <1>6, <1>8

\* f takes X to Y.
Maps(f, X, Y) == f \in [X -> Y]

\* f of x, where only f and x matter.
Value(f, x) == f[x]

\* f of every element.
Mapped(f, s) == [i \in DOMAIN s |-> Value(f, s[i])]

\* It is as long.
LEMMA MapType ==
  ASSUME NEW X, NEW Y, NEW f, Maps(f, X, Y), NEW s \in Seq(X)
  PROVE  Mapped(f, s) \in Seq(Y) /\ Len(Mapped(f, s)) = Len(s)
<1>1. Len(s) \in Nat /\ DOMAIN s = 1 .. Len(s) /\ \A i \in 1 .. Len(s) : s[i] \in X
  OBVIOUS
<1>2. \A i \in 1 .. Len(s) : Value(f, s[i]) \in Y
  BY <1>1, ZenonT(30) DEF Maps, Value
<1>3. Mapped(f, s) \in [1 .. Len(s) -> Y]
  BY <1>1, <1>2, ZenonT(30) DEF Mapped
<1> QED BY <1>1, <1>3, FunctionIsSequence, ZenonT(30)

\* Each element is in the place of the one it stands for.
LEMMA MapAt ==
  ASSUME NEW X, NEW f, NEW s \in Seq(X)
  PROVE  \A i \in 1 .. Len(s) : Mapped(f, s)[i] = Value(f, s[i])
<1>1. DOMAIN s = 1 .. Len(s)
  OBVIOUS
<1> QED BY <1>1, ZenonT(30) DEF Mapped

\* One more element in front, or at the end.
LEMMA MapCons ==
  ASSUME NEW X, NEW Y, NEW f, Maps(f, X, Y), NEW p \in X, NEW ps \in Seq(X)
  PROVE  Mapped(f, Joined(<<p>>, ps)) = Joined(<<Value(f, p)>>, Mapped(f, ps))
<1> DEFINE all == <<p>> \o ps
           t == Mapped(f, ps)
           s == Mapped(f, all)
           u == <<Value(f, p)>> \o t
<1>1. all \in Seq(X)
  OBVIOUS
<1>2. Len(all) = Len(ps) + 1 /\ all[1] = p /\ \A i \in 1 .. Len(ps) + 1 : i # 1 => all[i] = ps[i - 1]
  OBVIOUS
<1>3. t \in Seq(Y) /\ Len(t) = Len(ps) /\ \A i \in 1 .. Len(ps) : t[i] = Value(f, ps[i])
  <2>1. t \in Seq(Y) /\ Len(t) = Len(ps)
    BY MapType
  <2>2. \A i \in 1 .. Len(ps) : t[i] = Value(f, ps[i])
    BY MapAt, ZenonT(30)
  <2> QED BY <2>1, <2>2, ZenonT(30)
<1>5. Value(f, p) \in Y
  BY DEF Maps, Value
<1> HIDE DEF all, t
<1>4. s \in Seq(Y) /\ Len(s) = Len(all) /\ \A i \in 1 .. Len(all) : s[i] = Value(f, all[i])
  <2>1. s \in Seq(Y) /\ Len(s) = Len(all)
    BY <1>1, MapType
  <2>2. \A i \in 1 .. Len(all) : s[i] = Value(f, all[i])
    BY <1>1, MapAt, ZenonT(30)
  <2> QED BY <2>1, <2>2, ZenonT(30)
<1>6. u \in Seq(Y)
  BY <1>3, <1>5
<1>7. Len(u) = Len(ps) + 1 /\ u[1] = Value(f, p) /\ \A i \in 1 .. Len(ps) + 1 : i # 1 => u[i] = t[i - 1]
  BY <1>3, <1>5
<1> HIDE DEF s, u
<1>8. ASSUME NEW i \in 1 .. Len(ps) + 1 PROVE s[i] = u[i]
  <2>1. s[i] = Value(f, all[i])
    BY <1>2, <1>4, ZenonT(30)
  <2>2. CASE i = 1
    BY <1>2, <1>7, <2>1, <2>2, ZenonT(30)
  <2>3. CASE i # 1
    <3>1. i - 1 \in 1 .. Len(ps)
      BY <2>3
    <3> QED BY <1>2, <1>3, <1>7, <2>1, <2>3, <3>1, ZenonT(30)
  <2> QED BY <2>2, <2>3, ZenonT(30)
<1>10. Len(s) = Len(ps) + 1 /\ Len(u) = Len(ps) + 1
  BY <1>2, <1>4, <1>7, ZenonT(30)
<1>9. s = u
  BY <1>4, <1>6, <1>8, <1>10, SameSequence
<1> QED BY <1>9, ZenonT(30) DEF s, u, t, all, Joined

\* The same at the end.
LEMMA MapAppend ==
  ASSUME NEW X, NEW Y, NEW f, Maps(f, X, Y), NEW p \in X, NEW ps \in Seq(X)
  PROVE  Mapped(f, Append(ps, p)) = Append(Mapped(f, ps), Value(f, p))
<1> DEFINE all == Append(ps, p)
           t == Mapped(f, ps)
           s == Mapped(f, all)
           u == Append(t, Value(f, p))
<1>1. all \in Seq(X)
  OBVIOUS
<1>2. Len(all) = Len(ps) + 1 /\ all[Len(ps) + 1] = p /\ \A i \in 1 .. Len(ps) : all[i] = ps[i]
  OBVIOUS
<1>3. t \in Seq(Y) /\ Len(t) = Len(ps) /\ \A i \in 1 .. Len(ps) : t[i] = Value(f, ps[i])
  <2>1. t \in Seq(Y) /\ Len(t) = Len(ps)
    BY MapType
  <2>2. \A i \in 1 .. Len(ps) : t[i] = Value(f, ps[i])
    BY MapAt, ZenonT(30)
  <2> QED BY <2>1, <2>2, ZenonT(30)
<1>5. Value(f, p) \in Y
  BY DEF Maps, Value
<1> HIDE DEF all, t
<1>4. s \in Seq(Y) /\ Len(s) = Len(all) /\ \A i \in 1 .. Len(all) : s[i] = Value(f, all[i])
  <2>1. s \in Seq(Y) /\ Len(s) = Len(all)
    BY <1>1, MapType
  <2>2. \A i \in 1 .. Len(all) : s[i] = Value(f, all[i])
    BY <1>1, MapAt, ZenonT(30)
  <2> QED BY <2>1, <2>2, ZenonT(30)
<1>6. u \in Seq(Y)
  BY <1>3, <1>5
<1>7. Len(u) = Len(ps) + 1 /\ u[Len(ps) + 1] = Value(f, p) /\ \A i \in 1 .. Len(ps) : u[i] = t[i]
  BY <1>3, <1>5
<1> HIDE DEF s, u
<1>8. ASSUME NEW i \in 1 .. Len(ps) + 1 PROVE s[i] = u[i]
  <2>1. s[i] = Value(f, all[i])
    BY <1>2, <1>4, ZenonT(30)
  <2>2. CASE i = Len(ps) + 1
    BY <1>2, <1>7, <2>1, <2>2, ZenonT(30)
  <2>3. CASE i # Len(ps) + 1
    <3>1. i \in 1 .. Len(ps)
      BY <2>3
    <3> QED BY <1>2, <1>3, <1>7, <2>1, <2>3, <3>1, ZenonT(30)
  <2> QED BY <2>2, <2>3, ZenonT(30)
<1>10. Len(s) = Len(ps) + 1 /\ Len(u) = Len(ps) + 1
  BY <1>2, <1>4, <1>7, ZenonT(30)
<1>9. s = u
  BY <1>4, <1>6, <1>8, <1>10, SameSequence
<1> QED BY <1>9, ZenonT(30) DEF s, u, t, all

\* What the elements of s stand for, one after the other.
Spelled(f, s) == Concat(Mapped(f, s))

\* Elements that stand for texts are spelled as a text.
LEMMA SpelledType ==
  ASSUME NEW X, NEW Y, NEW f, Maps(f, X, Seq(Y)), NEW s \in Seq(X)
  PROVE  Spelled(f, s) \in Seq(Y)
<1>1. Mapped(f, s) \in Seq(Seq(Y))
  BY MapType
<1> QED BY <1>1, ConcatType, ZenonT(30) DEF Spelled

\* No elements are spelled as nothing.
LEMMA SpelledEmpty ==
  ASSUME NEW f
  PROVE  Spelled(f, <<>>) = <<>>
<1>1. Len(Mapped(f, <<>>)) = 0 /\ Mapped(f, <<>>) = <<>>
  BY DEF Mapped
<1> QED BY <1>1, ConcatEmpty, ZenonT(30) DEF Spelled

\* One more element in front.
LEMMA SpelledCons ==
  ASSUME NEW X, NEW Y, NEW f, Maps(f, X, Seq(Y)), NEW p \in X, NEW s \in Seq(X)
  PROVE  Spelled(f, Joined(<<p>>, s)) = Joined(Value(f, p), Spelled(f, s))
<1>1. Mapped(f, s) \in Seq(Seq(Y))
  BY MapType
<1>2. Value(f, p) \in Seq(Y)
  BY DEF Maps, Value
<1>3. Mapped(f, Joined(<<p>>, s)) = Joined(<<Value(f, p)>>, Mapped(f, s))
  BY MapCons
<1>4. Concat(<<Value(f, p)>> \o Mapped(f, s)) = Value(f, p) \o Concat(Mapped(f, s))
  BY <1>1, <1>2, ConcatCons, ZenonT(30)
<1> QED BY <1>3, <1>4, ZenonT(30) DEF Spelled, Joined

\* One more element at the end.
LEMMA SpelledAppend ==
  ASSUME NEW X, NEW Y, NEW f, Maps(f, X, Seq(Y)), NEW p \in X, NEW s \in Seq(X)
  PROVE  Spelled(f, Append(s, p)) = Spelled(f, s) \o Value(f, p)
<1>1. Mapped(f, s) \in Seq(Seq(Y))
  BY MapType
<1>2. Value(f, p) \in Seq(Y)
  BY DEF Maps, Value
<1>3. Mapped(f, Append(s, p)) = Append(Mapped(f, s), Value(f, p))
  BY MapAppend, ZenonT(30)
<1>4. Concat(Append(Mapped(f, s), Value(f, p))) = Concat(Mapped(f, s)) \o Value(f, p)
  BY <1>1, <1>2, ConcatAppend, ZenonT(30)
<1> QED BY <1>3, <1>4, ZenonT(30) DEF Spelled

\* Concatenation is associative.
LEMMA JoinedTwice ==
  ASSUME NEW X, NEW a \in Seq(X), NEW b \in Seq(X), NEW c \in Seq(X)
  PROVE  Joined(Joined(a, b), c) = Joined(a, Joined(b, c))
  BY DEF Joined

\* Sequences one after the other are spelled one after the other.
LEMMA SpelledJoined ==
  ASSUME NEW X, NEW Y, NEW f, Maps(f, X, Seq(Y)), NEW s \in Seq(X), NEW t \in Seq(X)
  PROVE  Spelled(f, Joined(s, t)) = Joined(Spelled(f, s), Spelled(f, t))
<1> DEFINE P(k) == \A u \in Seq(X) :
             Len(u) = k => Spelled(f, Joined(s, u)) = Joined(Spelled(f, s), Spelled(f, u))
           S == {k \in Nat : P(k)}
<1>0. Spelled(f, s) \in Seq(Y)
  BY SpelledType, ZenonT(30)
<1>1. P(0)
  <2> SUFFICES ASSUME NEW u \in Seq(X), Len(u) = 0
               PROVE  Spelled(f, Joined(s, u)) = Joined(Spelled(f, s), Spelled(f, u))
    BY ZenonT(30)
  <2>1. u = <<>> /\ s \o <<>> = s
    OBVIOUS
  <2>2. Spelled(f, s) \o <<>> = Spelled(f, s)
    BY <1>0
  <2> QED BY <2>1, <2>2, SpelledEmpty, ZenonT(30) DEF Joined
<1>2. ASSUME NEW k \in Nat, P(k) PROVE P(k + 1)
  <2> SUFFICES ASSUME NEW u \in Seq(X), Len(u) = k + 1
               PROVE  Spelled(f, Joined(s, u)) = Joined(Spelled(f, s), Spelled(f, u))
    BY ZenonT(30)
  <2> DEFINE r == SubSeq(u, 1, k)
             c == u[k + 1]
  <2>1. r \in Seq(X) /\ c \in X /\ Len(r) = k /\ u = Append(r, c)
    OBVIOUS
  <2> HIDE DEF r, c
  <2>2. s \o u = Append(s \o r, c) /\ s \o r \in Seq(X)
    BY <2>1
  <2>3. Spelled(f, s \o u) = Spelled(f, s \o r) \o Value(f, c)
    BY <2>1, <2>2, SpelledAppend, ZenonT(30)
  <2>4. Spelled(f, s \o r) = Spelled(f, s) \o Spelled(f, r)
    BY <1>2, <2>1, ZenonT(30) DEF Joined
  <2>5. Spelled(f, u) = Spelled(f, r) \o Value(f, c)
    BY <2>1, SpelledAppend, ZenonT(30)
  <2>6. Spelled(f, r) \in Seq(Y) /\ Value(f, c) \in Seq(Y)
    <3>1. Spelled(f, r) \in Seq(Y)
      BY <2>1, SpelledType, ZenonT(30)
    <3>2. Value(f, c) \in Seq(Y)
      BY <2>1 DEF Maps, Value
    <3> QED BY <3>1, <3>2
  <2>7. Joined(Joined(Spelled(f, s), Spelled(f, r)), Value(f, c)) = Joined(Spelled(f, s), Joined(Spelled(f, r), Value(f, c)))
    BY <1>0, <2>6, JoinedTwice
  <2> QED BY <2>3, <2>4, <2>5, <2>7, ZenonT(30) DEF Joined
<1> HIDE DEF P
<1>3. 0 \in S /\ \A k \in Nat : k \in S => k + 1 \in S
  BY <1>1, <1>2
<1>4. Len(t) \in Nat
  OBVIOUS
<1>5. P(Len(t))
  <2> HIDE DEF S
  <2>1. Len(t) \in S
    BY <1>3, <1>4, Induction, ZenonT(30)
  <2> QED BY <2>1, ZenonT(30) DEF S
<1> QED BY <1>5, ZenonT(30) DEF P

\* Every number has a length.
LEMMA LengthExists ==
  ASSUME NEW n \in Nat, NEW b \in Nat, b >= 2
  PROVE  \E k \in Nat : k >= 1 /\ IsLength(k, n, b)
<1> SUFFICES ASSUME \A k \in Nat : k >= 1 => ~IsLength(k, n, b) PROVE FALSE
  BY ZenonT(30)
<1> DEFINE P(k) == k >= 1 => Power(b, k) <= n
           S == {k \in Nat : P(k)}
<1>1. P(0)
  OBVIOUS
<1>2. ASSUME NEW k \in Nat, P(k) PROVE P(k + 1)
  <2>1. k + 1 \in Nat /\ k + 1 >= 1 /\ (k + 1 = 1 <=> k = 0) /\ (k # 0 => k >= 1) /\ k + 1 - 1 = k
    OBVIOUS
  <2>2. ~IsLength(k + 1, n, b)
    BY <2>1, ZenonT(30)
  <2>3. ~(Power(b, k + 1) > n)
    <3>1. CASE k = 0
      BY <2>1, <2>2, <3>1, ZenonT(30) DEF IsLength
    <3>2. CASE k # 0
      <4>1. Power(b, k + 1 - 1) = Power(b, k) /\ Power(b, k) <= n
        BY <1>2, <2>1, <3>2, ZenonT(30)
      <4>2. Power(b, k + 1 - 1) <= n
        BY <4>1
      <4> QED BY <2>2, <4>2 DEF IsLength
    <3> QED BY <3>1, <3>2, ZenonT(30)
  <2>4. Power(b, k + 1) \in Nat
    BY <2>1, PowerGrows, ZenonT(30)
  <2> QED BY <2>3, <2>4
<1> HIDE DEF P
<1>3. 0 \in S /\ \A k \in Nat : k \in S => k + 1 \in S
  BY <1>1, <1>2
<1>4. n + 1 \in Nat /\ n + 1 >= 1
  OBVIOUS
<1>5. P(n + 1)
  <2> HIDE DEF S
  <2>1. n + 1 \in S
    BY <1>3, <1>4, Induction, ZenonT(30)
  <2> QED BY <2>1, ZenonT(30) DEF S
<1>6. Power(b, n + 1) <= n
  BY <1>4, <1>5, ZenonT(30) DEF P
<1>7. Power(b, n + 1) \in Nat /\ Power(b, n + 1) > n + 1
  BY <1>4, PowerGrows, ZenonT(30)
<1> QED BY <1>6, <1>7

\* Numerals are texts.
LEMMA NumeralType ==
  ASSUME NEW n \in Nat, NEW b \in Bases
  PROVE  Numeral(n, b) \in Seq(Alphabet)
<1>1. b \in Nat /\ b >= 2
  BY DEF Bases
<1>2. PICK k \in Nat : k >= 1 /\ IsLength(k, n, b)
  BY <1>1, LengthExists, ZenonT(30)
<1>3. Numeral(n, b) = [i \in 1 .. k |-> Digit(n, b, k - i)]
  BY <1>1, <1>2, NumeralIs, ZenonT(30)
<1>4. ASSUME NEW i \in 1 .. k PROVE Digit(n, b, k - i) \in Alphabet
  <2>1. k - i \in Nat
    OBVIOUS
  <2> QED BY <2>1, DigitType, ZenonT(30)
<1>5. [i \in 1 .. k |-> Digit(n, b, k - i)] \in [1 .. k -> Alphabet]
  BY <1>4, ZenonT(30)
<1> QED BY <1>3, <1>5, FunctionIsSequence, ZenonT(30)

-----------------------------------------------------------------------------
\* The pieces that a call may have.
Good == {p \in Pieces : Proper(p)}

\* What each of them stands for, and what a character is shown as.
Sources    == [p \in Good |-> Source(p)]
Arguments  == [p \in Good |-> Argument(p)]
Renderings == [p \in Good |-> Rendering(p)]
Puts       == [c \in Alphabet |-> putchar(c)]

\* The words.
Words == 0 .. WordMod - 1

\* The characters the functions print by themselves.
LEMMA OwnCharacters ==
  /\ "%" \in Alphabet /\ "q" \in Alphabet /\ "-" \in Alphabet /\ "\r" \in Alphabet
  /\ "0" \in Alphabet /\ "x" \in Alphabet
  /\ null \in Seq(Alphabet)
<1>1. Own \subseteq Alphabet
  BY FormatAssumption, ZenonT(30)
<1>2. "%" \in Directives /\ "q" \in Directives /\ "x" \in Directives
  BY ZenonT(30) DEF Directives
<1>3. \A i \in DOMAIN digits : digits[i] \in Alphabet
  BY <1>1, ZenonT(30) DEF Own
<1>4. digits[1] = "0" /\ 1 \in DOMAIN digits
  BY DEF digits
<1>5. \A i \in DOMAIN null : null[i] \in Alphabet
  BY <1>1, ZenonT(30) DEF Own
<1>6. DOMAIN null = 1 .. 6 /\ null = [i \in 1 .. 6 |-> null[i]]
  BY DEF null
<1>7. null \in [1 .. 6 -> Alphabet]
  BY <1>5, <1>6, ZenonT(30)
<1>8. 6 \in Nat
  OBVIOUS
<1>9. null \in Seq(Alphabet)
  BY <1>7, <1>8, FunctionIsSequence, ZenonT(30)
<1> QED BY <1>1, <1>2, <1>3, <1>4, <1>9, ZenonT(30) DEF Own

\* putchar shows a character as a text.
LEMMA PutsMaps ==
  Maps(Puts, Alphabet, Seq(Alphabet))
<1>1. ASSUME NEW c \in Alphabet PROVE putchar(c) \in Seq(Alphabet)
  <2>1. <<c>> \in Seq(Alphabet)
    OBVIOUS
  <2>2. "\r" \in Alphabet
    BY OwnCharacters, ZenonT(30)
  <2>3. <<"\r", c>> \in Seq(Alphabet)
    BY <2>2
  <2> QED BY <2>1, <2>3, ZenonT(30) DEF putchar
<1> QED BY <1>1, ZenonT(30) DEF Puts, Maps

\* Proper pieces stand for texts in the format and for words in the arguments.
LEMMA SourcesMap ==
  Maps(Sources, Good, Seq(Alphabet)) /\ Maps(Arguments, Good, Seq(Words))
<1>1. ASSUME NEW p \in Good PROVE Source(p) \in Seq(Alphabet) /\ Argument(p) \in Seq(Words)
  BY SourceType, ZenonT(30) DEF Good, Words
<1>2. Maps(Sources, Good, Seq(Alphabet))
  BY <1>1, ZenonT(30) DEF Sources, Maps
<1>3. Maps(Arguments, Good, Seq(Words))
  BY <1>1, ZenonT(30) DEF Arguments, Maps
<1> QED BY <1>2, <1>3

Sign(w)   == IF Signed(w) < 0 THEN <<"-">> ELSE <<>>
Prefix    == IF console = "fvga_write" THEN <<"0", "x">> ELSE <<>>

\* What each kind of piece is printed as.
LEMMA RenderingIs ==
  ASSUME NEW p
  PROVE  /\ p.directive = "none" => Rendering(p) = <<p.char>>
         /\ p.directive = "end"  => Rendering(p) = <<>>
         /\ p.directive = "%"    => Rendering(p) = <<"%">>
         /\ p.directive = "q"    => Rendering(p) = <<"%", "q">>
         /\ p.directive = "c"    => Rendering(p) = <<Chars[p.word]>>
         /\ p.directive = "s"    => Rendering(p) = IF p.word = 0 THEN null ELSE Strings[p.word]
         /\ p.directive = "u"    => Rendering(p) = Numeral(p.word, 10)
<1>1. ASSUME p.directive = "none" PROVE Rendering(p) = <<p.char>>
  BY <1>1 DEF Rendering
<1>2. ASSUME p.directive = "end" PROVE Rendering(p) = <<>>
  BY <1>2 DEF Rendering
<1>3. ASSUME p.directive = "%" PROVE Rendering(p) = <<"%">>
  BY <1>3 DEF Rendering
<1>4. ASSUME p.directive = "q" PROVE Rendering(p) = <<"%", "q">>
  BY <1>4 DEF Rendering
<1>5. ASSUME p.directive = "c" PROVE Rendering(p) = <<Chars[p.word]>>
  BY <1>5 DEF Rendering
<1>6. ASSUME p.directive = "s" PROVE Rendering(p) = IF p.word = 0 THEN null ELSE Strings[p.word]
  BY <1>6 DEF Rendering
<1>7. ASSUME p.directive = "u" PROVE Rendering(p) = Numeral(p.word, 10)
  BY <1>7 DEF Rendering
<1> QED BY <1>1, <1>2, <1>3, <1>4, <1>5, <1>6, <1>7, ZenonT(30)

\* The magnitude is the absolute value, also of the most negative number.
LEMMA MagnitudeIs ==
  ASSUME NEW w \in Words
  PROVE  /\ Signed(w) < 0 => Magnitude(w) = WordMod - w
         /\ ~(Signed(w) < 0) => Magnitude(w) = w
         /\ Signed(w) >= 0 <=> ~(Signed(w) < 0)
         /\ Magnitude(w) \in Nat /\ Magnitude(w) \in Words
<1>1. WordMod \in Nat /\ WordMod > 0 /\ WordMod % 2 = 0
  BY FormatAssumption
<1> DEFINE h == WordMod \div 2
<1>2. h \in Nat /\ WordMod = h + h
  BY <1>1
<1>3. WordMod \div 2 = h
  OBVIOUS
<1> HIDE DEF h
<1>4. w \in Nat /\ w < WordMod
  BY <1>1 DEF Words
<1>5. CASE w < h
  BY <1>2, <1>3, <1>4, <1>5 DEF Signed, Magnitude, Words
<1>6. CASE ~(w < h)
  <2>1. Signed(w) = w - WordMod /\ Signed(w) < 0
    BY <1>1, <1>3, <1>4, <1>6, <1>2 DEF Signed
  <2>2. -(Signed(w) + 1) + 1 = WordMod - w
    BY <1>1, <1>4, <2>1
  <2>3. WordMod - w \in 0 .. WordMod - 1
    BY <1>1, <1>2, <1>4, <1>6
  <2>4. (WordMod - w) % WordMod = WordMod - w
    BY <1>1, <2>3
  <2>5. Magnitude(w) = WordMod - w
    BY <2>1, <2>2, <2>4, ZenonT(30) DEF Magnitude
  <2> QED BY <1>1, <1>4, <2>1, <2>3, <2>5 DEF Words
<1> QED BY <1>5, <1>6

\* Numbers are printed in the shortest numeral of their magnitude.
LEMMA RenderingNumber ==
  ASSUME NEW p, p.word \in Words, console \in Consoles
  PROVE  /\ p.directive \in {"d", "i"} => Rendering(p) = Joined(Sign(p.word), Numeral(Magnitude(p.word), 10))
         /\ p.directive = "u" => Rendering(p) = Joined(<<>>, Numeral(p.word, 10))
         /\ p.directive = "x" => Rendering(p) = Joined(Prefix, Numeral(p.word, 16))
<1>1. p.word \in Nat /\ Magnitude(p.word) \in Nat
  BY MagnitudeIs DEF Words
<1>2. Numeral(p.word, 10) \in Seq(Alphabet)
  <2>1. 10 \in Bases
  BY DEF Bases
  <2> QED BY <1>1, <2>1, NumeralType, ZenonT(30)
<1>3. Joined(<<>>, Numeral(p.word, 10)) = Numeral(p.word, 10)
  BY <1>2 DEF Joined
<1>4. ASSUME p.directive \in {"d", "i"}
      PROVE  Rendering(p) = Joined(Sign(p.word), Numeral(Magnitude(p.word), 10))
  <2>1. CASE Signed(p.word) < 0
    <3>1. Rendering(p) = <<"-">> \o Numeral(WordMod - p.word, 10)
      <4>1. ~(Signed(p.word) >= 0)
        BY <2>1, MagnitudeIs, ZenonT(30)
      <4> QED BY <1>4, <2>1, <4>1 DEF Rendering
    <3> QED BY <2>1, <3>1, MagnitudeIs, ZenonT(30) DEF Sign, Joined
  <2>2. CASE ~(Signed(p.word) < 0)
    <3>1. Signed(p.word) >= 0
      BY <2>2, MagnitudeIs, ZenonT(30)
    <3>2. Rendering(p) = Numeral(p.word, 10)
      <4>1. CASE p.directive = "d"
        BY <2>2, <3>1, <4>1 DEF Rendering
      <4>2. CASE p.directive = "i"
        BY <2>2, <3>1, <4>2 DEF Rendering
      <4> QED BY <1>4, <4>1, <4>2, ZenonT(30)
    <3> QED BY <1>3, <2>2, <3>2, MagnitudeIs, ZenonT(30) DEF Sign
  <2> QED BY <2>1, <2>2, ZenonT(30)
<1>5. ASSUME p.directive = "u" PROVE Rendering(p) = Joined(<<>>, Numeral(p.word, 10))
  BY <1>3, <1>5, RenderingIs, ZenonT(30)
<1>6. ASSUME p.directive = "x" PROVE Rendering(p) = Joined(Prefix, Numeral(p.word, 16))
  <2>1. Rendering(p) = (IF console = "printf" THEN <<>> ELSE <<"0", "x">>) \o Numeral(p.word, 16)
    BY <1>6 DEF Rendering
  <2>2. (IF console = "printf" THEN <<>> ELSE <<"0", "x">>) = Prefix
    BY ZenonT(30) DEF Prefix, Consoles
  <2> QED BY <2>1, <2>2, ZenonT(30) DEF Joined
<1> QED BY <1>4, <1>5, <1>6, ZenonT(30)

\* A piece is printed as a text.
LEMMA RenderingsMap ==
  ASSUME console \in Consoles
  PROVE  Maps(Renderings, Good, Seq(Alphabet))
<1>0. 10 \in Bases /\ 16 \in Bases
  BY DEF Bases
<1>1. ASSUME NEW p \in Good PROVE Rendering(p) \in Seq(Alphabet)
  <2>1. p \in Pieces /\ Proper(p)
    BY ZenonT(30) DEF Good
  <2>2. p.char \in Alphabet /\ p.word \in Words /\ p.directive \in Directives \cup {"none", "end"}
    BY <2>1 DEF Pieces, Words
  <2>3. p.word \in Nat /\ Magnitude(p.word) \in Nat
    BY <2>2, MagnitudeIs DEF Words
  <2>4. <<>> \in Seq(Alphabet) /\ <<p.char>> \in Seq(Alphabet) /\ <<"%">> \in Seq(Alphabet)
        /\ <<"%", "q">> \in Seq(Alphabet)
    BY <2>2, OwnCharacters
  <2>5. CASE p.directive \in {"none", "end", "%", "q"}
    BY <2>4, <2>5, RenderingIs, ZenonT(30)
  <2>6. CASE p.directive = "c"
    <3>1. Chars[p.word] \in Alphabet
      BY <2>1, <2>6, ZenonT(30) DEF Proper
    <3>2. <<Chars[p.word]>> \in Seq(Alphabet)
      BY <3>1
    <3> QED BY <2>6, <3>2, RenderingIs, ZenonT(30)
  <2>7. CASE p.directive = "s"
    <3>1. p.word # 0 => Strings[p.word] \in Seq(Alphabet)
      BY <2>1, <2>7, FormatAssumption, ZenonT(30) DEF Proper
    <3> QED BY <2>7, <3>1, OwnCharacters, RenderingIs, ZenonT(30)
  <2>8. ASSUME NEW s \in Seq(Alphabet), NEW t \in Seq(Alphabet) PROVE Joined(s, t) \in Seq(Alphabet)
    BY DEF Joined
  <2>9. Sign(p.word) \in Seq(Alphabet) /\ Prefix \in Seq(Alphabet)
    <3>1. <<"-">> \in Seq(Alphabet) /\ <<"0", "x">> \in Seq(Alphabet)
      BY OwnCharacters
    <3> QED BY <2>4, <3>1, ZenonT(30) DEF Sign, Prefix
  <2>10. CASE p.directive \in {"d", "i", "u", "x"}
    <3>1. /\ Numeral(Magnitude(p.word), 10) \in Seq(Alphabet)
          /\ Numeral(p.word, 10) \in Seq(Alphabet)
          /\ Numeral(p.word, 16) \in Seq(Alphabet)
      BY <1>0, <2>3, NumeralType, ZenonT(30)
    <3> QED BY <2>2, <2>4, <2>8, <2>9, <2>10, <3>1, RenderingNumber, ZenonT(30)
  <2> QED BY <2>2, <2>5, <2>6, <2>7, <2>10, ZenonT(30) DEF Directives
<1> QED BY <1>1, ZenonT(30) DEF Renderings, Maps

-----------------------------------------------------------------------------
(***************************************************************************)
(* A call, piece by piece.                                                 *)
(***************************************************************************)
\* The first n elements.
First(s, n) == SubSeq(s, 1, n)

\* What is left of the format and of the arguments before piece n + 1, and the text that
\* the pieces before it are printed as.
Left(n) == Spelled(Sources, Rest(call, n))
Owed(n) == Spelled(Arguments, Rest(call, n))
Done(n) == Spelled(Renderings, First(call, n))

\* One more element.
LEMMA FirstStep ==
  ASSUME NEW X, NEW s \in Seq(X), NEW n \in Nat, n < Len(s)
  PROVE  First(s, n + 1) = Append(First(s, n), s[n + 1]) /\ First(s, n) \in Seq(X)
  BY DEF First

\* None of the elements, and all of them.
LEMMA FirstEnds ==
  ASSUME NEW X, NEW s \in Seq(X)
  PROVE  First(s, 0) = <<>> /\ First(s, Len(s)) = s /\ Rest(s, 0) = s /\ Rest(s, Len(s)) = <<>>
  BY DEF First, Rest

\* A call is made of proper pieces.
LEMMA CallGood ==
  ASSUME call \in Calls
  PROVE  call \in Seq(Good) /\ \A i \in 1 .. Len(call) : call[i].directive = "end" => i = Len(call)
<1>1. call \in Seq(Pieces)
  BY FormatAssumption, ZenonT(30)
<1>2. \A i \in DOMAIN call : Proper(call[i]) /\ (call[i].directive = "end" => i = Len(call))
  BY FormatAssumption, ZenonT(30)
<1>3. DOMAIN call = 1 .. Len(call) /\ Len(call) \in Nat /\ \A i \in 1 .. Len(call) : call[i] \in Pieces
  BY <1>1
<1>4. \A i \in 1 .. Len(call) : call[i] \in Good
  BY <1>2, <1>3, ZenonT(30) DEF Good
<1>5. call \in [1 .. Len(call) -> Pieces]
  BY <1>1
<1>6. call \in [1 .. Len(call) -> Good]
  BY <1>4, <1>5
<1>7. call \in Seq(Good)
  BY <1>3, <1>6, FunctionIsSequence, ZenonT(30)
<1> QED BY <1>2, <1>3, <1>7, ZenonT(30)

\* The format, the arguments, the expected text and what is shown, piece by piece.
LEMMA FormatSpelled ==
  ASSUME NEW s \in Seq(Good)
  PROVE  /\ FormatOf(s) = Spelled(Sources, s)
         /\ ArgumentsOf(s) = Spelled(Arguments, s)
         /\ Concat([i \in DOMAIN s |-> Rendering(s[i])]) = Spelled(Renderings, s)
<1>1. ASSUME NEW i \in DOMAIN s PROVE s[i] \in Good
  OBVIOUS
<1>2. [i \in DOMAIN s |-> Source(s[i])] = Mapped(Sources, s)
  BY <1>1, ZenonT(30) DEF Mapped, Value, Sources
<1>3. [i \in DOMAIN s |-> Argument(s[i])] = Mapped(Arguments, s)
  BY <1>1, ZenonT(30) DEF Mapped, Value, Arguments
<1>4. [i \in DOMAIN s |-> Rendering(s[i])] = Mapped(Renderings, s)
  BY <1>1, ZenonT(30) DEF Mapped, Value, Renderings
<1> QED BY <1>2, <1>3, <1>4, ZenonT(30) DEF FormatOf, ArgumentsOf, Spelled

\* A text is shown character by character.
LEMMA ShownSpelled ==
  ASSUME NEW s \in Seq(Alphabet)
  PROVE  Shown(s) = Spelled(Puts, s)
<1>1. ASSUME NEW i \in DOMAIN s PROVE s[i] \in Alphabet
  OBVIOUS
<1>2. [i \in DOMAIN s |-> putchar(s[i])] = Mapped(Puts, s)
  BY <1>1, ZenonT(30) DEF Mapped, Value, Puts
<1> QED BY <1>2, ZenonT(30) DEF Shown, Spelled

\* Texts one after the other are shown one after the other.
LEMMA ShownJoined ==
  ASSUME NEW s \in Seq(Alphabet), NEW t \in Seq(Alphabet)
  PROVE  Shown(Joined(s, t)) = Joined(Shown(s), Shown(t))
<1>1. Joined(s, t) \in Seq(Alphabet)
  BY DEF Joined
<1>2. Spelled(Puts, Joined(s, t)) = Joined(Spelled(Puts, s), Spelled(Puts, t))
  BY PutsMaps, SpelledJoined
<1> QED BY <1>1, <1>2, ShownSpelled, ZenonT(30)

\* What is shown is a text, and nothing for the empty text.
LEMMA ShownType ==
  ASSUME NEW s \in Seq(Alphabet)
  PROVE  Shown(s) \in Seq(Alphabet) /\ Shown(<<>>) = <<>>
<1>1. <<>> \in Seq(Alphabet)
  OBVIOUS
<1>2. Spelled(Puts, s) \in Seq(Alphabet)
  BY PutsMaps, SpelledType, ZenonT(30)
<1>3. Spelled(Puts, <<>>) = <<>>
  BY SpelledEmpty, ZenonT(30)
<1> QED BY <1>1, <1>2, <1>3, ShownSpelled, ZenonT(30)

\* The next piece.
LEMMA NextPiece ==
  ASSUME call \in Seq(Good), console \in Consoles, NEW n \in Nat, n < Len(call)
  PROVE  /\ call[n + 1] \in Good
         /\ Left(n) = Joined(Source(call[n + 1]), Left(n + 1))
         /\ Owed(n) = Joined(Argument(call[n + 1]), Owed(n + 1))
         /\ Done(n + 1) = Joined(Done(n), Rendering(call[n + 1]))
<1>1. call[n + 1] \in Good
  OBVIOUS
<1>2. n + 1 \in Nat /\ n + 1 <= Len(call)
  OBVIOUS
<1>3. Rest(call, n + 1) \in Seq(Good)
  BY <1>2, RestType, ZenonT(30)
<1>4. Rest(call, n) = <<call[n + 1]>> \o Rest(call, n + 1)
  BY RestStep, ZenonT(30)
<1>5. Spelled(Sources, Joined(<<call[n + 1]>>, Rest(call, n + 1))) = Joined(Value(Sources, call[n + 1]), Left(n + 1))
  BY <1>1, <1>3, SourcesMap, SpelledCons DEF Left
<1>6. Spelled(Arguments, Joined(<<call[n + 1]>>, Rest(call, n + 1))) = Joined(Value(Arguments, call[n + 1]), Owed(n + 1))
  BY <1>1, <1>3, SourcesMap, SpelledCons DEF Owed
<1>7. First(call, n + 1) = Append(First(call, n), call[n + 1]) /\ First(call, n) \in Seq(Good)
  BY FirstStep
<1>8. Spelled(Renderings, Append(First(call, n), call[n + 1])) = Done(n) \o Value(Renderings, call[n + 1])
  BY <1>1, <1>7, RenderingsMap, SpelledAppend, ZenonT(30) DEF Done
<1>9. /\ Value(Sources, call[n + 1]) = Source(call[n + 1])
      /\ Value(Arguments, call[n + 1]) = Argument(call[n + 1])
      /\ Value(Renderings, call[n + 1]) = Rendering(call[n + 1])
  BY <1>1, ZenonT(30) DEF Value, Sources, Arguments, Renderings
<1>10. Left(n) = Joined(Source(call[n + 1]), Left(n + 1))
  BY <1>4, <1>5, <1>9, ZenonT(30) DEF Left, Joined
<1>11. Owed(n) = Joined(Argument(call[n + 1]), Owed(n + 1))
  BY <1>4, <1>6, <1>9, ZenonT(30) DEF Owed, Joined
<1>12. Done(n + 1) = Joined(Done(n), Rendering(call[n + 1]))
  BY <1>7, <1>8, <1>9, ZenonT(30) DEF Done, Joined
<1> QED BY <1>1, <1>10, <1>11, <1>12

\* The types of what is left and of what is done.
LEMMA PieceTypes ==
  ASSUME call \in Seq(Good), console \in Consoles, NEW n \in Nat, n <= Len(call)
  PROVE  Left(n) \in Seq(Alphabet) /\ Owed(n) \in Seq(Words) /\ Done(n) \in Seq(Alphabet)
<1>1. Rest(call, n) \in Seq(Good)
  BY RestType, ZenonT(30)
<1>2. First(call, n) \in Seq(Good)
  BY DEF First
<1>3. Left(n) \in Seq(Alphabet)
  BY <1>1, SourcesMap, SpelledType, ZenonT(30) DEF Left
<1>4. Owed(n) \in Seq(Words)
  BY <1>1, SourcesMap, SpelledType, ZenonT(30) DEF Owed
<1>5. Done(n) \in Seq(Alphabet)
  BY <1>2, RenderingsMap, SpelledType, ZenonT(30) DEF Done
<1> QED BY <1>3, <1>4, <1>5

\* Where the call starts and where it ends.
LEMMA PieceEnds ==
  ASSUME call \in Seq(Good)
  PROVE  /\ Left(0) = FormatOf(call) /\ Owed(0) = ArgumentsOf(call) /\ Done(0) = <<>>
         /\ Left(Len(call)) = <<>> /\ Owed(Len(call)) = <<>> /\ Done(Len(call)) = Expected
<1>1. First(call, 0) = <<>> /\ First(call, Len(call)) = call /\ Rest(call, 0) = call /\ Rest(call, Len(call)) = <<>>
  BY FirstEnds
<1>2. /\ FormatOf(call) = Spelled(Sources, call)
      /\ ArgumentsOf(call) = Spelled(Arguments, call)
      /\ Expected = Spelled(Renderings, call)
  BY FormatSpelled, ZenonT(30) DEF Expected
<1> QED BY <1>1, <1>2, SpelledEmpty, ZenonT(30) DEF Left, Owed, Done

\* All of this stays as it is during the call.
LEMMA PiecesStay ==
  ASSUME console' = console, call' = call
  PROVE  /\ \A n : Left(n)' = Left(n) /\ Owed(n)' = Owed(n) /\ Done(n)' = Done(n)
         /\ \A t : Shown(t)' = Shown(t)
         /\ \A p : Rendering(p)' = Rendering(p)
         /\ Prefix' = Prefix
<1>1. ASSUME NEW p PROVE Rendering(p)' = Rendering(p)
  BY DEF Rendering
<1>2. Renderings' = Renderings
  BY <1>1, ZenonT(30) DEF Renderings
<1>3. ASSUME NEW n PROVE Left(n)' = Left(n) /\ Owed(n)' = Owed(n) /\ Done(n)' = Done(n)
  BY <1>2, ZenonT(30) DEF Left, Owed, Done, Spelled, Mapped, First, Rest
<1>4. ASSUME NEW t PROVE Shown(t)' = Shown(t)
  BY ZenonT(30) DEF Shown, putchar
<1>5. Prefix' = Prefix
  BY ZenonT(30) DEF Prefix
<1> QED BY <1>1, <1>3, <1>4, <1>5, ZenonT(30)

-----------------------------------------------------------------------------
(***************************************************************************)
(* The inductive invariant: the call is at some piece, all before it is    *)
(* printed, and what is left of the format and of the arguments is what    *)
(* the pieces from there on stand for. Within a directive, some of its     *)
(* image is printed. A number is first collected: the buffer holds its     *)
(* low digits and value the quotient, so that when value is 0 the buffer   *)
(* holds the numeral backwards, which is then printed from its end.        *)
(***************************************************************************)
\* What piece n + 1 is printed as.
Image(n) == Rendering(call[n + 1])

\* The scan stands before piece n + 1.
Before(n) ==
  /\ n \in 0 .. Len(call)
  /\ fmt = Left(n) /\ args = Owed(n) /\ out = Shown(Done(n))

\* Piece n + 1 is a directive, its argument is taken and k of its characters are
\* printed.
Within(n, k) ==
  /\ n \in 0 .. Len(call) - 1 /\ k \in 0 .. Len(Image(n))
  /\ call[n + 1].directive \in Directives
  /\ fmt = Left(n) /\ args = Owed(n + 1)
  /\ out = Shown(Joined(Done(n), First(Image(n), k)))

\* A string: what is left of it is in str.
InString(n, k) == Within(n, k) /\ str = Rest(Image(n), k)

\* s holds the low digits of v, the lowest first.
LowDigits(s, v, b) == \A i \in 1 .. Len(s) : s[i] = Digit(v, b, i - 1)

\* s holds digits of v, none of them a leading zero, and x is what is left of v.
Collects(x, s, v, b) ==
  /\ s \in Seq(Alphabet)
  /\ x = v \div Power(b, Len(s))
  /\ LowDigits(s, v, b)
  /\ Len(s) # 0 => Power(b, Len(s) - 1) <= v

\* A number: its digits are being collected.
Collecting(n, k, v) ==
  /\ Within(n, k)
  /\ base \in Bases
  /\ Rest(Image(n), k) = Numeral(v, base)
  /\ Collects(value, buffer, v, base)

\* The buffer holds what is left to print, backwards.
Printing(n, k) ==
  /\ Within(n, k)
  /\ value = 0 /\ buffer \in Seq(Alphabet) /\ Len(buffer) # 0
  /\ Len(Image(n)) = k + Len(buffer)
  /\ \A i \in 1 .. Len(buffer) : buffer[i] = Image(n)[k + Len(buffer) - i + 1]

FormatInv ==
  /\ console \in Consoles /\ call \in Calls
  /\ pc \in {"scan", "string", "number", "returned"}
  /\ pc = "scan"   => \E n \in 0 .. Len(call) : Before(n)
  /\ pc = "string" => \E n \in 0 .. Len(call) - 1 : \E k \in 0 .. Len(Image(n)) : InString(n, k)
  /\ pc = "number" => \E n \in 0 .. Len(call) - 1 : \E k \in 0 .. Len(Image(n)) :
                        Printing(n, k) \/ \E v \in Words : Collecting(n, k, v)
  /\ pc = "returned" => out = Shown(Expected) /\ args = <<>>

\* To take the first element off a sequence.
LEMMA TakeOne ==
  ASSUME NEW X, NEW a \in X, NEW s \in Seq(X), NEW u, u = Joined(<<a>>, s)
  PROVE  u # <<>> /\ u[1] = a /\ Head(u) = a /\ Tail(u) = s /\ SubSeq(u, 2, Len(u)) = s
<1>1. u \in Seq(X) /\ Len(u) = Len(s) + 1 /\ u[1] = a /\ \A i \in 1 .. Len(s) : u[i + 1] = s[i]
  BY DEF Joined
<1> DEFINE t == Tail(u)
           r == SubSeq(u, 2, Len(u))
<1>2. t \in Seq(X) /\ Len(t) = Len(s) /\ \A i \in 1 .. Len(s) : t[i] = s[i]
  BY <1>1
<1>4. r \in Seq(X) /\ Len(r) = Len(s) /\ \A i \in 1 .. Len(s) : r[i] = s[i]
  BY <1>1
<1>6. u # <<>> /\ Head(u) = a
  BY <1>1
<1> HIDE DEF t, r
<1>3. t = s
  BY <1>2, SameSequence
<1>5. r = s
  BY <1>4, SameSequence
<1> QED BY <1>1, <1>3, <1>5, <1>6, ZenonT(30) DEF t, r

\* To take the first two elements off.
LEMMA TakeTwo ==
  ASSUME NEW X, NEW a \in X, NEW b \in X, NEW s \in Seq(X), NEW u, u = Joined(<<a, b>>, s)
  PROVE  Len(u) > 1 /\ u[1] = a /\ u[2] = b /\ SubSeq(u, 3, Len(u)) = s
<1>1. /\ u \in Seq(X) /\ Len(u) = Len(s) + 2 /\ u[1] = a /\ u[2] = b
      /\ \A i \in 1 .. Len(s) : u[i + 2] = s[i]
  BY DEF Joined
<1> DEFINE r == SubSeq(u, 3, Len(u))
<1>2. r \in Seq(X) /\ Len(r) = Len(s) /\ \A i \in 1 .. Len(s) : r[i] = s[i]
  BY <1>1
<1>4. Len(u) > 1
  BY <1>1
<1> HIDE DEF r
<1>3. r = s
  BY <1>2, SameSequence
<1> QED BY <1>1, <1>3, <1>4, ZenonT(30) DEF r

\* What the format shows of piece n + 1.
LEMMA AtPiece ==
  ASSUME call \in Calls, console \in Consoles, NEW n \in Nat, n < Len(call), fmt = Left(n)
  PROVE  /\ call[n + 1].directive = "none" =>
              /\ fmt # <<>> /\ fmt[1] = call[n + 1].char /\ fmt[1] # "%"
              /\ SubSeq(fmt, 2, Len(fmt)) = Left(n + 1)
         /\ call[n + 1].directive = "end" => n + 1 = Len(call) /\ fmt = <<"%">>
         /\ call[n + 1].directive \in Directives =>
              /\ Len(fmt) > 1 /\ fmt[1] = "%" /\ fmt[2] = call[n + 1].directive
              /\ SubSeq(fmt, 3, Len(fmt)) = Left(n + 1)
         /\ call[n + 1].directive \in Directives \cup {"none", "end"}
<1> DEFINE p == call[n + 1]
<1>1. /\ call \in Seq(Good)
      /\ \A i \in 1 .. Len(call) : call[i].directive = "end" => i = Len(call)
  BY CallGood, ZenonT(30)
<1>2. n + 1 \in Nat /\ n + 1 <= Len(call) /\ n + 1 \in 1 .. Len(call)
  BY <1>1
<1>3. p \in Good /\ fmt = Joined(Source(p), Left(n + 1))
  BY <1>1, NextPiece, ZenonT(30)
<1>4. Left(n + 1) \in Seq(Alphabet)
  BY <1>1, <1>2, PieceTypes, ZenonT(30)
<1>5. p \in Pieces /\ Proper(p)
  BY <1>3, ZenonT(30) DEF Good
<1>6. p.char \in Alphabet /\ p.directive \in Directives \cup {"none", "end"}
  BY <1>5 DEF Pieces
<1>7. p.directive = "end" => n + 1 = Len(call)
  BY <1>1, <1>2, ZenonT(30)
<1> HIDE DEF p
<1>8. ASSUME p.directive = "none"
      PROVE  fmt # <<>> /\ fmt[1] = p.char /\ fmt[1] # "%" /\ SubSeq(fmt, 2, Len(fmt)) = Left(n + 1)
  <2>1. Source(p) = <<p.char>>
    BY <1>8, ZenonT(30) DEF Source
  <2>2. p.char # "%"
    BY <1>5, <1>8, ZenonT(30) DEF Proper
  <2>3. fmt = Joined(<<p.char>>, Left(n + 1))
    BY <1>3, <2>1, ZenonT(30)
  <2>4. fmt # <<>> /\ fmt[1] = p.char /\ SubSeq(fmt, 2, Len(fmt)) = Left(n + 1)
    BY <1>4, <1>6, <2>3, TakeOne
  <2> QED BY <2>2, <2>4, ZenonT(30)
<1>9. ASSUME p.directive = "end" PROVE fmt = <<"%">>
  <2>1. Source(p) = <<"%">>
    BY <1>5, <1>9, ZenonT(30) DEF Source, Proper
  <2>2. Left(n + 1) = <<>>
    BY <1>1, <1>7, <1>9, PieceEnds, ZenonT(30)
  <2>3. Joined(<<"%">>, <<>>) = <<"%">>
    BY DEF Joined
  <2> QED BY <1>3, <2>1, <2>2, <2>3, ZenonT(30)
<1>10. ASSUME p.directive \in Directives
       PROVE  Len(fmt) > 1 /\ fmt[1] = "%" /\ fmt[2] = p.directive /\ SubSeq(fmt, 3, Len(fmt)) = Left(n + 1)
  <2>1. p.directive \notin {"none", "end"}
    BY <1>10, ZenonT(30) DEF Directives
  <2>2. Source(p) = <<"%", p.directive>>
    BY <2>1, ZenonT(30) DEF Source
  <2>3. p.directive \in Alphabet /\ "%" \in Alphabet
    BY <1>10, OwnCharacters, FormatAssumption, ZenonT(30) DEF Own
  <2>4. fmt = Joined(<<"%", p.directive>>, Left(n + 1))
    BY <1>3, <2>2, ZenonT(30)
  <2> QED BY <1>4, <2>3, <2>4, TakeTwo
<1> QED BY <1>6, <1>7, <1>8, <1>9, <1>10, ZenonT(30) DEF p

\* A directive that the code sees is the next piece, and takes the next argument.
LEMMA DirectiveIs ==
  ASSUME call \in Calls, console \in Consoles, NEW n, Before(n), NEW d, IsDirective(d)
  PROVE  /\ n \in Nat /\ n < Len(call) /\ n \in 0 .. Len(call) - 1
         /\ call[n + 1] \in Good /\ call[n + 1].directive = d /\ d \in Directives
         /\ SubSeq(fmt, 3, Len(fmt)) = Left(n + 1)
         /\ Takes(d) => Head(args) = call[n + 1].word /\ Tail(args) = Owed(n + 1)
         /\ ~Takes(d) => args = Owed(n + 1)
<1>1. call \in Seq(Good) /\ Len(call) \in Nat
  <2>1. call \in Seq(Good)
    BY CallGood, ZenonT(30)
  <2> QED BY <2>1
<1>2. n \in Nat /\ n <= Len(call)
  BY <1>1 DEF Before
<1>3. fmt = Left(n) /\ args = Owed(n)
  BY ZenonT(30) DEF Before
<1>4. Len(fmt) > 1 /\ fmt[1] = "%" /\ fmt[2] = d
  BY ZenonT(30) DEF IsDirective
<1>5. n # Len(call)
  <2> SUFFICES ASSUME n = Len(call) PROVE FALSE
    OBVIOUS
  <2>1. fmt = <<>>
    BY <1>1, <1>3, PieceEnds, ZenonT(30)
  <2> QED BY <1>4, <2>1
<1>6. n < Len(call) /\ n \in 0 .. Len(call) - 1 /\ n + 1 \in Nat /\ n + 1 <= Len(call)
  BY <1>1, <1>2, <1>5
<1>7. call[n + 1].directive # "none"
  BY <1>2, <1>3, <1>4, <1>6, AtPiece, ZenonT(30)
<1>8. call[n + 1].directive # "end"
  <2>1. call[n + 1].directive = "end" => fmt = <<"%">>
    BY <1>2, <1>3, <1>6, AtPiece, ZenonT(30)
  <2>2. fmt # <<"%">>
    BY <1>4
  <2> QED BY <2>1, <2>2
<1>9. call[n + 1].directive \in Directives
  BY <1>2, <1>3, <1>6, <1>7, <1>8, AtPiece, ZenonT(30)
<1>10. call[n + 1].directive = d /\ SubSeq(fmt, 3, Len(fmt)) = Left(n + 1)
  BY <1>2, <1>3, <1>4, <1>6, <1>9, AtPiece, ZenonT(30)
<1>11. call[n + 1] \in Good /\ args = Joined(Argument(call[n + 1]), Owed(n + 1))
  BY <1>1, <1>2, <1>3, <1>6, NextPiece, ZenonT(30)
<1>12. Owed(n + 1) \in Seq(Words)
  BY <1>1, <1>6, PieceTypes, ZenonT(30)
<1>13. call[n + 1].word \in Words
  BY <1>11 DEF Good, Pieces, Words
<1>14. Takes(d) => args = Joined(<<call[n + 1].word>>, Owed(n + 1))
  BY <1>10, <1>11, ZenonT(30) DEF Argument
<1>15. Takes(d) => Head(args) = call[n + 1].word /\ Tail(args) = Owed(n + 1)
  BY <1>12, <1>13, <1>14, TakeOne
<1>16. ~Takes(d) => args = Joined(<<>>, Owed(n + 1))
  BY <1>10, <1>11, ZenonT(30) DEF Argument
<1>17. Joined(<<>>, Owed(n + 1)) = Owed(n + 1)
  BY <1>12 DEF Joined
<1> QED BY <1>2, <1>6, <1>9, <1>10, <1>11, <1>15, <1>16, <1>17, ZenonT(30)

\* The image of a piece.
LEMMA ImageType ==
  ASSUME call \in Calls, console \in Consoles, NEW n \in Nat, n < Len(call)
  PROVE  Image(n) \in Seq(Alphabet) /\ Done(n) \in Seq(Alphabet) /\ Shown(Done(n)) \in Seq(Alphabet)
<1>1. call \in Seq(Good)
  BY CallGood, ZenonT(30)
<1>2. call[n + 1] \in Good /\ n <= Len(call)
  BY <1>1
<1>3. Done(n) \in Seq(Alphabet)
  BY <1>1, <1>2, PieceTypes, ZenonT(30)
<1>4. Shown(Done(n)) \in Seq(Alphabet)
  BY <1>3, ShownType, ZenonT(30)
<1>5. Value(Renderings, call[n + 1]) = Image(n)
  BY <1>2, ZenonT(30) DEF Value, Renderings, Image
<1>6. Value(Renderings, call[n + 1]) \in Seq(Alphabet)
  BY <1>2, RenderingsMap DEF Maps, Value
<1> QED BY <1>3, <1>4, <1>5, <1>6, ZenonT(30)

\* Printing all of it is what the next piece expects.
LEMMA PrintsPiece ==
  ASSUME call \in Calls, console \in Consoles, NEW n \in Nat, n < Len(call)
  PROVE  /\ Joined(Shown(Done(n)), Shown(Image(n))) = Shown(Done(n + 1))
         /\ Shown(Joined(Done(n), Image(n))) = Shown(Done(n + 1))
<1>1. call \in Seq(Good)
  BY CallGood, ZenonT(30)
<1>2. Image(n) \in Seq(Alphabet) /\ Done(n) \in Seq(Alphabet)
  BY ImageType, ZenonT(30)
<1>3. Done(n + 1) = Joined(Done(n), Image(n))
  BY <1>1, NextPiece, ZenonT(30) DEF Image
<1>4. Shown(Joined(Done(n), Image(n))) = Joined(Shown(Done(n)), Shown(Image(n)))
  BY <1>2, ShownJoined
<1> QED BY <1>3, <1>4, ZenonT(30)

\* Printing the first characters of it, or one more.
LEMMA PrintsMore ==
  ASSUME call \in Calls, console \in Consoles, NEW n \in Nat, n < Len(call),
         NEW k \in Nat, k < Len(Image(n))
  PROVE  /\ Image(n)[k + 1] \in Alphabet
         /\ Joined(Shown(Joined(Done(n), First(Image(n), k))), Shown(<<Image(n)[k + 1]>>))
              = Shown(Joined(Done(n), First(Image(n), k + 1)))
<1> DEFINE r == Image(n)
           s == Done(n)
           a == First(r, k)
           c == r[k + 1]
           w == <<c>>
<1>1. r \in Seq(Alphabet) /\ s \in Seq(Alphabet)
  BY ImageType, ZenonT(30)
<1> HIDE DEF r, s
<1>2. a \in Seq(Alphabet) /\ c \in Alphabet /\ w \in Seq(Alphabet)
  BY <1>1 DEF First, r
<1>3. First(r, k + 1) = Joined(a, w)
  BY <1>1 DEF First, r, Joined
<1> HIDE DEF a, c, w
<1>4. Joined(s, a) \in Seq(Alphabet)
  BY <1>1, <1>2 DEF Joined
<1>5. Shown(Joined(Joined(s, a), w)) = Joined(Shown(Joined(s, a)), Shown(w))
  BY <1>2, <1>4, ShownJoined
<1>6. Joined(Joined(s, a), w) = Joined(s, Joined(a, w))
  BY <1>1, <1>2, JoinedTwice
<1> QED BY <1>2, <1>3, <1>5, <1>6, ZenonT(30) DEF r, s, a, c, w

\* The scan goes on behind the piece.
LEMMA GoesOn ==
  ASSUME call \in Calls, NEW n \in Nat, n < Len(call), UNCHANGED <<console, call>>,
         fmt' = Left(n + 1), args' = Owed(n + 1), out' = Shown(Done(n + 1))
  PROVE  n + 1 \in 0 .. Len(call') /\ Before(n + 1)'
<1>1. call' = call /\ console' = console
  OBVIOUS
<1>2. n + 1 \in 0 .. Len(call)
  <2>1. Len(call) \in Nat
    BY CallGood
  <2> QED BY <2>1
<1>3. Left(n + 1)' = Left(n + 1) /\ Owed(n + 1)' = Owed(n + 1) /\ Done(n + 1)' = Done(n + 1)
  BY <1>1, PiecesStay, ZenonT(30)
<1>4. Shown(Done(n + 1))' = Shown(Done(n + 1))
  BY <1>1, <1>3, ZenonT(30) DEF Shown, putchar
<1>5. Before(n + 1)'
  BY <1>1, <1>2, <1>3, <1>4, ZenonT(30) DEF Before
<1> QED BY <1>1, <1>2, <1>5, ZenonT(30)

-----------------------------------------------------------------------------
(***************************************************************************)
(* Pieces that take one turn of the loop.                                  *)
(***************************************************************************)
\* The types that the invariant gives.
LEMMA CallTypes ==
  ASSUME FormatInv
  PROVE  console \in Consoles /\ call \in Calls /\ call \in Seq(Good) /\ Len(call) \in Nat
<1>1. console \in Consoles /\ call \in Calls
  BY ZenonT(30) DEF FormatInv
<1>2. call \in Seq(Good)
  BY <1>1, CallGood, ZenonT(30)
<1>3. Len(call) \in Nat
  BY <1>2
<1> QED BY <1>1, <1>2, <1>3, ZenonT(30)

\* The piece was printed in one turn of the loop.
LEMMA PieceWritten ==
  ASSUME FormatInv, NEW n \in Nat, n < Len(call), out = Shown(Done(n)), UNCHANGED <<console, call>>,
         Prints(Image(n)), fmt' = Left(n + 1), args' = Owed(n + 1), pc' = "scan"
  PROVE  FormatInv'
<1>1. console \in Consoles /\ call \in Calls /\ console' = console /\ call' = call
  BY CallTypes, ZenonT(30)
<1>2. out' = Shown(Done(n + 1))
  BY <1>1, PrintsPiece, ZenonT(30) DEF Prints, Joined
<1>3. n + 1 \in 0 .. Len(call') /\ Before(n + 1)'
  BY <1>1, <1>2, GoesOn
<1> QED BY <1>1, <1>3, ZenonT(30) DEF FormatInv

\* The scan stands before some piece.
LEMMA ScanAt ==
  ASSUME FormatInv, pc = "scan"
  PROVE  \E n \in Nat : Before(n) /\ n <= Len(call) /\ (n # Len(call) => n < Len(call))
<1>1. Len(call) \in Nat
  BY CallTypes, ZenonT(30)
<1>2. PICK n \in 0 .. Len(call) : Before(n)
  BY ZenonT(30) DEF FormatInv
<1>3. n \in Nat /\ n <= Len(call) /\ (n # Len(call) => n < Len(call))
  BY <1>1
<1> QED BY <1>2, <1>3, ZenonT(30)

\* An ordinary character is a piece that is printed as it is.
LEMMA OrdinaryKeeps ==
  ASSUME FormatInv, ordinary
  PROVE  FormatInv'
<1>1. PICK n \in Nat : Before(n) /\ n <= Len(call) /\ (n # Len(call) => n < Len(call))
  BY ScanAt, ZenonT(30) DEF ordinary
<1>2. fmt = Left(n) /\ args = Owed(n) /\ out = Shown(Done(n))
  BY <1>1, ZenonT(30) DEF Before
<1>3. console \in Consoles /\ call \in Calls /\ call \in Seq(Good) /\ Len(call) \in Nat
  BY CallTypes, ZenonT(30)
<1>4. fmt # <<>> /\ fmt[1] # "%"
  BY ZenonT(30) DEF ordinary
<1>5. n < Len(call)
  BY <1>1, <1>2, <1>3, <1>4, PieceEnds, ZenonT(30)
<1>6. call[n + 1].directive = "none"
  <2>1. call[n + 1].directive = "end" => fmt = <<"%">>
    BY <1>2, <1>3, <1>5, AtPiece, ZenonT(30)
  <2>2. fmt # <<"%">>
    BY <1>4
  <2> QED BY <1>2, <1>3, <1>4, <1>5, <2>1, <2>2, AtPiece, ZenonT(30)
<1>7. fmt[1] = call[n + 1].char /\ SubSeq(fmt, 2, Len(fmt)) = Left(n + 1)
  BY <1>2, <1>3, <1>5, <1>6, AtPiece, ZenonT(30)
<1>8. Image(n) = <<fmt[1]>>
  BY <1>6, <1>7, RenderingIs, ZenonT(30) DEF Image
<1>9. Owed(n) = Owed(n + 1)
  <2>1. Owed(n) = Joined(Argument(call[n + 1]), Owed(n + 1))
    BY <1>3, <1>5, NextPiece, ZenonT(30)
  <2>2. Argument(call[n + 1]) = <<>>
    BY <1>6, ZenonT(30) DEF Argument, Takes
  <2>3. n + 1 \in Nat /\ n + 1 <= Len(call)
    BY <1>3, <1>5
  <2>4. Owed(n + 1) \in Seq(Words)
    BY <1>3, <2>3, PieceTypes, ZenonT(30)
  <2>5. Joined(<<>>, Owed(n + 1)) = Owed(n + 1)
    BY <2>4 DEF Joined
  <2> QED BY <2>1, <2>2, <2>5, ZenonT(30)
<1>10. 1 + 1 = 2
  OBVIOUS
<1>11. Prints(Image(n)) /\ fmt' = Left(n + 1) /\ args' = Owed(n + 1) /\ pc' = "scan"
       /\ UNCHANGED <<console, call>>
  BY <1>2, <1>7, <1>8, <1>9, <1>10, ZenonT(30) DEF ordinary, Writes
<1> QED BY <1>2, <1>5, <1>11, PieceWritten, ZenonT(30)

\* A directive that is printed in one turn.
LEMMA DirectiveWritten ==
  ASSUME FormatInv, NEW d, IsDirective(d), NEW n, Before(n), Writes(2, Image(n)), args' = Owed(n + 1)
  PROVE  FormatInv'
<1>1. console \in Consoles /\ call \in Calls
  BY CallTypes, ZenonT(30)
<1>2. n \in Nat /\ n < Len(call) /\ SubSeq(fmt, 3, Len(fmt)) = Left(n + 1)
  BY <1>1, DirectiveIs, ZenonT(30)
<1>3. out = Shown(Done(n)) /\ pc = "scan"
  BY ZenonT(30) DEF Before, IsDirective
<1>4. 2 + 1 = 3
  OBVIOUS
<1>5. Prints(Image(n)) /\ fmt' = Left(n + 1) /\ pc' = "scan" /\ UNCHANGED <<console, call>>
  BY <1>2, <1>3, <1>4, ZenonT(30) DEF Writes
<1> QED BY <1>2, <1>3, <1>5, PieceWritten, ZenonT(30)

\* %%, %c and an unknown directive.
LEMMA WrittenKeeps ==
  ASSUME FormatInv, percent \/ other \/ char
  PROVE  FormatInv'
<1>1. PICK d \in {"%", "q", "c"} : /\ d = "%" => percent
                                   /\ d = "q" => other
                                   /\ d = "c" => char
  BY ZenonT(30)
<1>2. IsDirective(d)
  BY <1>1, ZenonT(30) DEF percent, other, char
<1>3. PICK n \in Nat : Before(n)
  BY <1>2, ScanAt, ZenonT(30) DEF IsDirective
<1>4. console \in Consoles /\ call \in Calls
  BY CallTypes, ZenonT(30)
<1>5. /\ call[n + 1].directive = d
      /\ Takes(d) => Head(args) = call[n + 1].word /\ Tail(args) = Owed(n + 1)
      /\ ~Takes(d) => args = Owed(n + 1)
  BY <1>2, <1>3, <1>4, DirectiveIs, ZenonT(30)
<1>6. CASE d = "%"
  <2>1. Image(n) = <<"%">> /\ ~Takes(d)
    BY <1>5, <1>6, RenderingIs, ZenonT(30) DEF Image, Takes
  <2> QED BY <1>1, <1>2, <1>3, <1>5, <1>6, <2>1, DirectiveWritten, ZenonT(30) DEF percent
<1>7. CASE d = "q"
  <2>1. Image(n) = <<"%", "q">> /\ ~Takes(d)
    BY <1>5, <1>7, RenderingIs, ZenonT(30) DEF Image, Takes
  <2> QED BY <1>1, <1>2, <1>3, <1>5, <1>7, <2>1, DirectiveWritten, ZenonT(30) DEF other
<1>8. CASE d = "c"
  <2>1. Image(n) = <<Chars[call[n + 1].word]>> /\ Takes(d)
    BY <1>5, <1>8, RenderingIs, ZenonT(30) DEF Image, Takes
  <2> QED BY <1>1, <1>2, <1>3, <1>5, <1>8, <2>1, DirectiveWritten, ZenonT(30) DEF char
<1> QED BY <1>6, <1>7, <1>8, ZenonT(30)

\* What is expected stays as it is during the call.
LEMMA ExpectedStays ==
  ASSUME console' = console, call' = call
  PROVE  Shown(Expected)' = Shown(Expected)
<1>1. \A p : Rendering(p)' = Rendering(p)
  BY PiecesStay, ZenonT(30)
<1>2. Expected' = Expected
  BY <1>1, ZenonT(30) DEF Expected
<1> QED BY <1>2, ZenonT(30) DEF Shown, putchar

\* At the end of the format, or before a lone %, every piece is printed.
LEMMA FinishKeeps ==
  ASSUME FormatInv, finish
  PROVE  FormatInv'
<1>1. PICK n \in Nat : Before(n) /\ n <= Len(call) /\ (n # Len(call) => n < Len(call))
  BY ScanAt, ZenonT(30) DEF finish
<1>2. fmt = Left(n) /\ args = Owed(n) /\ out = Shown(Done(n))
  BY <1>1, ZenonT(30) DEF Before
<1>3. console \in Consoles /\ call \in Calls /\ call \in Seq(Good) /\ Len(call) \in Nat
  BY CallTypes, ZenonT(30)
<1>4. fmt \in {<<>>, <<"%">>}
  BY ZenonT(30) DEF finish
<1>5. Owed(Len(call)) = <<>> /\ Done(Len(call)) = Expected
  BY <1>3, PieceEnds, ZenonT(30)
<1>6. args = <<>> /\ out = Shown(Expected)
  <2>1. CASE n = Len(call)
    BY <1>2, <1>5, <2>1, ZenonT(30)
  <2>2. CASE n # Len(call)
    <3>1. n < Len(call)
      BY <1>1, <2>2, ZenonT(30)
    <3>2. ~(Len(fmt) > 1) /\ (fmt # <<>> => fmt[1] = "%")
      BY <1>4
    <3>3. call[n + 1].directive = "end" /\ n + 1 = Len(call)
      BY <1>2, <1>3, <3>1, <3>2, AtPiece, ZenonT(30)
    <3>4. Argument(call[n + 1]) = <<>> /\ Rendering(call[n + 1]) = <<>>
      BY <3>3, RenderingIs, ZenonT(30) DEF Argument, Takes
    <3>5. /\ Owed(n) = Joined(<<>>, Owed(n + 1))
          /\ Done(n + 1) = Joined(Done(n), <<>>)
      BY <1>3, <3>1, <3>4, NextPiece, ZenonT(30)
    <3>6. Done(n) \in Seq(Alphabet)
      BY <1>1, <1>3, PieceTypes, ZenonT(30)
    <3>7. Joined(<<>>, <<>>) = <<>> /\ Joined(Done(n), <<>>) = Done(n)
      BY <3>6 DEF Joined
    <3> QED BY <1>2, <1>5, <3>3, <3>5, <3>7, ZenonT(30)
  <2> QED BY <2>1, <2>2, ZenonT(30)
<1>7. console' = console /\ call' = call /\ args' = args /\ out' = out /\ pc' = "returned"
  BY ZenonT(30) DEF finish
<1>8. Shown(Expected)' = Shown(Expected)
  BY <1>7, ExpectedStays, ZenonT(30)
<1> QED BY <1>3, <1>6, <1>7, <1>8, ZenonT(30) DEF FormatInv

-----------------------------------------------------------------------------
(***************************************************************************)
(* Directives that take several turns.                                     *)
(***************************************************************************)
\* A directive is under way.
LEMMA WithinNext ==
  ASSUME FormatInv, NEW n \in Nat, n < Len(call), call[n + 1].directive \in Directives,
         NEW k \in Nat, k <= Len(Image(n)), UNCHANGED <<console, call>>,
         fmt' = Left(n), args' = Owed(n + 1), out' = Shown(Joined(Done(n), First(Image(n), k)))
  PROVE  /\ n \in 0 .. Len(call') - 1 /\ k \in 0 .. Len(Image(n)') /\ Within(n, k)'
         /\ Image(n)' = Image(n)
<1>1. console \in Consoles /\ call \in Calls /\ Len(call) \in Nat /\ console' = console /\ call' = call
  BY CallTypes, ZenonT(30)
<1>2. Image(n) \in Seq(Alphabet)
  BY <1>1, ImageType, ZenonT(30)
<1>3. n \in 0 .. Len(call) - 1 /\ k \in 0 .. Len(Image(n))
  BY <1>1, <1>2
<1>4. Left(n)' = Left(n) /\ Owed(n + 1)' = Owed(n + 1) /\ Done(n)' = Done(n)
  BY <1>1, PiecesStay, ZenonT(30)
<1>5. Image(n)' = Image(n)
  BY <1>1, PiecesStay, ZenonT(30) DEF Image
<1>6. \A t : Shown(t)' = Shown(t)
  BY <1>1, PiecesStay, ZenonT(30)
<1>7. Shown(Joined(Done(n), First(Image(n), k)))' = Shown(Joined(Done(n), First(Image(n), k)))
  BY <1>1, <1>4, <1>5, ZenonT(30) DEF Shown, putchar, Joined, First
<1>8. Within(n, k)'
  BY <1>1, <1>3, <1>4, <1>5, <1>7, ZenonT(30) DEF Within
<1> QED BY <1>1, <1>3, <1>5, <1>8, ZenonT(30)

\* The types of a directive under way.
LEMMA WithinTypes ==
  ASSUME FormatInv, NEW n, NEW k, Within(n, k)
  PROVE  /\ console \in Consoles /\ call \in Calls /\ n \in Nat /\ n < Len(call)
         /\ k \in Nat /\ k <= Len(Image(n)) /\ Len(Image(n)) \in Nat /\ Image(n) \in Seq(Alphabet)
         /\ call[n + 1].directive \in Directives
         /\ fmt = Left(n) /\ args = Owed(n + 1)
         /\ out = Shown(Joined(Done(n), First(Image(n), k)))
         /\ SubSeq(fmt, 3, Len(fmt)) = Left(n + 1)
<1>1. console \in Consoles /\ call \in Calls /\ Len(call) \in Nat
  BY CallTypes, ZenonT(30)
<1>2. n \in 0 .. Len(call) - 1 /\ k \in 0 .. Len(Image(n)) /\ call[n + 1].directive \in Directives
      /\ fmt = Left(n) /\ args = Owed(n + 1)
      /\ out = Shown(Joined(Done(n), First(Image(n), k)))
  BY ZenonT(30) DEF Within
<1>3. n \in Nat /\ n < Len(call)
  BY <1>1, <1>2
<1>4. Image(n) \in Seq(Alphabet)
  BY <1>1, <1>3, ImageType, ZenonT(30)
<1>5. k \in Nat /\ k <= Len(Image(n)) /\ Len(Image(n)) \in Nat
  BY <1>2, <1>4
<1>6. SubSeq(fmt, 3, Len(fmt)) = Left(n + 1)
  BY <1>1, <1>2, <1>3, AtPiece, ZenonT(30)
<1> QED BY <1>1, <1>2, <1>3, <1>4, <1>5, <1>6, ZenonT(30)

\* The last character of the piece is printed and the scan goes on.
LEMMA PieceOver ==
  ASSUME FormatInv, NEW n \in Nat, n < Len(call), UNCHANGED <<console, call>>,
         Image(n) \in Seq(Alphabet),
         out' = Shown(Joined(Done(n), First(Image(n), Len(Image(n))))),
         fmt' = Left(n + 1), args' = Owed(n + 1), pc' = "scan"
  PROVE  FormatInv'
<1>1. console \in Consoles /\ call \in Calls /\ console' = console /\ call' = call
  BY CallTypes, ZenonT(30)
<1>2. First(Image(n), Len(Image(n))) = Image(n)
  BY FirstEnds
<1>3. out' = Shown(Done(n + 1))
  BY <1>1, <1>2, PrintsPiece, ZenonT(30)
<1>4. n + 1 \in 0 .. Len(call') /\ Before(n + 1)'
  BY <1>1, <1>3, GoesOn
<1> QED BY <1>1, <1>4, ZenonT(30) DEF FormatInv

-----------------------------------------------------------------------------
(***************************************************************************)
(* Strings.                                                                *)
(***************************************************************************)
\* The end of what is left, its head and its tail.
LEMMA RestEnds ==
  ASSUME NEW X, NEW s \in Seq(X), NEW k \in Nat, k <= Len(s)
  PROVE  /\ Rest(s, k) = <<>> <=> k = Len(s)
         /\ Rest(s, k) # <<>> => /\ k < Len(s) /\ Head(Rest(s, k)) = s[k + 1]
                                 /\ Tail(Rest(s, k)) = Rest(s, k + 1)
<1>1. Rest(s, k) \in Seq(X) /\ Len(Rest(s, k)) = Len(s) - k
  BY RestType, ZenonT(30)
<1>2. Rest(s, k) = <<>> <=> k = Len(s)
  BY <1>1
<1>3. ASSUME k < Len(s)
      PROVE  Head(Rest(s, k)) = s[k + 1] /\ Tail(Rest(s, k)) = Rest(s, k + 1)
  <2>1. Rest(s, k) = Joined(<<s[k + 1]>>, Rest(s, k + 1))
    BY <1>3, RestStep, ZenonT(30) DEF Joined
  <2>2. s[k + 1] \in X /\ k + 1 \in Nat /\ k + 1 <= Len(s)
    BY <1>3
  <2>3. Rest(s, k + 1) \in Seq(X)
    BY <2>2, RestType, ZenonT(30)
  <2> QED BY <2>1, <2>2, <2>3, TakeOne
<1>4. k # Len(s) => k < Len(s)
  OBVIOUS
<1> QED BY <1>2, <1>3, <1>4, ZenonT(30)

\* A string, or (null), is what the directive is printed as.
LEMMA StringKeeps ==
  ASSUME FormatInv, string
  PROVE  FormatInv'
<1>1. IsDirective("s") /\ Takes("s")
  BY ZenonT(30) DEF string, Takes
<1>2. PICK n \in Nat : Before(n)
  BY <1>1, ScanAt, ZenonT(30) DEF IsDirective
<1>3. console \in Consoles /\ call \in Calls
  BY CallTypes, ZenonT(30)
<1>4. /\ n < Len(call) /\ call[n + 1].directive = "s" /\ "s" \in Directives
      /\ Head(args) = call[n + 1].word /\ Tail(args) = Owed(n + 1)
  BY <1>1, <1>2, <1>3, DirectiveIs, ZenonT(30)
<1>5. Image(n) \in Seq(Alphabet) /\ Done(n) \in Seq(Alphabet)
  BY <1>3, <1>4, ImageType, ZenonT(30)
<1>6. str' = Image(n)
  BY <1>4, RenderingIs, ZenonT(30) DEF string, Image
<1>7. First(Image(n), 0) = <<>> /\ Rest(Image(n), 0) = Image(n) /\ Joined(Done(n), <<>>) = Done(n)
      /\ 0 \in Nat /\ 0 <= Len(Image(n))
  <2>1. First(Image(n), 0) = <<>> /\ Rest(Image(n), 0) = Image(n)
    BY <1>5, FirstEnds
  <2>2. Joined(Done(n), <<>>) = Done(n)
    BY <1>5 DEF Joined
  <2>3. 0 <= Len(Image(n)) /\ 0 \in Nat
    BY <1>5
  <2> QED BY <2>1, <2>2, <2>3, ZenonT(30)
<1>8. /\ UNCHANGED <<console, call>> /\ pc' = "string" /\ fmt' = Left(n) /\ args' = Owed(n + 1)
      /\ out' = Shown(Joined(Done(n), First(Image(n), 0)))
  BY <1>2, <1>4, <1>7, ZenonT(30) DEF string, Before
<1>9. n \in 0 .. Len(call') - 1 /\ 0 \in 0 .. Len(Image(n)') /\ Within(n, 0)' /\ Image(n)' = Image(n)
  BY <1>4, <1>7, <1>8, WithinNext, ZenonT(30)
<1>10. InString(n, 0)'
  BY <1>6, <1>7, <1>9, ZenonT(30) DEF InString, Rest
<1>11. console' \in Consoles /\ call' \in Calls
  BY <1>3, <1>8, ZenonT(30)
<1> QED BY <1>8, <1>9, <1>10, <1>11, ZenonT(30) DEF FormatInv

\* One more character of it.
LEMMA StringNextKeeps ==
  ASSUME FormatInv, string_next
  PROVE  FormatInv'
<1>1. PICK n \in 0 .. Len(call) - 1 : \E k \in 0 .. Len(Image(n)) : InString(n, k)
  BY ZenonT(30) DEF FormatInv, string_next
<1>2. PICK k \in 0 .. Len(Image(n)) : InString(n, k)
  BY <1>1, ZenonT(30)
<1>3. Within(n, k) /\ str = Rest(Image(n), k) /\ str # <<>>
  BY <1>2, ZenonT(30) DEF InString, string_next
<1>4. /\ console \in Consoles /\ call \in Calls /\ n \in Nat /\ n < Len(call)
      /\ k \in Nat /\ k <= Len(Image(n)) /\ Len(Image(n)) \in Nat /\ Image(n) \in Seq(Alphabet)
      /\ call[n + 1].directive \in Directives
      /\ fmt = Left(n) /\ args = Owed(n + 1)
      /\ out = Shown(Joined(Done(n), First(Image(n), k)))
  BY <1>3, WithinTypes, ZenonT(30)
<1>5. k < Len(Image(n)) /\ Head(str) = Image(n)[k + 1] /\ Tail(str) = Rest(Image(n), k + 1)
  BY <1>3, <1>4, RestEnds, ZenonT(30)
<1>6. k + 1 \in Nat /\ k + 1 <= Len(Image(n))
  BY <1>4, <1>5
<1>7. out' = Shown(Joined(Done(n), First(Image(n), k + 1)))
  <2>1. out' = Joined(out, Shown(<<Image(n)[k + 1]>>))
    BY <1>5, ZenonT(30) DEF string_next, Prints, Joined
  <2> QED BY <1>4, <1>5, <2>1, PrintsMore, ZenonT(30)
<1>8. /\ UNCHANGED <<console, call>> /\ pc' = "string" /\ fmt' = Left(n) /\ args' = Owed(n + 1)
      /\ str' = Rest(Image(n), k + 1)
  BY <1>4, <1>5, ZenonT(30) DEF string_next
<1>9. n \in 0 .. Len(call') - 1 /\ k + 1 \in 0 .. Len(Image(n)') /\ Within(n, k + 1)' /\ Image(n)' = Image(n)
  BY <1>4, <1>6, <1>7, <1>8, WithinNext, ZenonT(30)
<1>10. InString(n, k + 1)'
  BY <1>8, <1>9, ZenonT(30) DEF InString, Rest
<1>11. console' \in Consoles /\ call' \in Calls
  BY <1>4, <1>8, ZenonT(30)
<1> QED BY <1>8, <1>9, <1>10, <1>11, ZenonT(30) DEF FormatInv

\* All of it is printed.
LEMMA StringEndsKeeps ==
  ASSUME FormatInv, string_ends
  PROVE  FormatInv'
<1>1. PICK n \in 0 .. Len(call) - 1 : \E k \in 0 .. Len(Image(n)) : InString(n, k)
  BY ZenonT(30) DEF FormatInv, string_ends
<1>2. PICK k \in 0 .. Len(Image(n)) : InString(n, k)
  BY <1>1, ZenonT(30)
<1>3. Within(n, k) /\ Rest(Image(n), k) = <<>>
  BY <1>2, ZenonT(30) DEF InString, string_ends
<1>4. /\ n \in Nat /\ n < Len(call)
      /\ k \in Nat /\ k <= Len(Image(n)) /\ Image(n) \in Seq(Alphabet)
      /\ args = Owed(n + 1) /\ out = Shown(Joined(Done(n), First(Image(n), k)))
      /\ SubSeq(fmt, 3, Len(fmt)) = Left(n + 1)
  BY <1>3, WithinTypes, ZenonT(30)
<1>5. k = Len(Image(n))
  BY <1>3, <1>4, RestEnds, ZenonT(30)
<1>6. /\ UNCHANGED <<console, call>> /\ pc' = "scan" /\ fmt' = Left(n + 1) /\ args' = Owed(n + 1)
      /\ out' = Shown(Joined(Done(n), First(Image(n), Len(Image(n)))))
  BY <1>4, <1>5, ZenonT(30) DEF string_ends, Advance
<1> QED BY <1>4, <1>6, PieceOver, ZenonT(30)

-----------------------------------------------------------------------------
(***************************************************************************)
(* Numbers.                                                                *)
(***************************************************************************)
\* The two parts of a text.
LEMMA PrefixOf ==
  ASSUME NEW X, NEW s \in Seq(X), NEW t \in Seq(X)
  PROVE  /\ Len(s) \in Nat /\ Len(s) <= Len(Joined(s, t))
         /\ First(Joined(s, t), Len(s)) = s /\ Rest(Joined(s, t), Len(s)) = t
<1> DEFINE u == Joined(s, t)
           r == Rest(u, Len(s))
           f == First(u, Len(s))
<1>1. /\ u \in Seq(X) /\ Len(u) = Len(s) + Len(t) /\ Len(s) \in Nat /\ Len(t) \in Nat
      /\ \A i \in 1 .. Len(s) : u[i] = s[i]
      /\ \A i \in 1 .. Len(t) : u[Len(s) + i] = t[i]
  BY DEF Joined
<1> HIDE DEF u
<1>2. r \in Seq(X) /\ Len(r) = Len(t) /\ \A i \in 1 .. Len(t) : r[i] = t[i]
  BY <1>1 DEF Rest
<1>3. f \in Seq(X) /\ Len(f) = Len(s) /\ \A i \in 1 .. Len(s) : f[i] = s[i]
  BY <1>1 DEF First
<1> HIDE DEF r, f
<1>4. r = t
  BY <1>2, SameSequence
<1>5. f = s
  BY <1>3, SameSequence
<1>6. Len(s) <= Len(u)
  BY <1>1
<1> QED BY <1>1, <1>4, <1>5, <1>6, ZenonT(30) DEF u, r, f

\* A number starts with its sign or prefix; its numeral is left.
LEMMA NumberStarts ==
  ASSUME FormatInv, NEW d, IsDirective(d), Takes(d), NEW n, Before(n),
         NEW v \in Words, NEW b \in Bases, NEW sign \in Seq(Alphabet),
         Image(n) = Joined(sign, Numeral(v, b)), print_unsigned(v, b, sign)
  PROVE  FormatInv'
<1>1. console \in Consoles /\ call \in Calls
  BY CallTypes, ZenonT(30)
<1>2. /\ n \in Nat /\ n < Len(call) /\ call[n + 1].directive \in Directives
      /\ Tail(args) = Owed(n + 1)
  BY <1>1, DirectiveIs, ZenonT(30)
<1>3. v \in Nat
  BY FormatAssumption DEF Words
<1>4. Numeral(v, b) \in Seq(Alphabet)
  BY <1>3, NumeralType, ZenonT(30)
<1> DEFINE k == Len(sign)
<1>5. k \in Nat /\ k <= Len(Image(n)) /\ First(Image(n), k) = sign /\ Rest(Image(n), k) = Numeral(v, b)
  BY <1>4, PrefixOf
<1>6. Image(n) \in Seq(Alphabet) /\ Done(n) \in Seq(Alphabet)
  BY <1>1, <1>2, ImageType, ZenonT(30)
<1>7. Joined(Shown(Done(n)), Shown(sign)) = Shown(Joined(Done(n), sign))
  BY <1>6, ShownJoined
<1>8. /\ UNCHANGED <<console, call>> /\ pc' = "number" /\ fmt' = Left(n) /\ args' = Owed(n + 1)
      /\ value' = v /\ base' = b /\ buffer' = <<>>
  BY <1>2, ZenonT(30) DEF print_unsigned, Before
<1>9. out' = Shown(Joined(Done(n), First(Image(n), k)))
  BY <1>5, <1>7, ZenonT(30) DEF print_unsigned, Before, Prints, Joined
<1> HIDE DEF k
<1>10. n \in 0 .. Len(call') - 1 /\ k \in 0 .. Len(Image(n)') /\ Within(n, k)' /\ Image(n)' = Image(n)
  BY <1>2, <1>5, <1>8, <1>9, WithinNext, ZenonT(30)
<1>11. buffer' \in Seq(Alphabet) /\ Len(buffer') = 0
  BY <1>8
<1>12. value' = v \div Power(base', Len(buffer'))
  <2>1. Power(b, 0) = 1
    <3>1. b \in Nat /\ 0 \in Nat
      BY DEF Bases
    <3> QED BY <3>1, PowerSteps, ZenonT(30)
  <2>2. v \div 1 = v
    BY <1>3
  <2> QED BY <1>8, <1>11, <2>1, <2>2, ZenonT(30)
<1>13. LowDigits(buffer', v, base')
  BY <1>11 DEF LowDigits
<1>14. Rest(Image(n), k)' = Numeral(v, base')
  BY <1>5, <1>8, <1>10, ZenonT(30) DEF Rest
<1>15. Collecting(n, k, v)'
  BY <1>8, <1>10, <1>11, <1>12, <1>13, <1>14, ZenonT(30) DEF Collecting, Collects
<1>16. console' \in Consoles /\ call' \in Calls
  BY <1>1, <1>8, ZenonT(30)
<1> QED BY <1>8, <1>10, <1>15, <1>16, ZenonT(30) DEF FormatInv

\* %d, %i, %u and %x.
LEMMA NumbersKeep ==
  ASSUME FormatInv, signed \/ unsigned \/ hexadecimal
  PROVE  FormatInv'
<1>0. 10 \in Bases /\ 16 \in Bases
  BY DEF Bases
<1>1. PICK d \in {"d", "i", "u", "x"} : /\ IsDirective(d)
                                        /\ d \in {"d", "i"} => signed
                                        /\ d = "u" => unsigned
                                        /\ d = "x" => hexadecimal
  BY ZenonT(30) DEF signed, unsigned, hexadecimal
<1>2. PICK n \in Nat : Before(n)
  BY <1>1, ScanAt, ZenonT(30) DEF IsDirective
<1>3. console \in Consoles /\ call \in Calls
  BY CallTypes, ZenonT(30)
<1>4. Takes(d)
  BY ZenonT(30) DEF Takes
<1> DEFINE w == call[n + 1].word
<1>5. call[n + 1] \in Good /\ call[n + 1].directive = d /\ Head(args) = w
  BY <1>1, <1>2, <1>3, <1>4, DirectiveIs, ZenonT(30)
<1>6. w \in Words
  BY <1>5 DEF Good, Pieces, Words
<1>7. <<>> \in Seq(Alphabet) /\ Sign(w) \in Seq(Alphabet) /\ Prefix \in Seq(Alphabet)
  <2>1. <<"-">> \in Seq(Alphabet) /\ <<"0", "x">> \in Seq(Alphabet) /\ <<>> \in Seq(Alphabet)
    BY OwnCharacters
  <2> QED BY <2>1, ZenonT(30) DEF Sign, Prefix
<1>8. CASE d \in {"d", "i"}
  <2>1. Image(n) = Joined(Sign(w), Numeral(Magnitude(w), 10))
    BY <1>3, <1>5, <1>6, <1>8, RenderingNumber, ZenonT(30) DEF Image
  <2>2. Magnitude(w) \in Words
    BY <1>6, MagnitudeIs, ZenonT(30)
  <2>3. print_unsigned(Magnitude(w), 10, Sign(w))
    BY <1>1, <1>5, <1>8, ZenonT(30) DEF signed, Sign
  <2> QED BY <1>0, <1>1, <1>2, <1>4, <1>7, <2>1, <2>2, <2>3, NumberStarts, ZenonT(30)
<1>9. CASE d = "u"
  <2>1. Image(n) = Joined(<<>>, Numeral(w, 10))
    BY <1>3, <1>5, <1>6, <1>9, RenderingNumber, ZenonT(30) DEF Image
  <2>2. print_unsigned(w, 10, <<>>)
    BY <1>1, <1>5, <1>9, ZenonT(30) DEF unsigned
  <2> QED BY <1>0, <1>1, <1>2, <1>4, <1>6, <1>7, <2>1, <2>2, NumberStarts, ZenonT(30)
<1>10. CASE d = "x"
  <2>1. Image(n) = Joined(Prefix, Numeral(w, 16))
    BY <1>3, <1>5, <1>6, <1>10, RenderingNumber, ZenonT(30) DEF Image
  <2>2. print_unsigned(w, 16, Prefix)
    BY <1>1, <1>5, <1>10, ZenonT(30) DEF hexadecimal, Prefix
  <2> QED BY <1>0, <1>1, <1>2, <1>4, <1>6, <1>7, <2>1, <2>2, NumberStarts, ZenonT(30)
<1> QED BY <1>8, <1>9, <1>10, ZenonT(30)

-----------------------------------------------------------------------------
\* One more digit in the buffer.
LEMMA CollectStep ==
  ASSUME NEW v \in Nat, NEW b \in Bases, NEW s, NEW x, Collects(x, s, v, b), x # 0
  PROVE  Collects(x \div b, Append(s, digits[(x % b) + 1]), v, b)
<1> DEFINE t == Append(s, digits[(x % b) + 1])
<1>a. s \in Seq(Alphabet) /\ x = v \div Power(b, Len(s)) /\ LowDigits(s, v, b)
  BY ZenonT(30) DEF Collects
<1> DEFINE m == Len(s)
           p == Power(b, m)
           c == Digit(v, b, m)
<1>0. b \in Nat /\ b >= 2 /\ b > 0 /\ m \in Nat
  BY <1>a DEF Bases
<1>1. p \in Nat /\ p > m /\ Power(b, m + 1) = b * p
  BY <1>0, PowerGrows, PowerSteps, ZenonT(30)
<1>2. p > 0
  BY <1>0, <1>1
<1>3. c \in Alphabet /\ c = digits[(x % b) + 1]
  <2>1. c \in Alphabet
    BY <1>0, DigitType, ZenonT(30)
  <2> QED BY <1>a, <2>1, ZenonT(30) DEF Digit
<1> HIDE DEF p, c
<1>4. t \in Seq(Alphabet) /\ Len(t) = m + 1 /\ t[m + 1] = c /\ \A i \in 1 .. m : t[i] = s[i]
  BY <1>a, <1>3
<1> HIDE DEF t
<1>5. v \div p = x
  BY <1>a, ZenonT(30) DEF p
<1>6. x \div b = v \div Power(b, m + 1)
  <2>1. (v \div p) \div b = v \div (b * p)
    BY <1>0, <1>1, <1>2, QuotientTwice, ZenonT(30)
  <2> QED BY <1>1, <1>5, <2>1, ZenonT(30)
<1>7. p <= v
  <2>1. ~(v < p)
    BY <1>1, <1>2, <1>5, SmallQuotient, ZenonT(30)
  <2> QED BY <1>1, <2>1
<1>8. ASSUME NEW i \in 1 .. m + 1 PROVE t[i] = Digit(v, b, i - 1)
  <2>1. CASE i = m + 1
    <3>1. i - 1 = m
      BY <1>0, <2>1
    <3> QED BY <1>4, <2>1, <3>1, ZenonT(30) DEF c
  <2>2. CASE i # m + 1
    <3>1. i \in 1 .. m
      BY <1>0, <2>2
    <3> QED BY <1>a, <1>4, <3>1, ZenonT(30) DEF LowDigits
  <2> QED BY <2>1, <2>2, ZenonT(30)
<1>9. Len(t) - 1 = m /\ Len(t) # 0
  BY <1>0, <1>4
<1>10. Power(b, Len(t) - 1) <= v
  BY <1>7, <1>9, ZenonT(30) DEF p
<1>11. LowDigits(t, v, b)
  BY <1>4, <1>8, ZenonT(30) DEF LowDigits
<1> QED BY <1>4, <1>6, <1>10, <1>11, ZenonT(30) DEF Collects, t

\* The buffer holds the numeral, backwards.
LEMMA Collected ==
  ASSUME NEW v \in Nat, NEW b \in Bases, NEW s, Collects(0, s, v, b), Len(s) # 0
  PROVE  /\ Len(Numeral(v, b)) = Len(s)
         /\ \A i \in 1 .. Len(s) : s[i] = Numeral(v, b)[Len(s) - i + 1]
<1> DEFINE m == Len(s)
           p == Power(b, m)
<1>a. /\ s \in Seq(Alphabet) /\ v \div Power(b, Len(s)) = 0 /\ LowDigits(s, v, b)
      /\ Power(b, Len(s) - 1) <= v
  BY ZenonT(30) DEF Collects
<1>0. b \in Nat /\ b >= 2 /\ m \in Nat /\ m >= 1
  BY <1>a DEF Bases
<1>1. p \in Nat /\ p > m
  BY <1>0, PowerGrows, ZenonT(30)
<1>2. p > 0
  BY <1>0, <1>1
<1>3. v < p
  BY <1>a, <1>1, <1>2, SmallQuotient, ZenonT(30)
<1>4. p > v
  BY <1>1, <1>3
<1>5. IsLength(m, v, b)
  BY <1>a, <1>4, ZenonT(30) DEF IsLength
<1>6. Numeral(v, b) = [i \in 1 .. m |-> Digit(v, b, m - i)]
  BY <1>0, <1>5, NumeralIs, ZenonT(30)
<1> HIDE DEF m
<1>7. Len(Numeral(v, b)) = m
  BY <1>0, <1>6
<1>8. ASSUME NEW i \in 1 .. m PROVE s[i] = Numeral(v, b)[m - i + 1]
  <2> DEFINE j == m - i + 1
  <2>1. j \in 1 .. m /\ m - j = i - 1
    BY <1>0
  <2> HIDE DEF j
  <2>2. Numeral(v, b)[j] = Digit(v, b, m - j)
    BY <1>6, <2>1, ZenonT(30)
  <2>3. s[i] = Digit(v, b, i - 1)
    BY <1>a, ZenonT(30) DEF m, LowDigits
  <2> QED BY <2>1, <2>2, <2>3, ZenonT(30) DEF j
<1> QED BY <1>7, <1>8, ZenonT(30) DEF m

\* Once all digits are collected they are printed.
LEMMA CollectedPrints ==
  ASSUME FormatInv, NEW n, NEW k, NEW v \in Words, Collecting(n, k, v), value = 0, Len(buffer) # 0
  PROVE  Printing(n, k)
<1>1. /\ Within(n, k) /\ base \in Bases /\ Rest(Image(n), k) = Numeral(v, base)
      /\ Collects(0, buffer, v, base) /\ buffer \in Seq(Alphabet)
  BY ZenonT(30) DEF Collecting, Collects
<1>2. v \in Nat
  BY FormatAssumption DEF Words
<1>3. /\ k \in Nat /\ k <= Len(Image(n)) /\ Len(Image(n)) \in Nat /\ Image(n) \in Seq(Alphabet)
  BY <1>1, WithinTypes, ZenonT(30)
<1>4. Len(Numeral(v, base)) = Len(buffer)
  BY <1>1, <1>2, Collected, ZenonT(30)
<1>5. \A i \in 1 .. Len(buffer) : buffer[i] = Numeral(v, base)[Len(buffer) - i + 1]
  BY <1>1, <1>2, Collected, ZenonT(30)
<1>6. Len(Rest(Image(n), k)) = Len(Image(n)) - k
  BY <1>3, RestType, ZenonT(30)
<1>7. \A i \in 1 .. Len(Image(n)) - k : Rest(Image(n), k)[i] = Image(n)[k + i]
  BY <1>3, RestType, ZenonT(30)
<1>8. Len(buffer) \in Nat /\ Len(Image(n)) - k = Len(buffer) /\ Len(Image(n)) = k + Len(buffer)
  <2>1. Len(buffer) \in Nat
    BY <1>1
  <2>2. Len(buffer) = Len(Image(n)) - k
    BY <1>1, <1>4, <1>6, ZenonT(30)
  <2> QED BY <1>3, <2>1, <2>2
<1>9. ASSUME NEW i \in 1 .. Len(buffer) PROVE buffer[i] = Image(n)[k + Len(buffer) - i + 1]
  <2> DEFINE j == Len(buffer) - i + 1
  <2>1. j \in 1 .. Len(buffer) /\ k + j = k + Len(buffer) - i + 1
    BY <1>3, <1>8
  <2>2. buffer[i] = Numeral(v, base)[j]
    BY <1>5, ZenonT(30)
  <2> HIDE DEF j
  <2>3. Rest(Image(n), k)[j] = Image(n)[k + j]
    BY <1>7, <1>8, <2>1, ZenonT(30)
  <2> QED BY <1>1, <2>1, <2>2, <2>3, ZenonT(30)
<1> QED BY <1>1, <1>8, <1>9, ZenonT(30) DEF Printing

\* The number under way is being collected or being printed.
LEMMA NumberAt ==
  ASSUME FormatInv, pc = "number"
  PROVE  \E n \in 0 .. Len(call) - 1 : \E k \in 0 .. Len(Image(n)) :
           Printing(n, k) \/ \E v \in Words : Collecting(n, k, v)
  BY ZenonT(30) DEF FormatInv

\* One more digit is collected.
LEMMA NumberDigitKeeps ==
  ASSUME FormatInv, number_digit
  PROVE  FormatInv'
<1>1. PICK n \in 0 .. Len(call) - 1 : \E k \in 0 .. Len(Image(n)) :
        Printing(n, k) \/ \E v \in Words : Collecting(n, k, v)
  BY NumberAt, ZenonT(30) DEF number_digit
<1>2. PICK k \in 0 .. Len(Image(n)) : Printing(n, k) \/ \E v \in Words : Collecting(n, k, v)
  BY <1>1, ZenonT(30)
<1>3. value # 0 /\ ~Printing(n, k)
  BY ZenonT(30) DEF number_digit, Printing
<1>4. PICK v \in Words : Collecting(n, k, v)
  BY <1>2, <1>3, ZenonT(30)
<1>5. /\ Within(n, k) /\ base \in Bases /\ Rest(Image(n), k) = Numeral(v, base)
      /\ Collects(value, buffer, v, base)
  BY <1>4, ZenonT(30) DEF Collecting
<1>6. v \in Nat
  BY FormatAssumption DEF Words
<1>7. /\ UNCHANGED <<console, call>> /\ pc' = "number" /\ fmt' = fmt /\ args' = args /\ out' = out
      /\ base' = base /\ value' = value \div base
      /\ buffer' = Append(buffer, digits[(value % base) + 1])
  BY ZenonT(30) DEF number_digit
<1>8. Collects(value', buffer', v, base')
  <2>1. Collects(value \div base, Append(buffer, digits[(value % base) + 1]), v, base)
    BY <1>3, <1>5, <1>6, CollectStep, ZenonT(30)
  <2> QED BY <1>7, <2>1, ZenonT(30)
<1>9. /\ console \in Consoles /\ call \in Calls /\ n \in Nat /\ n < Len(call)
      /\ k \in Nat /\ k <= Len(Image(n))
      /\ call[n + 1].directive \in Directives
      /\ fmt = Left(n) /\ args = Owed(n + 1)
      /\ out = Shown(Joined(Done(n), First(Image(n), k)))
  BY <1>5, WithinTypes, ZenonT(30)
<1>10. n \in 0 .. Len(call') - 1 /\ k \in 0 .. Len(Image(n)') /\ Within(n, k)' /\ Image(n)' = Image(n)
  BY <1>7, <1>9, WithinNext, ZenonT(30)
<1>11. Rest(Image(n), k)' = Numeral(v, base')
  BY <1>5, <1>7, <1>10, ZenonT(30) DEF Rest
<1>12. Collecting(n, k, v)'
  BY <1>5, <1>7, <1>8, <1>10, <1>11, ZenonT(30) DEF Collecting
<1>13. console' \in Consoles /\ call' \in Calls
  BY <1>7, <1>9, ZenonT(30)
<1> QED BY <1>7, <1>10, <1>12, <1>13, ZenonT(30) DEF FormatInv

\* 0 is printed without collecting it.
LEMMA NumberZeroKeeps ==
  ASSUME FormatInv, number_zero
  PROVE  FormatInv'
<1>1. PICK n \in 0 .. Len(call) - 1 : \E k \in 0 .. Len(Image(n)) :
        Printing(n, k) \/ \E v \in Words : Collecting(n, k, v)
  BY NumberAt, ZenonT(30) DEF number_zero
<1>2. PICK k \in 0 .. Len(Image(n)) : Printing(n, k) \/ \E v \in Words : Collecting(n, k, v)
  BY <1>1, ZenonT(30)
<1>3. value = 0 /\ buffer = <<>> /\ Len(buffer) = 0
  BY DEF number_zero
<1>4. PICK v \in Words : Collecting(n, k, v)
  BY <1>2, <1>3, ZenonT(30) DEF Printing
<1>5. /\ Within(n, k) /\ base \in Bases /\ Rest(Image(n), k) = Numeral(v, base)
      /\ 0 = v \div Power(base, 0)
  BY <1>3, <1>4, ZenonT(30) DEF Collecting, Collects
<1>6. v = 0
  <2>1. v \in Nat /\ base \in Nat /\ base >= 2 /\ 0 \in Nat
    BY <1>5, FormatAssumption DEF Words, Bases
  <2>2. Power(base, 0) = 1
    BY <2>1, PowerSteps, ZenonT(30)
  <2>3. v \div 1 = v
    BY <2>1
  <2> QED BY <1>5, <2>2, <2>3, ZenonT(30)
<1>7. Rest(Image(n), k) = <<"0">>
  <2>1. base \in Nat /\ base >= 2
    BY <1>5 DEF Bases
  <2> QED BY <1>5, <1>6, <2>1, NumeralZero, ZenonT(30)
<1>8. /\ console \in Consoles /\ call \in Calls /\ n \in Nat /\ n < Len(call)
      /\ k \in Nat /\ k <= Len(Image(n)) /\ Len(Image(n)) \in Nat /\ Image(n) \in Seq(Alphabet)
      /\ args = Owed(n + 1) /\ out = Shown(Joined(Done(n), First(Image(n), k)))
      /\ SubSeq(fmt, 3, Len(fmt)) = Left(n + 1)
  BY <1>5, WithinTypes, ZenonT(30)
<1>9. <<"0">> # <<>> /\ Head(<<"0">>) = "0" /\ Tail(<<"0">>) = <<>>
  OBVIOUS
<1>10. k < Len(Image(n)) /\ Image(n)[k + 1] = "0" /\ Rest(Image(n), k + 1) = <<>>
  BY <1>7, <1>8, <1>9, RestEnds, ZenonT(30)
<1>11. k + 1 \in Nat /\ k + 1 <= Len(Image(n))
  BY <1>8, <1>10
<1>12. k + 1 = Len(Image(n))
  BY <1>8, <1>10, <1>11, RestEnds, ZenonT(30)
<1>13. out' = Shown(Joined(Done(n), First(Image(n), k + 1)))
  <2>1. out' = Joined(out, Shown(<<Image(n)[k + 1]>>))
    BY <1>10, ZenonT(30) DEF number_zero, Prints, Joined
  <2> QED BY <1>8, <1>10, <2>1, PrintsMore, ZenonT(30)
<1>14. UNCHANGED <<console, call>> /\ pc' = "scan" /\ fmt' = Left(n + 1) /\ args' = Owed(n + 1)
  BY <1>8, ZenonT(30) DEF number_zero, Advance
<1> QED BY <1>8, <1>12, <1>13, <1>14, PieceOver, ZenonT(30)

\* A sequence without its last element.
LEMMA AllButLast ==
  ASSUME NEW X, NEW s \in Seq(X), NEW m \in Nat, m + 1 = Len(s)
  PROVE  /\ SubSeq(s, 1, m) \in Seq(X) /\ Len(SubSeq(s, 1, m)) = m
         /\ \A i \in 1 .. m : SubSeq(s, 1, m)[i] = s[i]
  OBVIOUS

\* The digits are printed from the last one collected to the first.
LEMMA NumberPrints ==
  ASSUME FormatInv, number_print, NEW n, NEW k, Printing(n, k)
  PROVE  FormatInv'
<1> DEFINE len == Len(buffer)
           rest == SubSeq(buffer, 1, len - 1)
<1>1. /\ Within(n, k) /\ value = 0 /\ buffer \in Seq(Alphabet) /\ len # 0
      /\ Len(Image(n)) = k + len
      /\ \A i \in 1 .. len : buffer[i] = Image(n)[k + len - i + 1]
  BY ZenonT(30) DEF Printing
<1>2. /\ console \in Consoles /\ call \in Calls /\ n \in Nat /\ n < Len(call)
      /\ k \in Nat /\ k <= Len(Image(n)) /\ Len(Image(n)) \in Nat /\ Image(n) \in Seq(Alphabet)
      /\ call[n + 1].directive \in Directives
      /\ fmt = Left(n) /\ args = Owed(n + 1) /\ out = Shown(Joined(Done(n), First(Image(n), k)))
      /\ SubSeq(fmt, 3, Len(fmt)) = Left(n + 1)
  BY <1>1, WithinTypes, ZenonT(30)
<1>3. /\ len \in 1 .. len /\ k + len - len + 1 = k + 1 /\ k < Len(Image(n))
      /\ k + 1 \in Nat /\ k + 1 <= Len(Image(n)) /\ len \in Nat
  BY <1>1, <1>2
<1>4. buffer[len] = Image(n)[k + 1]
  BY <1>1, <1>3, ZenonT(30)
<1>5. out' = Shown(Joined(Done(n), First(Image(n), k + 1)))
  <2>1. out' = Joined(out, Shown(<<Image(n)[k + 1]>>))
    BY <1>4, ZenonT(30) DEF number_print, Prints, Joined
  <2> QED BY <1>2, <1>3, <2>1, PrintsMore, ZenonT(30)
<1>6. /\ UNCHANGED <<console, call>> /\ args' = Owed(n + 1) /\ value' = 0 /\ buffer' = rest
  BY <1>1, <1>2, ZenonT(30) DEF number_print
<1>7. CASE len = 1
  <2>1. fmt' = Left(n + 1) /\ pc' = "scan"
    BY <1>2, <1>7, ZenonT(30) DEF number_print, Advance
  <2>2. k + 1 = Len(Image(n))
    BY <1>1, <1>7, ZenonT(30)
  <2> QED BY <1>2, <1>5, <1>6, <2>1, <2>2, PieceOver, ZenonT(30)
<1>8. CASE len # 1
  <2>1. fmt' = Left(n) /\ pc' = "number"
    BY <1>2, <1>8, ZenonT(30) DEF number_print
  <2>2. n \in 0 .. Len(call') - 1 /\ k + 1 \in 0 .. Len(Image(n)') /\ Within(n, k + 1)' /\ Image(n)' = Image(n)
    BY <1>2, <1>3, <1>5, <1>6, <2>1, WithinNext, ZenonT(30)
  <2>3. /\ rest \in Seq(Alphabet) /\ Len(rest) = len - 1 /\ len - 1 # 0
        /\ \A i \in 1 .. len - 1 : rest[i] = buffer[i]
    <3>1. len - 1 \in Nat /\ len - 1 + 1 = len /\ len - 1 # 0
      BY <1>1, <1>3, <1>8
    <3> QED BY <1>1, <3>1, AllButLast, ZenonT(30)
  <2>4. k + len = k + 1 + (len - 1)
    BY <1>2, <1>3
  <2> HIDE DEF rest
  <2>5. ASSUME NEW i \in 1 .. Len(rest) PROVE rest[i] = Image(n)[k + 1 + Len(rest) - i + 1]
    <3>1. i \in 1 .. len - 1 /\ i \in 1 .. len /\ k + len - i + 1 = k + 1 + Len(rest) - i + 1
      BY <1>2, <1>3, <2>3
    <3> QED BY <1>1, <2>3, <3>1, ZenonT(30)
  <2>6. Len(Image(n)) = k + 1 + Len(rest) /\ Len(rest) # 0
    BY <1>1, <2>3, <2>4, ZenonT(30)
  <2> HIDE DEF len
  <2>7. Printing(n, k + 1)'
    BY <1>6, <2>2, <2>3, <2>5, <2>6, ZenonT(30) DEF Printing
  <2>8. console' \in Consoles /\ call' \in Calls
    BY <1>2, <1>6, ZenonT(30)
  <2> QED BY <2>1, <2>2, <2>7, <2>8, ZenonT(30) DEF FormatInv
<1> QED BY <1>7, <1>8, ZenonT(30)

\* A digit is printed, the first one or a later one.
LEMMA NumberPrintKeeps ==
  ASSUME FormatInv, number_print
  PROVE  FormatInv'
<1>1. PICK n \in 0 .. Len(call) - 1 : \E k \in 0 .. Len(Image(n)) :
        Printing(n, k) \/ \E v \in Words : Collecting(n, k, v)
  BY NumberAt, ZenonT(30) DEF number_print
<1>2. PICK k \in 0 .. Len(Image(n)) : Printing(n, k) \/ \E v \in Words : Collecting(n, k, v)
  BY <1>1, ZenonT(30)
<1>3. CASE Printing(n, k)
  BY <1>3, NumberPrints, ZenonT(30)
<1>4. CASE \E v \in Words : Collecting(n, k, v)
  <2>1. PICK v \in Words : Collecting(n, k, v)
    BY <1>4, ZenonT(30)
  <2>2. buffer \in Seq(Alphabet) /\ value = 0 /\ buffer # <<>>
    BY <2>1, ZenonT(30) DEF Collecting, Collects, number_print
  <2>3. Len(buffer) # 0
    BY <2>2
  <2> QED BY <2>1, <2>2, <2>3, CollectedPrints, NumberPrints, ZenonT(30)
<1> QED BY <1>2, <1>3, <1>4, ZenonT(30)

\* Nothing changes.
LEMMA FormatStutters ==
  ASSUME FormatInv, UNCHANGED vars
  PROVE  FormatInv'
<1>1. /\ console' = console /\ call' = call /\ fmt' = fmt /\ args' = args /\ str' = str
      /\ value' = value /\ base' = base /\ buffer' = buffer /\ out' = out /\ pc' = pc
  BY ZenonT(30) DEF vars, number
<1>2. /\ \A n : Left(n)' = Left(n) /\ Owed(n)' = Owed(n) /\ Done(n)' = Done(n)
      /\ \A t : Shown(t)' = Shown(t)
      /\ \A p : Rendering(p)' = Rendering(p)
  BY <1>1, PiecesStay, ZenonT(30)
<1>3. \A n : Image(n)' = Image(n)
  BY <1>1, <1>2, ZenonT(30) DEF Image
<1>4. Shown(Expected)' = Shown(Expected)
  BY <1>1, ExpectedStays, ZenonT(30)
<1>5. ASSUME NEW n PROVE Before(n)' = Before(n)
  <2>1. Shown(Done(n))' = Shown(Done(n))
    BY <1>1, <1>2, ZenonT(30) DEF Shown, putchar
  <2> QED BY <1>1, <1>2, <2>1, ZenonT(30) DEF Before
<1>6. ASSUME NEW n, NEW k PROVE Within(n, k)' = Within(n, k)
  <2>1. Shown(Joined(Done(n), First(Image(n), k)))' = Shown(Joined(Done(n), First(Image(n), k)))
    BY <1>1, <1>2, <1>3, ZenonT(30) DEF Shown, putchar, Joined, First
  <2> QED BY <1>1, <1>2, <1>3, <2>1, ZenonT(30) DEF Within
<1>7. ASSUME NEW n, NEW k PROVE InString(n, k)' = InString(n, k) /\ Printing(n, k)' = Printing(n, k)
  BY <1>1, <1>3, <1>6, ZenonT(30) DEF InString, Printing, Rest
<1>8. ASSUME NEW n, NEW k, NEW v PROVE Collecting(n, k, v)' = Collecting(n, k, v)
  BY <1>1, <1>3, <1>6, ZenonT(30) DEF Collecting, Rest
<1> QED BY <1>1, <1>3, <1>4, <1>5, <1>7, <1>8, ZenonT(30) DEF FormatInv

\* The invariant holds at the start.
LEMMA FormatStarts ==
  ASSUME Init
  PROVE  FormatInv
<1>1. /\ console \in Consoles /\ call \in Calls /\ fmt = FormatOf(call) /\ args = ArgumentsOf(call)
      /\ out = <<>> /\ pc = "scan"
  BY ZenonT(30) DEF Init
<1>2. call \in Seq(Good)
  BY <1>1, CallGood, ZenonT(30)
<1>3. 0 \in 0 .. Len(call) /\ <<>> \in Seq(Alphabet)
  BY <1>2
<1>4. Before(0)
  BY <1>1, <1>2, <1>3, PieceEnds, ShownType, ZenonT(30) DEF Before
<1> QED BY <1>1, <1>3, <1>4, ZenonT(30) DEF FormatInv

\* Every step keeps it.
LEMMA FormatStep ==
  ASSUME FormatInv, [Next]_vars
  PROVE  FormatInv'
<1>1. CASE ordinary
  BY <1>1, OrdinaryKeeps, ZenonT(30)
<1>2. CASE percent \/ other \/ char
  BY <1>2, WrittenKeeps, ZenonT(30)
<1>3. CASE finish
  BY <1>3, FinishKeeps, ZenonT(30)
<1>4. CASE string
  BY <1>4, StringKeeps, ZenonT(30)
<1>5. CASE string_next
  BY <1>5, StringNextKeeps, ZenonT(30)
<1>6. CASE string_ends
  BY <1>6, StringEndsKeeps, ZenonT(30)
<1>7. CASE signed \/ unsigned \/ hexadecimal
  BY <1>7, NumbersKeep, ZenonT(30)
<1>8. CASE number_zero
  BY <1>8, NumberZeroKeeps, ZenonT(30)
<1>9. CASE number_digit
  BY <1>9, NumberDigitKeeps, ZenonT(30)
<1>10. CASE number_print
  BY <1>10, NumberPrintKeeps, ZenonT(30)
<1>11. CASE returned \/ UNCHANGED vars
  BY <1>11, FormatStutters, ZenonT(30) DEF returned
<1> QED BY <1>1, <1>2, <1>3, <1>4, <1>5, <1>6, <1>7, <1>8, <1>9, <1>10, <1>11, ZenonT(30) DEF Next

\* printf and fvga_write are always at some piece of their call, and have printed
\* the pieces before it.
THEOREM FormatInvariant == Spec => []FormatInv
  BY FormatStarts, FormatStep, PTL DEF Spec

\* printf and fvga_write print every piece of any call in its place, with the
\* argument that belongs to it, and use up the arguments.
THEOREM CallsRendered == Spec => []RendersCall
<1>1. FormatInv => RendersCall
  BY ZenonT(30) DEF FormatInv, RendersCall
<1> QED BY <1>1, FormatInvariant, PTL

-----------------------------------------------------------------------------
(***************************************************************************)
(* The count that fvga_write returns, and the size of the buffer.          *)
(***************************************************************************)
\* The screen driver shows a text as it is, so no longer than it is.
LEMMA ScreenShows ==
  ASSUME console = "fvga_write", NEW s \in Seq(Alphabet)
  PROVE  Len(Shown(s)) = Len(s)
<1> DEFINE P(k) == \A t \in Seq(Alphabet) : Len(t) = k => Len(Shown(t)) = k
           S == {k \in Nat : P(k)}
<1>1. P(0)
  <2>1. ASSUME NEW t \in Seq(Alphabet), Len(t) = 0 PROVE t = <<>>
    BY <2>1
  <2>2. Len(<<>>) = 0
    OBVIOUS
  <2> QED BY <2>1, <2>2, ShownType, ZenonT(30)
<1>2. ASSUME NEW k \in Nat, P(k) PROVE P(k + 1)
  <2> SUFFICES ASSUME NEW t \in Seq(Alphabet), Len(t) = k + 1 PROVE Len(Shown(t)) = k + 1
    BY ZenonT(30)
  <2> DEFINE h == First(t, k)
             c == t[k + 1]
             w == <<c>>
  <2>1. h \in Seq(Alphabet) /\ Len(h) = k /\ c \in Alphabet /\ w \in Seq(Alphabet) /\ t = Append(h, c)
    BY DEF First
  <2> HIDE DEF h, c
  <2>2. Len(Shown(h)) = k /\ Shown(h) \in Seq(Alphabet)
    BY <1>2, <2>1, ShownType, ZenonT(30)
  <2>3. Spelled(Puts, Append(h, c)) = Spelled(Puts, h) \o Value(Puts, c)
    BY <2>1, PutsMaps, SpelledAppend
  <2>4. Value(Puts, c) = <<c>>
    BY <2>1, ZenonT(30) DEF Value, Puts, putchar
  <2>5. Shown(t) = Shown(h) \o <<c>>
    BY <2>1, <2>3, <2>4, ShownSpelled, ZenonT(30)
  <2>6. Len(Shown(h) \o <<c>>) = k + 1
    BY <2>1, <2>2
  <2> QED BY <2>5, <2>6, ZenonT(30)
<1>3. Len(s) \in Nat
  OBVIOUS
<1> HIDE DEF P
<1>4. 0 \in S /\ \A k \in Nat : k \in S => k + 1 \in S
  BY <1>1, <1>2
<1>5. Len(s) \in S
  <2> HIDE DEF S
  <2> QED BY <1>3, <1>4, Induction, ZenonT(30)
<1> QED BY <1>5, ZenonT(30) DEF P

\* fvga_write has counted what it wrote.
CountInv == out \in Seq(Alphabet) /\ (console = "fvga_write" => cnt = Len(out))

\* Printing a text and adding its length keeps the count.
LEMMA PrintsCounted ==
  ASSUME CountInv, console' = console, NEW text \in Seq(Alphabet), Prints(text),
         console = "fvga_write" => cnt' = cnt + Len(text)
  PROVE  CountInv'
<1> DEFINE s == Shown(text)
<1>1. out \in Seq(Alphabet) /\ (console = "fvga_write" => cnt = Len(out)) /\ out' = out \o s
  BY ZenonT(30) DEF CountInv, Prints
<1>2. s \in Seq(Alphabet)
  BY ShownType, ZenonT(30)
<1>3. console = "fvga_write" => Len(s) = Len(text)
  BY ScreenShows, ZenonT(30)
<1> HIDE DEF s
<1>4. out' \in Seq(Alphabet) /\ Len(out') = Len(out) + Len(s)
  BY <1>1, <1>2
<1> QED BY <1>1, <1>3, <1>4, ZenonT(30) DEF CountInv

\* So does a turn of the loop of vvga_write.
LEMMA WritesCounted ==
  ASSUME CountInv, NEW text \in Seq(Alphabet), NEW taken, Writes(taken, text)
  PROVE  CountInv'
  BY PrintsCounted, ZenonT(30) DEF Writes

\* What a turn of the loop prints is made of characters.
LEMMA TurnPrintsText ==
  ASSUME FormatInv
  PROVE  /\ ordinary => <<fmt[1]>> \in Seq(Alphabet)
         /\ char => <<Chars[Head(args)]>> \in Seq(Alphabet)
         /\ string_next => <<Head(str)>> \in Seq(Alphabet)
         /\ number_print => <<buffer[Len(buffer)]>> \in Seq(Alphabet)
<1>1. console \in Consoles /\ call \in Calls /\ call \in Seq(Good)
  BY CallTypes, ZenonT(30)
<1>2. ASSUME ordinary PROVE <<fmt[1]>> \in Seq(Alphabet)
  <2>1. PICK n \in Nat : Before(n) /\ n <= Len(call)
    BY <1>2, ScanAt, ZenonT(30) DEF ordinary
  <2>2. fmt \in Seq(Alphabet) /\ fmt # <<>>
    BY <1>1, <1>2, <2>1, PieceTypes, ZenonT(30) DEF ordinary, Before
  <2> QED BY <2>2
<1>3. ASSUME char PROVE <<Chars[Head(args)]>> \in Seq(Alphabet)
  <2>1. IsDirective("c") /\ Takes("c")
    BY <1>3, ZenonT(30) DEF char, Takes
  <2>2. PICK n \in Nat : Before(n)
    BY <2>1, ScanAt, ZenonT(30) DEF IsDirective
  <2>3. call[n + 1] \in Good /\ call[n + 1].directive = "c" /\ Head(args) = call[n + 1].word
    BY <1>1, <2>1, <2>2, DirectiveIs, ZenonT(30)
  <2>4. Chars[Head(args)] \in Alphabet
    BY <2>3, ZenonT(30) DEF Good, Proper
  <2> QED BY <2>4
<1>4. ASSUME string_next PROVE <<Head(str)>> \in Seq(Alphabet)
  <2>1. PICK n \in 0 .. Len(call) - 1 : \E k \in 0 .. Len(Image(n)) : InString(n, k)
    BY <1>4, ZenonT(30) DEF FormatInv, string_next
  <2>2. PICK k \in 0 .. Len(Image(n)) : InString(n, k)
    BY <2>1, ZenonT(30)
  <2>3. Within(n, k) /\ str = Rest(Image(n), k) /\ str # <<>>
    BY <1>4, <2>2, ZenonT(30) DEF InString, string_next
  <2>4. Image(n) \in Seq(Alphabet) /\ k \in Nat /\ k <= Len(Image(n))
    BY <2>3, WithinTypes, ZenonT(30)
  <2>5. str \in Seq(Alphabet)
    BY <2>3, <2>4, RestType, ZenonT(30)
  <2> QED BY <2>3, <2>5
<1>5. ASSUME number_print PROVE <<buffer[Len(buffer)]>> \in Seq(Alphabet)
  <2>1. buffer \in Seq(Alphabet)
    BY <1>5, NumberAt, ZenonT(30) DEF number_print, Printing, Collecting, Collects
  <2>2. buffer # <<>>
    BY <1>5, ZenonT(30) DEF number_print
  <2> QED BY <2>1, <2>2
<1> QED BY <1>2, <1>3, <1>4, <1>5, ZenonT(30)

\* The characters that the functions print on their own account.
LEMMA OwnTexts ==
  /\ <<"%">> \in Seq(Alphabet) /\ <<"%", "q">> \in Seq(Alphabet) /\ <<"-">> \in Seq(Alphabet)
  /\ <<"0">> \in Seq(Alphabet) /\ <<"0", "x">> \in Seq(Alphabet) /\ <<>> \in Seq(Alphabet)
<1>1. "%" \in Alphabet /\ "q" \in Alphabet /\ "-" \in Alphabet /\ "0" \in Alphabet /\ "x" \in Alphabet
  BY OwnCharacters, ZenonT(30)
<1> QED BY <1>1

\* Every step keeps the count.
LEMMA CountStep ==
  ASSUME FormatInv, CountInv, [Next]_vars
  PROVE  CountInv'
<1>1. CASE ordinary
  BY <1>1, TurnPrintsText, WritesCounted, ZenonT(30) DEF ordinary
<1>2. CASE percent \/ other
  BY <1>2, OwnTexts, WritesCounted, ZenonT(30) DEF percent, other
<1>3. CASE char
  BY <1>3, TurnPrintsText, WritesCounted, ZenonT(30) DEF char
<1>4. CASE string_next
  <2>1. Len(<<Head(str)>>) = 1
    OBVIOUS
  <2>2. Prints(<<Head(str)>>) /\ cnt' = cnt + 1 /\ console' = console
    BY <1>4, ZenonT(30) DEF string_next
  <2> QED BY <1>4, <2>1, <2>2, TurnPrintsText, PrintsCounted, ZenonT(30)
<1>5. CASE number_print
  <2>1. Len(<<buffer[Len(buffer)]>>) = 1
    OBVIOUS
  <2>2. Prints(<<buffer[Len(buffer)]>>) /\ cnt' = cnt + 1 /\ console' = console
    BY <1>5, ZenonT(30) DEF number_print
  <2> QED BY <1>5, <2>1, <2>2, TurnPrintsText, PrintsCounted, ZenonT(30)
<1>6. CASE number_zero
  <2>1. Len(<<"0">>) = 1
    OBVIOUS
  <2>2. Prints(<<"0">>) /\ cnt' = cnt + ZeroCount /\ console' = console
    BY <1>6, ZenonT(30) DEF number_zero
  <2>3. console = "fvga_write" => ZeroCount = 1
    BY ZenonT(30) DEF ZeroCount
  <2> QED BY <2>1, <2>2, <2>3, OwnTexts, PrintsCounted, ZenonT(30)
<1>7. CASE signed \/ unsigned \/ hexadecimal
  <2>1. PICK text \in {<<>>, <<"-">>, <<"0", "x">>} :
          Prints(text) /\ cnt' = cnt + Len(text) /\ console' = console
    BY <1>7, ZenonT(30) DEF signed, unsigned, hexadecimal, print_unsigned
  <2>2. text \in Seq(Alphabet)
    BY OwnTexts, ZenonT(30)
  <2> QED BY <2>1, <2>2, PrintsCounted, ZenonT(30)
<1>8. CASE finish \/ string \/ string_ends \/ number_digit \/ returned \/ UNCHANGED vars
  <2>1. out' = out /\ cnt' = cnt /\ console' = console
    BY <1>8, ZenonT(30) DEF finish, string, string_ends, number_digit, returned, vars
  <2> QED BY <2>1, ZenonT(30) DEF CountInv
<1> QED BY <1>1, <1>2, <1>3, <1>4, <1>5, <1>6, <1>7, <1>8, ZenonT(30) DEF Next

\* fvga_write returns the number of characters it wrote, for every call.
THEOREM CountsCharacters == Spec => []CountExact
<1>1. Init => CountInv
  <2> SUFFICES ASSUME Init PROVE CountInv
    OBVIOUS
  <2>1. out = <<>> /\ cnt = 0
    BY ZenonT(30) DEF Init
  <2> QED BY <2>1 DEF CountInv
<1>2. FormatInv /\ CountInv /\ [Next]_vars => CountInv'
  BY CountStep, ZenonT(30)
<1>3. CountInv => CountExact
  BY ZenonT(30) DEF CountInv, CountExact
<1> QED BY <1>1, <1>2, <1>3, FormatInvariant, PTL DEF Spec

-----------------------------------------------------------------------------
\* char buffer[16] of print_unsigned and of vga_print_unsigned.
BufferFits == buffer \in Seq(Alphabet) /\ Len(buffer) <= 16

\* While a digit is left to collect there is room for it.
LEMMA RoomLeft ==
  ASSUME FormatInv, \A b \in Bases : WordMod <= Power(b, 16), number_digit
  PROVE  buffer \in Seq(Alphabet) /\ Len(buffer) < 16 /\ buffer' \in Seq(Alphabet)
<1>1. PICK n \in 0 .. Len(call) - 1 : \E k \in 0 .. Len(Image(n)) :
        Printing(n, k) \/ \E v \in Words : Collecting(n, k, v)
  BY NumberAt, ZenonT(30) DEF number_digit
<1>2. value # 0
  BY ZenonT(30) DEF number_digit
<1>3. PICK v \in Words : Collects(value, buffer, v, base) /\ base \in Bases
  BY <1>1, <1>2, ZenonT(30) DEF Printing, Collecting
<1> DEFINE m == Len(buffer)
<1>4. buffer \in Seq(Alphabet) /\ value = v \div Power(base, m)
  BY <1>3, ZenonT(30) DEF Collects
<1>5. v \in Nat /\ v < WordMod /\ WordMod \in Nat /\ base \in Nat /\ base >= 2 /\ m \in Nat
  BY <1>3, <1>4, FormatAssumption DEF Words, Bases
<1> DEFINE p == Power(base, m)
           q == Power(base, 16)
<1>6. p \in Nat /\ q \in Nat /\ WordMod <= q /\ 16 \in Nat
  BY <1>3, <1>5, PowerSteps
<1>7. \A i \in 0 .. m : Power(base, i) <= p
  BY <1>5, PowerGrows, ZenonT(30)
<1>8. p > 0
  <2>1. 0 \in 0 .. m /\ 0 \in Nat
    BY <1>5
  <2>2. Power(base, 0) = 1
    BY <1>5, <2>1, PowerSteps, ZenonT(30)
  <2>3. 1 <= p
    BY <1>7, <2>1, <2>2, ZenonT(30)
  <2> QED BY <1>6, <2>3
<1>9. 16 \in 0 .. m => q <= p
  BY <1>7, ZenonT(30)
<1> HIDE DEF p, q
<1>10. v \div p # 0
  BY <1>2, <1>4, ZenonT(30) DEF p
<1>11. p <= v
  BY <1>5, <1>6, <1>8, <1>10
<1>12. m < 16
  BY <1>5, <1>6, <1>9, <1>11
<1>13. Collects(value \div base, Append(buffer, digits[(value % base) + 1]), v, base)
  BY <1>2, <1>3, <1>5, CollectStep, ZenonT(30)
<1>14. buffer' \in Seq(Alphabet)
  BY <1>13, ZenonT(30) DEF number_digit, Collects
<1> QED BY <1>4, <1>12, <1>14, ZenonT(30)

\* Every step keeps within the buffer.
LEMMA BufferStep ==
  ASSUME FormatInv, BufferFits, \A b \in Bases : WordMod <= Power(b, 16), [Next]_vars
  PROVE  BufferFits'
<1>1. CASE number_digit
  <2>1. buffer \in Seq(Alphabet) /\ Len(buffer) < 16 /\ buffer' \in Seq(Alphabet)
    BY <1>1, RoomLeft, ZenonT(30)
  <2>2. Len(buffer') = Len(buffer) + 1
    BY <1>1, <2>1 DEF number_digit
  <2> QED BY <2>1, <2>2 DEF BufferFits
<1>2. CASE number_print
  <2>1. buffer' = SubSeq(buffer, 1, Len(buffer) - 1) /\ buffer # <<>>
    BY <1>2, ZenonT(30) DEF number_print
  <2>2. buffer \in Seq(Alphabet) /\ Len(buffer) <= 16
    BY ZenonT(30) DEF BufferFits
  <2>3. Len(buffer) - 1 \in Nat /\ Len(buffer) - 1 + 1 = Len(buffer)
    BY <2>1, <2>2
  <2>4. buffer' \in Seq(Alphabet) /\ Len(buffer') = Len(buffer) - 1
    BY <2>1, <2>2, <2>3, AllButLast, ZenonT(30)
  <2> QED BY <2>2, <2>3, <2>4 DEF BufferFits
<1>3. CASE signed \/ unsigned \/ hexadecimal
  <2>1. buffer' = <<>>
    BY <1>3, ZenonT(30) DEF signed, unsigned, hexadecimal, print_unsigned
  <2> QED BY <2>1 DEF BufferFits
<1>4. CASE \/ ordinary \/ percent \/ other \/ char \/ finish \/ string \/ string_next
           \/ string_ends \/ number_zero \/ returned \/ UNCHANGED vars
  <2>1. buffer' = buffer
    BY <1>4, ZenonT(30) DEF ordinary, percent, other, char, finish, string, string_next, string_ends,
       number_zero, returned, Writes, number, vars
  <2> QED BY <2>1, ZenonT(30) DEF BufferFits
<1> QED BY <1>1, <1>2, <1>3, <1>4, ZenonT(30) DEF Next

\* The digits fit in the 16 characters of the buffer if no word has more of them
\* (a word of 32 bits has up to ten).
THEOREM DigitsFit ==
  ASSUME \A b \in Bases : WordMod <= Power(b, 16)
  PROVE  Spec => []BufferFits
<1>1. Init => BufferFits
  <2> SUFFICES ASSUME Init PROVE BufferFits
    OBVIOUS
  <2>1. buffer = <<>>
    BY ZenonT(30) DEF Init
  <2> QED BY <2>1 DEF BufferFits
<1>2. FormatInv /\ BufferFits /\ [Next]_vars => BufferFits'
  BY BufferStep, ZenonT(30)
<1> QED BY <1>1, <1>2, FormatInvariant, PTL DEF Spec

==============================================================================
