---------------------------- MODULE KmallocProofs -----------------------------
(***************************************************************************)
(* Proofs about Kmalloc for every size of the heap and of the header, and  *)
(* whatever sizes are asked for.                                           *)
(***************************************************************************)
EXTENDS Kmalloc, TLAPS

\* A step is for the SMT solver unless it names another prover.
USE SMTT(60)

(***************************************************************************)
(* The inductive invariant.  HeapInv is about the list as such; BehindPtr  *)
(* says what the two loops have established for the blocks they have       *)
(* passed.                                                                 *)
(***************************************************************************)
\* m bytes are enough for a request of n, unless ALIGN8 overflows.
Covers(m, n) == n + 7 < SizeMod => n <= m

HeapInv ==
  /\ TypeOK
  /\ Tiling
  /\ \A a \in Offsets :
       held[a] # NotHeld => a \in blocks /\ ~free[a] /\ Covers(size[a], held[a])
  /\ pc # "idle" => ptr \in blocks \cup {NULL}
  /\ pc = "search" => want \in Requests /\ need % 8 = 0 /\ Covers(need, want)

Separated(b) == free[b] /\ next[b] # NULL => ~free[next[b]]
Passed(b)    == ptr = NULL \/ b < ptr

BehindPtr ==
  /\ pc # "coalesce" => \A b \in blocks : Separated(b)
  /\ pc = "coalesce" => \A b \in blocks : Passed(b) => Separated(b)
  /\ pc = "search" => \A b \in blocks : Passed(b) => ~(free[b] /\ size[b] >= need)

Inv == HeapInv /\ BehindPtr

-----------------------------------------------------------------------------
(***************************************************************************)
(* Lemmas about the list.                                                  *)
(***************************************************************************)
\* The constants, as numbers.
LEMMA Sizes ==
  /\ HeaderSize \in Nat /\ HeaderSize > 0 /\ HeaderSize % 8 = 0
  /\ HeapSize \in Nat /\ HeapSize % 8 = 0 /\ HeapSize >= HeaderSize
  /\ SizeMod \in Nat /\ SizeMod > HeapSize + HeaderSize + 8 /\ SizeMod % 8 = 0
  BY KmallocAssumption

\* Sums and differences of multiples of 8.
LEMMA Multiples ==
  \A a, b \in Int : a % 8 = 0 /\ b % 8 = 0 => (a + b) % 8 = 0 /\ (a - b) % 8 = 0
  OBVIOUS

\* A size that does not overflow.
LEMMA ModSmall == \A n \in Nat \ {0} : \A a \in 0 .. n - 1 : a % n = a
  OBVIOUS

\* Where a block lies.
LEMMA BlockRange ==
  ASSUME TypeOK, Tiling, NEW b \in blocks
  PROVE  /\ b \in Offsets /\ b \in Nat /\ size[b] \in Nat
         /\ End(b) \in Nat /\ b + HeaderSize <= End(b) /\ End(b) <= HeapSize
<1>1. b \in Offsets /\ size[b] \in 0 .. HeapSize
  BY DEF TypeOK
<1>2. b \in Nat /\ size[b] \in Nat /\ End(b) \in Nat /\ b + HeaderSize <= End(b)
  BY <1>1, Sizes DEF Offsets, End
<1>3. End(b) = HeapSize \/ End(b) \in Offsets
  BY DEF Tiling, TypeOK
<1> QED BY <1>1, <1>2, <1>3, Sizes DEF Offsets

\* The blocks before the successor of b are those before b, and b itself.
LEMMA BeforeNext ==
  ASSUME TypeOK, Tiling, NEW b \in blocks, NEW c \in blocks,
         next[b] = NULL \/ c < next[b]
  PROVE  c < b \/ c = b
<1>1. b \in Nat /\ c \in Nat /\ c < HeapSize /\ End(b) \in Nat
  BY BlockRange, Sizes DEF Offsets
<1>2. c < End(b)
  <2>1. CASE next[b] = NULL /\ End(b) = HeapSize
    BY <1>1, <2>1
  <2>2. CASE next[b] \in blocks /\ next[b] = End(b)
    <3>1. next[b] # NULL
      BY <1>1, <2>2 DEF NULL
    <3> QED BY <2>2, <3>1
  <2> QED BY <2>1, <2>2 DEF Tiling
<1>3. b < c => End(b) <= c
  BY DEF Tiling
<1> QED BY <1>1, <1>2, <1>3

\* Only one block has a given successor, and that comes after it.
LEMMA NextIsAfter ==
  ASSUME TypeOK, Tiling, NEW b \in blocks, next[b] # NULL
  PROVE  /\ next[b] \in blocks /\ next[b] = End(b) /\ b < next[b]
         /\ \A c \in blocks : next[c] = next[b] => c = b
<1>1. next[b] \in blocks /\ next[b] = End(b)
  BY DEF Tiling
<1>2. b < next[b]
  BY <1>1, BlockRange, Sizes
<1>3. ASSUME NEW c \in blocks, next[c] = next[b] PROVE c = b
  <2>1. End(c) = End(b)
    BY <1>1, <1>3 DEF Tiling
  <2>2. /\ b \in Nat /\ c \in Nat /\ End(b) \in Nat
        /\ b + HeaderSize <= End(b) /\ c + HeaderSize <= End(c)
    BY BlockRange
  <2>3. (b < c => End(b) <= c) /\ (c < b => End(c) <= b)
    BY DEF Tiling
  <2> QED BY <2>1, <2>2, <2>3, Sizes
<1> QED BY <1>1, <1>2, <1>3

\* ALIGN8 rounds up to a multiple of 8, unless the sum is too large for a size_t.
LEMMA Align ==
  ASSUME NEW n \in 0 .. SizeMod - 1
  PROVE  /\ ALIGN8(n) \in 0 .. SizeMod - 1 /\ ALIGN8(n) % 8 = 0
         /\ Covers(ALIGN8(n), n)
<1> DEFINE m == (n + 7) % SizeMod
<1>1. m \in 0 .. SizeMod - 1 /\ (n + 7 < SizeMod => m = n + 7)
  BY Sizes
<1>2. ALIGN8(n) = (m \div 8) * 8
  BY DEF ALIGN8
<1> HIDE DEF m
<1>3. (m \div 8) * 8 <= m /\ m < (m \div 8) * 8 + 8 /\ (m \div 8) * 8 >= 0 /\ m \div 8 \in Nat
  BY <1>1
<1>4. ((m \div 8) * 8) % 8 = 0
  BY <1>3
<1> QED BY <1>1, <1>2, <1>3, <1>4, Sizes DEF Covers

-----------------------------------------------------------------------------
(***************************************************************************)
(* Init and the steps, each for the list and for what the loops know.      *)
(***************************************************************************)
\* kmalloc_init makes one block of the heap.
LEMMA InitInv == Init => Inv
<1> SUFFICES ASSUME Init PROVE Inv
  OBVIOUS
<1>1. head \in Offsets /\ \A a \in Offsets : a \in Nat
  BY Sizes DEF Offsets, head
<1>2. TypeOK
  BY <1>1, Sizes DEF Init, TypeOK
<1>3. blocks = {head} /\ size[head] = HeapSize - HeaderSize /\ next[head] = NULL
  BY <1>1 DEF Init
<1>4. Tiling
  <2>1. head % 8 = 0 /\ (HeapSize - HeaderSize) % 8 = 0 /\ End(head) = HeapSize
    BY <1>3, Sizes DEF head, End
  <2> QED BY <1>3, <2>1 DEF Tiling, head
<1>5. HeapInv
  BY <1>2, <1>4 DEF Init, HeapInv
<1>6. BehindPtr
  BY <1>3 DEF Init, BehindPtr, Separated
<1> QED BY <1>5, <1>6 DEF Inv

\* kmalloc starts its search; kfree(b) its loop.
LEMMA CallPreservesInv ==
  ASSUME Inv, (\E n \in Requests : kmalloc(n)) \/ (\E b \in Offsets : kfree(b))
  PROVE  Inv'
<1>1. head \in blocks /\ head = 0 /\ \A b \in blocks : b \in Nat
  BY BlockRange DEF Inv, HeapInv, Tiling, head
<1>2. ASSUME NEW n \in Requests, kmalloc(n) PROVE Inv'
  <2>1. n \in 0 .. SizeMod - 1 /\ ALIGN8(n) \in 0 .. SizeMod - 1 /\ ALIGN8(n) % 8 = 0
        /\ Covers(ALIGN8(n), n)
    BY Align, KmallocAssumption
  <2>2. UNCHANGED <<size, free, next, blocks, held>> /\ pc = "idle" /\ pc' = "search"
        /\ ptr' = head /\ want' = n /\ need' = ALIGN8(n)
    BY <1>2 DEF kmalloc
  <2>3. TypeOK'
    BY <1>1, <2>1, <2>2 DEF Inv, HeapInv, TypeOK
  <2>4. HeapInv'
    BY <1>1, <2>1, <2>2, <2>3 DEF Inv, HeapInv, Tiling, End
  <2>5. BehindPtr'
    <3>1. \A b \in blocks : ~Passed(b)'
      BY <1>1, <2>2 DEF Passed, NULL
    <3> QED BY <2>2, <3>1 DEF Inv, BehindPtr, Separated
  <2> QED BY <2>4, <2>5 DEF Inv
<1>3. ASSUME NEW b \in Offsets, kfree(b) PROVE Inv'
  <2>1. /\ UNCHANGED <<size, next, blocks, want, need>> /\ held[b] # NotHeld /\ pc' = "coalesce"
        /\ ptr' = head /\ free' = [free EXCEPT ![b] = TRUE] /\ held' = [held EXCEPT ![b] = NotHeld]
    BY <1>3 DEF kfree
  <2>2. TypeOK'
    BY <1>1, <2>1 DEF Inv, HeapInv, TypeOK
  <2>3. \A a \in Offsets :
          held'[a] # NotHeld => a \in blocks /\ ~free'[a] /\ Covers(size[a], held'[a])
    BY <2>1 DEF Inv, HeapInv, TypeOK
  <2>4. HeapInv'
    BY <1>1, <2>1, <2>2, <2>3 DEF Inv, HeapInv, Tiling, End
  <2>5. BehindPtr'
    <3>1. \A c \in blocks : ~Passed(c)'
      BY <1>1, <2>1 DEF Passed, NULL
    <3> QED BY <2>1, <3>1 DEF BehindPtr
  <2> QED BY <2>4, <2>5 DEF Inv
<1> QED BY <1>2, <1>3

\* A loop goes on to the next block.
LEMMA AdvancePreservesInv ==
  ASSUME Inv, search_next \/ coalesce_next
  PROVE  Inv'
<1>1. /\ UNCHANGED <<size, free, next, blocks, held, pc, want, need>> /\ ptr' = next[ptr]
      /\ pc \in {"search", "coalesce"} /\ ptr # NULL
  BY DEF search_next, coalesce_next
<1>2. ptr \in blocks
  BY <1>1 DEF Inv, HeapInv
<1>3. ptr' \in blocks \cup {NULL}
  BY <1>1, <1>2 DEF Inv, HeapInv, Tiling
<1>4. HeapInv'
  BY <1>1, <1>3 DEF Inv, HeapInv, TypeOK, Tiling, End
<1>5. ASSUME NEW c \in blocks, Passed(c)' PROVE Passed(c) \/ c = ptr
  <2>1. next[ptr] = NULL \/ c < next[ptr]
    BY <1>1, <1>5 DEF Passed
  <2> QED BY <1>2, <2>1, BeforeNext DEF Inv, HeapInv, Passed
<1>6. CASE search_next
  <2>1. pc = "search" /\ ~(free[ptr] /\ size[ptr] >= need)
    BY <1>6 DEF search_next, Fits
  <2> QED BY <1>1, <1>4, <1>5, <2>1 DEF Inv, BehindPtr, Separated
<1>7. CASE coalesce_next
  <2>1. pc = "coalesce" /\ Separated(ptr)
    BY <1>7 DEF coalesce_next, Merges, Separated
  <2> QED BY <1>1, <1>4, <1>5, <2>1 DEF Inv, BehindPtr, Separated
<1> QED BY <1>6, <1>7

\* A loop has come to the end of the list.
LEMMA EndPreservesInv ==
  ASSUME Inv, search_fails \/ coalesce_ends
  PROVE  Inv'
<1>1. UNCHANGED <<size, free, next, blocks, held, ptr>> /\ pc' = "idle" /\ ptr = NULL
  BY DEF search_fails, coalesce_ends
<1>2. want' \in 0 .. SizeMod - 1 /\ need' \in 0 .. SizeMod - 1
  BY Sizes DEF search_fails, coalesce_ends, Inv, HeapInv, TypeOK
<1>3. HeapInv'
  BY <1>1, <1>2 DEF Inv, HeapInv, TypeOK, Tiling, End
<1>4. BehindPtr'
  <2>1. \A b \in blocks : Separated(b)
    BY <1>1 DEF Inv, BehindPtr, Passed
  <2> QED BY <1>1, <2>1 DEF BehindPtr, Separated
<1> QED BY <1>3, <1>4 DEF Inv

\* kmalloc takes a block that it does not split.
LEMMA TakeWholePreservesInv ==
  ASSUME Inv, take_whole
  PROVE  Inv'
<1>1. /\ UNCHANGED <<size, next, blocks>> /\ pc = "search" /\ ptr # NULL
      /\ free' = [free EXCEPT ![ptr] = FALSE] /\ held' = [held EXCEPT ![ptr] = want]
      /\ pc' = "idle" /\ ptr' = NULL /\ want' = 0 /\ need' = 0
  BY DEF take_whole
<1>2. ptr \in blocks /\ ptr \in Offsets
  BY <1>1 DEF Inv, HeapInv, TypeOK
<1>3. TypeOK'
  BY <1>1, <1>2, Sizes DEF Inv, HeapInv, TypeOK
<1>4. size[ptr] >= need /\ Covers(size[ptr], want)
  <2>1. size[ptr] \in Int /\ need \in Int /\ want \in Int
    BY <1>2 DEF Inv, HeapInv, TypeOK
  <2> QED BY <1>1, <2>1 DEF Inv, HeapInv, Covers, take_whole, Fits
<1>5. \A a \in Offsets :
        held'[a] # NotHeld => a \in blocks /\ ~free'[a] /\ Covers(size[a], held'[a])
  BY <1>1, <1>2, <1>4 DEF Inv, HeapInv, TypeOK
<1>6. HeapInv'
  BY <1>1, <1>2, <1>3, <1>5 DEF Inv, HeapInv, Tiling, End
<1>7. BehindPtr'
  BY <1>1, <1>2 DEF Inv, HeapInv, TypeOK, BehindPtr, Separated
<1> QED BY <1>6, <1>7 DEF Inv

\* kmalloc splits the block it takes.
LEMMA TakeSplitPreservesInv ==
  ASSUME Inv, take_split
  PROVE  Inv'
<1> PICK p : p = ptr
  OBVIOUS
<1> PICK n : n = need
  OBVIOUS
<1> PICK split : split = p + HeaderSize + n
  OBVIOUS
<1> PICK rest : rest = size[p] - n - HeaderSize
  OBVIOUS
<1>1. /\ pc = "search" /\ p # NULL /\ free[p] /\ size[p] >= n
      /\ size[p] >= (n + HeaderSize + 8) % SizeMod
      /\ size' = [size EXCEPT ![split] = rest, ![p] = n]
      /\ free' = [free EXCEPT ![split] = TRUE, ![p] = FALSE]
      /\ next' = [next EXCEPT ![split] = next[p], ![p] = split]
      /\ blocks' = blocks \cup {split}
      /\ held' = [held EXCEPT ![p] = want]
      /\ pc' = "idle" /\ ptr' = NULL /\ want' = 0 /\ need' = 0
  BY DEF take_split, Fits, Splits
<1>2. p \in blocks /\ TypeOK /\ Tiling /\ want \in Requests /\ n % 8 = 0 /\ Covers(n, want)
  BY <1>1 DEF Inv, HeapInv
<1>3. /\ p \in Offsets /\ p \in Nat /\ size[p] \in Nat /\ End(p) \in Nat /\ End(p) <= HeapSize
      /\ End(p) = p + HeaderSize + size[p] /\ n \in Nat
  BY <1>2, BlockRange DEF End, TypeOK
<1>4. size[p] <= HeapSize
  BY <1>3, Sizes
<1>5. size[p] >= n + HeaderSize + 8
  <2>1. (n + HeaderSize + 8) % SizeMod = n + HeaderSize + 8
    <3>1. n + HeaderSize + 8 \in 0 .. SizeMod - 1
      BY <1>1, <1>3, <1>4, Sizes
    <3> QED BY <3>1, Sizes, ModSmall
  <2> QED BY <1>1, <2>1
<1>6. /\ split \in Nat /\ p < split /\ split < End(p) /\ rest \in Nat /\ rest <= HeapSize
      /\ split + HeaderSize + rest = End(p)
  BY <1>3, <1>4, <1>5, Sizes
<1>7. split \in Offsets
  BY <1>3, <1>6, Sizes DEF Offsets
<1>8. p % 8 = 0 /\ size[p] % 8 = 0
  BY <1>2 DEF Tiling
<1>9. split % 8 = 0 /\ rest % 8 = 0
  <2>1. p \in Int /\ HeaderSize \in Int /\ n \in Int /\ size[p] \in Int /\ HeaderSize % 8 = 0
    BY <1>3, Sizes
  <2>2. (p + HeaderSize) % 8 = 0 /\ p + HeaderSize \in Int
    BY <1>8, <2>1, Multiples
  <2>3. (p + HeaderSize + n) % 8 = 0
    BY <1>2, <2>1, <2>2, Multiples
  <2>4. (size[p] - n) % 8 = 0 /\ size[p] - n \in Int
    <3> PICK z : z = size[p]
      OBVIOUS
    <3>1. z \in Int /\ z % 8 = 0 /\ n \in Int /\ n % 8 = 0
      BY <1>2, <1>8, <2>1
    <3>2. (z - n) % 8 = 0 /\ z - n \in Int
      BY <3>1, Multiples
    <3> QED BY <3>2
  <2>5. (size[p] - n - HeaderSize) % 8 = 0
    BY <2>1, <2>4, Multiples, ZenonT(30)
  <2> QED BY <2>3, <2>5
<1>10. split \notin blocks
  BY <1>2, <1>3, <1>6 DEF Tiling
<1>11. /\ size'[split] = rest /\ size'[p] = n /\ free'[split] /\ ~free'[p]
       /\ next'[split] = next[p] /\ next'[p] = split /\ split # p
       /\ \A c \in Offsets \ {p, split} :
            size'[c] = size[c] /\ free'[c] = free[c] /\ next'[c] = next[c]
  <2>1. split # p /\ p \in Offsets /\ split \in Offsets
    BY <1>3, <1>6, <1>7
  <2>2. DOMAIN size = Offsets /\ DOMAIN free = Offsets /\ DOMAIN next = Offsets
    BY <1>2 DEF TypeOK
  <2>3. size'[split] = rest /\ size'[p] = n /\ \A c \in Offsets \ {p, split} : size'[c] = size[c]
    BY <1>1, <2>1, <2>2
  <2>4. free'[split] /\ ~free'[p] /\ \A c \in Offsets \ {p, split} : free'[c] = free[c]
    BY <1>1, <2>1, <2>2, ZenonT(30)
  <2>5. /\ next'[split] = next[p] /\ next'[p] = split
        /\ \A c \in Offsets \ {p, split} : next'[c] = next[c]
    BY <1>1, <2>1, <2>2
  <2> QED BY <2>1, <2>3, <2>4, <2>5
<1>12. /\ End(split)' = End(p) /\ End(p)' = split
       /\ \A c \in blocks \ {p} : End(c)' = End(c)
  <2>1. End(split)' = split + HeaderSize + rest
    BY <1>11 DEF End
  <2>2. End(p)' = split
    BY <1>1, <1>11 DEF End
  <2>3. \A c \in blocks \ {p} : End(c)' = End(c)
    BY <1>2, <1>10, <1>11 DEF End, TypeOK
  <2> QED BY <1>6, <2>1, <2>2, <2>3
<1>13. TypeOK'
  <2>1. n \in 0 .. HeapSize /\ rest \in 0 .. HeapSize
    BY <1>3, <1>4, <1>5, <1>6, Sizes
  <2>2. size' \in [Offsets -> 0 .. HeapSize]
    BY <1>1, <1>2, <2>1 DEF TypeOK
  <2>3. free' \in [Offsets -> BOOLEAN]
    BY <1>1, <1>2, ZenonT(30) DEF TypeOK
  <2>4. next' \in [Offsets -> Offsets \cup {NULL}]
    <3>1. next[p] \in Offsets \cup {NULL}
      BY <1>2, <1>3 DEF TypeOK
    <3> QED BY <1>1, <1>2, <1>7, <3>1 DEF TypeOK
  <2>5. blocks' \subseteq Offsets
    BY <1>1, <1>2, <1>7, ZenonT(30) DEF TypeOK
  <2>6. held' \in [Offsets -> Requests \cup {NotHeld}]
    BY <1>1, <1>2 DEF TypeOK
  <2>7. 0 \in 0 .. SizeMod - 1
    BY Sizes
  <2> QED BY <1>1, <2>2, <2>3, <2>4, <2>5, <2>6, <2>7, ZenonT(30) DEF TypeOK
<1>14. Tiling'
  <2>1. head \in blocks'
    BY <1>1, <1>2 DEF Tiling
  <2>2. ASSUME NEW b \in blocks'
        PROVE  /\ b % 8 = 0 /\ size'[b] % 8 = 0
               /\ \/ next'[b] = NULL /\ End(b)' = HeapSize
                  \/ next'[b] \in blocks' /\ next'[b] = End(b)'
    <3>1. CASE b = split
      <4>1. (next[p] = NULL /\ End(p) = HeapSize) \/ (next[p] \in blocks /\ next[p] = End(p))
        BY <1>2 DEF Tiling
      <4>2. next'[b] = next[p] /\ End(b)' = End(p)
        BY <1>11, <1>12, <3>1
      <4>3. blocks \subseteq blocks'
        BY <1>1
      <4>4. b % 8 = 0 /\ size'[b] % 8 = 0
        BY <1>9, <1>11, <3>1
      <4> QED BY <4>1, <4>2, <4>3, <4>4
    <3>2. CASE b = p
      BY <1>1, <1>2, <1>8, <1>11, <1>12, <3>2
    <3>3. CASE b \in blocks \ {p}
      <4>1. b \in Offsets \ {p, split}
        BY <1>2, <1>10, <3>3 DEF TypeOK
      <4>2. /\ b % 8 = 0 /\ size[b] % 8 = 0
            /\ (next[b] = NULL /\ End(b) = HeapSize) \/ (next[b] \in blocks /\ next[b] = End(b))
        BY <1>2, <3>3 DEF Tiling
      <4>3. size'[b] = size[b] /\ next'[b] = next[b] /\ End(b)' = End(b)
        BY <1>11, <1>12, <3>3, <4>1, ZenonT(30)
      <4> QED BY <1>1, <4>2, <4>3
    <3> QED BY <1>1, <3>1, <3>2, <3>3
  <2>3. ASSUME NEW b \in blocks', NEW c \in blocks', b < c PROVE End(b)' <= c
    <3>1. \A d \in blocks : d \in Nat /\ End(d) \in Nat /\ (p < d => End(p) <= d) /\ (d < p => End(d) <= p)
      BY <1>2, BlockRange DEF Tiling
    <3>2. CASE b = split
      <4>1. c \in blocks /\ p < c
        BY <1>1, <1>3, <1>6, <2>3, <3>1, <3>2
      <4> QED BY <1>12, <3>1, <3>2, <4>1
    <3>3. CASE b = p
      <4>1. c = split \/ (c \in blocks /\ p < c)
        BY <1>1, <2>3, <3>3
      <4> QED BY <1>3, <1>6, <1>12, <3>1, <3>3, <4>1
    <3>4. CASE b \in blocks \ {p}
      <4>1. End(b)' = End(b)
        BY <1>12, <3>4
      <4>2. CASE c \in blocks
        BY <1>2, <2>3, <3>4, <4>1, <4>2, ZenonT(30) DEF Tiling
      <4>3. CASE c = split
        <5>1. b < p
          BY <1>3, <1>6, <2>3, <3>1, <3>4, <4>3
        <5> QED BY <1>3, <1>6, <3>1, <3>4, <4>1, <4>3, <5>1
      <4> QED BY <1>1, <4>2, <4>3
    <3> QED BY <1>1, <3>2, <3>3, <3>4
  <2> QED BY <2>1, <2>2, <2>3 DEF Tiling
<1>15. ASSUME NEW a \in Offsets, held'[a] # NotHeld
       PROVE  a \in blocks' /\ ~free'[a] /\ Covers(size'[a], held'[a])
  <2>1. CASE a = p
    BY <1>1, <1>2, <1>11, <2>1, ZenonT(30) DEF TypeOK
  <2>2. CASE a # p
    <3>1. held'[a] = held[a]
      BY <1>1, <1>2, <2>2 DEF TypeOK
    <3>2. a \in blocks /\ ~free[a] /\ Covers(size[a], held[a])
      BY <1>15, <3>1, ZenonT(30) DEF Inv, HeapInv
    <3> QED BY <1>1, <1>10, <1>11, <2>2, <3>1, <3>2, ZenonT(30)
  <2> QED BY <2>1, <2>2
<1>16. HeapInv'
  BY <1>1, <1>13, <1>14, <1>15, ZenonT(30) DEF HeapInv
<1>17. ASSUME NEW b \in blocks' PROVE Separated(b)'
  <2>1. \A d \in blocks : Separated(d)
    BY <1>1 DEF Inv, BehindPtr
  <2>2. CASE b = split
    <3>1. next[p] # NULL => next[p] \in blocks /\ next[p] # p /\ ~free[next[p]]
      BY <1>1, <1>2, <1>3, <2>1, NextIsAfter DEF Separated
    <3>2. next[p] # NULL => free'[next[p]] = free[next[p]]
      BY <1>2, <1>10, <1>11, <3>1 DEF TypeOK
    <3> QED BY <1>11, <2>2, <3>1, <3>2 DEF Separated
  <2>3. CASE b = p
    BY <1>11, <2>3 DEF Separated
  <2>4. CASE b \in blocks \ {p}
    <3>1. b \in Offsets \ {p, split}
      BY <1>2, <1>10, <2>4 DEF TypeOK
    <3>2. next'[b] = next[b] /\ free'[b] = free[b]
      BY <1>11, <3>1
    <3>3. CASE next[b] # NULL /\ next[b] # p
      <4>1. next[b] \in Offsets \ {p, split}
        BY <1>2, <1>10, <2>4, <3>3, NextIsAfter DEF TypeOK
      <4> QED BY <1>11, <2>1, <2>4, <3>2, <4>1, ZenonT(30) DEF Separated
    <3>4. CASE next[b] = p
      BY <1>11, <3>2, <3>4, ZenonT(30) DEF Separated
    <3>5. CASE next[b] = NULL
      BY <3>2, <3>5 DEF Separated
    <3> QED BY <3>3, <3>4, <3>5
  <2> QED BY <1>1, <2>2, <2>3, <2>4
<1>18. BehindPtr'
  BY <1>1, <1>17 DEF BehindPtr
<1> QED BY <1>16, <1>18 DEF Inv

\* kfree joins a block and its successor.
LEMMA MergePreservesInv ==
  ASSUME Inv, coalesce_merge
  PROVE  Inv'
<1> PICK p : p = ptr
  OBVIOUS
<1> PICK gone : gone = next[p]
  OBVIOUS
<1> PICK sum : sum = size[p] + HeaderSize + size[gone]
  OBVIOUS
<1>1. /\ pc = "coalesce" /\ p # NULL /\ free[p] /\ next[p] # NULL /\ free[gone]
      /\ size' = [size EXCEPT ![p] = @ + HeaderSize + size[gone], ![gone] = 0]
      /\ next' = [next EXCEPT ![p] = next[gone], ![gone] = NULL]
      /\ free' = [free EXCEPT ![gone] = FALSE]
      /\ blocks' = blocks \ {gone}
      /\ UNCHANGED <<held, pc, ptr, want, need>>
  BY DEF coalesce_merge, Merges
<1>2. p \in blocks /\ TypeOK /\ Tiling
  BY <1>1 DEF Inv, HeapInv
<1>3. /\ gone \in blocks /\ gone = End(p) /\ p < gone
      /\ \A c \in blocks : next[c] = gone => c = p
  BY <1>1, <1>2, NextIsAfter
<1>4. /\ p \in Offsets /\ p \in Nat /\ size[p] \in Nat /\ End(p) = p + HeaderSize + size[p]
      /\ gone \in Offsets /\ gone \in Nat /\ size[gone] \in Nat
      /\ End(gone) = gone + HeaderSize + size[gone] /\ End(gone) <= HeapSize
  BY <1>2, <1>3, BlockRange DEF End
<1>5. /\ sum \in 0 .. HeapSize /\ p + HeaderSize + sum = End(gone) /\ p # gone
      /\ End(gone) \in Nat
  BY <1>3, <1>4, Sizes
<1>6. /\ size'[p] = sum /\ next'[p] = next[gone]
      /\ \A c \in Offsets \ {p, gone} : size'[c] = size[c] /\ next'[c] = next[c]
      /\ \A c \in Offsets \ {gone} : free'[c] = free[c]
  <2>1. DOMAIN size = Offsets /\ DOMAIN free = Offsets /\ DOMAIN next = Offsets
    BY <1>2 DEF TypeOK
  <2>2. size'[p] = sum /\ \A c \in Offsets \ {p, gone} : size'[c] = size[c]
    BY <1>1, <1>4, <1>5, <2>1
  <2>3. next'[p] = next[gone] /\ \A c \in Offsets \ {p, gone} : next'[c] = next[c]
    BY <1>1, <1>4, <1>5, <2>1
  <2>4. \A c \in Offsets \ {gone} : free'[c] = free[c]
    BY <1>1, <1>4, <2>1
  <2> QED BY <2>2, <2>3, <2>4
<1>7. End(p)' = End(gone) /\ \A c \in blocks \ {p, gone} : End(c)' = End(c)
  <2>1. End(p)' = p + HeaderSize + sum
    BY <1>6 DEF End
  <2>2. \A c \in blocks \ {p, gone} : End(c)' = End(c)
    BY <1>2, <1>6 DEF End, TypeOK
  <2> QED BY <1>5, <2>1, <2>2
<1>8. TypeOK'
  <2>1. size' \in [Offsets -> 0 .. HeapSize]
    <3>1. 0 \in 0 .. HeapSize
      BY Sizes
    <3>2. size' = [size EXCEPT ![p] = sum, ![gone] = 0]
      BY <1>1
    <3> QED BY <1>2, <1>5, <3>1, <3>2, ZenonT(30) DEF TypeOK
  <2>2. free' \in [Offsets -> BOOLEAN]
    BY <1>1, <1>2 DEF TypeOK
  <2>3. next' \in [Offsets -> Offsets \cup {NULL}]
    <3>1. next[gone] \in Offsets \cup {NULL}
      BY <1>2, <1>4 DEF TypeOK
    <3> QED BY <1>1, <1>2, <3>1 DEF TypeOK
  <2>4. blocks' \subseteq Offsets
    BY <1>1, <1>2 DEF TypeOK
  <2>5. UNCHANGED <<held, pc, ptr, want, need>>
    BY <1>1
  <2> QED BY <1>2, <2>1, <2>2, <2>3, <2>4, <2>5 DEF TypeOK
<1>9. Tiling'
  <2>1. head \in blocks'
    BY <1>1, <1>2, <1>3, <1>4 DEF Tiling, head
  <2>2. ASSUME NEW b \in blocks'
        PROVE  /\ b % 8 = 0 /\ size'[b] % 8 = 0
               /\ \/ next'[b] = NULL /\ End(b)' = HeapSize
                  \/ next'[b] \in blocks' /\ next'[b] = End(b)'
    <3>1. CASE b = p
      <4>1. /\ p % 8 = 0 /\ size[p] % 8 = 0 /\ size[gone] % 8 = 0
            /\ (next[gone] = NULL /\ End(gone) = HeapSize)
               \/ (next[gone] \in blocks /\ next[gone] = End(gone))
        BY <1>2, <1>3 DEF Tiling
      <4>2. End(gone) # gone
        BY <1>4, Sizes
      <4>3. sum % 8 = 0
        <5> PICK y, z, h : y = size[p] /\ z = size[gone] /\ h = HeaderSize
          OBVIOUS
        <5>1. y \in Int /\ y % 8 = 0 /\ z \in Int /\ z % 8 = 0 /\ h \in Int /\ h % 8 = 0
          BY <1>4, <4>1, Sizes
        <5>2. y + h \in Int
          BY <5>1
        <5>3. (y + h) % 8 = 0
          BY <5>1, Multiples, ZenonT(30)
        <5>4. (y + h + z) % 8 = 0
          BY <5>1, <5>2, <5>3, Multiples, ZenonT(30)
        <5> QED BY <5>4
      <4>4. next'[b] = next[gone] /\ End(b)' = End(gone) /\ size'[b] = sum
        BY <1>6, <1>7, <3>1
      <4>5. next[gone] \in blocks /\ next[gone] = End(gone) => next[gone] \in blocks'
        BY <1>1, <4>2
      <4> QED BY <3>1, <4>1, <4>3, <4>4, <4>5
    <3>2. CASE b # p
      <4>1. b \in blocks \ {p, gone} /\ b \in Offsets
        BY <1>1, <1>2, <3>2 DEF TypeOK
      <4>2. /\ b % 8 = 0 /\ size[b] % 8 = 0
            /\ (next[b] = NULL /\ End(b) = HeapSize) \/ (next[b] \in blocks /\ next[b] = End(b))
        BY <1>2, <4>1 DEF Tiling
      <4>3. next[b] # gone
        BY <1>3, <4>1
      <4>4. size'[b] = size[b] /\ next'[b] = next[b] /\ End(b)' = End(b)
        BY <1>6, <1>7, <4>1
      <4>5. next[b] \in blocks => next[b] \in blocks'
        BY <1>1, <4>3
      <4> QED BY <4>2, <4>4, <4>5
    <3> QED BY <3>1, <3>2
  <2>3. ASSUME NEW b \in blocks', NEW c \in blocks', b < c PROVE End(b)' <= c
    <3>1. b \in blocks \ {gone} /\ c \in blocks \ {gone} /\ b \in Nat /\ c \in Nat
      BY <1>1, <1>2, BlockRange
    <3>2. CASE b = p
      <4>1. gone <= c
        BY <1>2, <1>3, <2>3, <3>1, <3>2 DEF Tiling
      <4>2. gone < c
        BY <1>4, <3>1, <4>1
      <4>3. End(gone) <= c
        BY <1>2, <1>3, <3>1, <4>2 DEF Tiling
      <4> QED BY <1>7, <3>2, <4>3
    <3>3. CASE b # p
      <4>1. End(b)' = End(b)
        BY <1>7, <3>1, <3>3
      <4> QED BY <1>2, <2>3, <3>1, <4>1 DEF Tiling
    <3> QED BY <3>2, <3>3
  <2> QED BY <2>1, <2>2, <2>3 DEF Tiling
<1>10. ASSUME NEW a \in Offsets, held'[a] # NotHeld
       PROVE  a \in blocks' /\ ~free'[a] /\ Covers(size'[a], held'[a])
  <2>1. held'[a] = held[a] /\ a \in blocks /\ ~free[a] /\ Covers(size[a], held[a])
    BY <1>1, <1>10 DEF Inv, HeapInv
  <2>2. a # p /\ a # gone
    BY <1>1, <2>1
  <2> QED BY <1>1, <1>6, <2>1, <2>2, ZenonT(30)
<1>11. HeapInv'
  <2>1. (ptr \in blocks \cup {NULL})'
    BY <1>1, <1>2, <1>5
  <2> QED BY <1>1, <1>8, <1>9, <1>10, <2>1, ZenonT(30) DEF HeapInv
<1>12. ASSUME NEW b \in blocks', Passed(b)' PROVE Separated(b)'
  <2>1. b \in blocks \ {gone} /\ b < p /\ b \in Offsets /\ b \in Nat
    BY <1>1, <1>2, <1>12, BlockRange DEF Passed
  <2>2. Separated(b)
    <3>1. Passed(b)
      BY <2>1 DEF Passed
    <3> QED BY <1>1, <2>1, <3>1 DEF Inv, BehindPtr
  <2>3. next'[b] = next[b] /\ free'[b] = free[b] /\ next[b] # gone
    <3>1. b # p
      BY <1>4, <2>1
    <3> QED BY <1>3, <1>6, <2>1, <3>1
  <2>4. next[b] # NULL => free'[next[b]] = free[next[b]]
    <3>1. next[b] # NULL => next[b] \in Offsets \ {gone}
      BY <1>2, <2>1, <2>3 DEF TypeOK
    <3> QED BY <1>6, <3>1
  <2> QED BY <2>2, <2>3, <2>4 DEF Separated
<1>13. BehindPtr'
  BY <1>1, <1>12 DEF BehindPtr
<1> QED BY <1>11, <1>13 DEF Inv

-----------------------------------------------------------------------------
(***************************************************************************)
(* The theorems.                                                           *)
(***************************************************************************)
\* Every step, and every stutter.
LEMMA NextPreservesInv == Inv /\ [Next]_kmallocVars => Inv'
<1> SUFFICES ASSUME Inv, [Next]_kmallocVars PROVE Inv'
  OBVIOUS
<1>1. CASE UNCHANGED kmallocVars
  BY <1>1 DEF kmallocVars, Inv, HeapInv, BehindPtr, TypeOK, Tiling, End, Separated, Passed
<1>2. CASE (\E n \in Requests : kmalloc(n)) \/ (\E b \in Offsets : kfree(b))
  BY <1>2, CallPreservesInv
<1>3. CASE search_next \/ coalesce_next
  BY <1>3, AdvancePreservesInv
<1>4. CASE search_fails \/ coalesce_ends
  BY <1>4, EndPreservesInv
<1>5. CASE take_whole
  BY <1>5, TakeWholePreservesInv
<1>6. CASE take_split
  BY <1>6, TakeSplitPreservesInv
<1>7. CASE coalesce_merge
  BY <1>7, MergePreservesInv
<1> QED BY <1>1, <1>2, <1>3, <1>4, <1>5, <1>6, <1>7 DEF Next, InCall, call_ignored

\* The inductive invariant holds always.
LEMMA InvHolds == Spec => []Inv
  BY InitInv, NextPreservesInv, PTL DEF Spec

\* kmalloc.c: between calls and between the turns of the loops the list tiles the
\* heap, for every size of the heap and every sequence of calls.
THEOREM ListTilesHeap == Spec => []Tiling
<1>1. Inv => Tiling
  BY DEF Inv, HeapInv
<1> QED BY <1>1, InvHolds, PTL

\* kfree: outside its loop no two neighbours are both free.
THEOREM NeighboursAreJoined == Spec => []Coalesced
<1>1. Inv => Coalesced
  BY DEF Inv, BehindPtr, Separated, Coalesced
<1> QED BY <1>1, InvHolds, PTL

\* kmalloc: the search has passed no block that would do, so it returns NULL only
\* if there is none.
THEOREM SearchSkipsNothing == Spec => []FailsOnlyWhenFull
<1>1. Inv => FailsOnlyWhenFull
  BY DEF Inv, BehindPtr, Passed, FailsOnlyWhenFull
<1> QED BY <1>1, InvHolds, PTL

\* kmalloc: if no request is so large that ALIGN8 overflows, every caller gets at
\* least what it asked for.  (The run about ALIGN8 shows that the hypothesis is
\* needed.)
THEOREM RequestsAreCovered ==
  ASSUME \A n \in Requests : n + 7 < SizeMod
  PROVE  Spec => []RequestCovered
<1>1. Inv => RequestCovered
  <2> SUFFICES ASSUME Inv, NEW a \in Offsets, held[a] # NotHeld PROVE size[a] >= held[a]
    BY DEF RequestCovered
  <2>1. held[a] \in Requests /\ Covers(size[a], held[a])
    BY DEF Inv, HeapInv, TypeOK
  <2>2. held[a] \in Int /\ size[a] \in Int
    <3>1. held[a] \in 0 .. SizeMod - 1
      BY <2>1, KmallocAssumption, ZenonT(30)
    <3>2. size[a] \in 0 .. HeapSize
      BY DEF Inv, HeapInv, TypeOK
    <3> QED BY <3>1, <3>2
  <2> QED BY <2>1, <2>2 DEF Covers
<1> QED BY <1>1, InvHolds, PTL

\* A step that changes what is held, or the header of a held block, is the kfree
\* of that block.
THEOREM HeldBlocksStay == Spec => HeldUntouched
<1> DEFINE Kept(a) == held[a] # NotHeld /\ held'[a] # NotHeld
                       => held'[a] = held[a] /\ size'[a] = size[a] /\ a \in blocks' /\ ~free'[a]
<1>1. ASSUME Inv, Inv', [Next]_kmallocVars, NEW a \in Offsets PROVE Kept(a)
  <2> SUFFICES ASSUME held[a] # NotHeld, held'[a] # NotHeld
               PROVE  held'[a] = held[a] /\ size'[a] = size[a]
    BY <1>1, ZenonT(30) DEF Inv, HeapInv
  <2>1. a \in blocks /\ ~free[a] /\ TypeOK /\ Tiling
    BY <1>1 DEF Inv, HeapInv
  <2>2. CASE UNCHANGED <<held, size>>
    BY <2>2
  <2>3. CASE \E b \in Offsets : kfree(b)
    BY <2>1, <2>3 DEF kfree, TypeOK
  <2>4. CASE take_whole
    <3>1. a # ptr
      BY <2>1, <2>4 DEF take_whole, Fits
    <3> QED BY <2>1, <2>4, <3>1 DEF take_whole, TypeOK
  <2>5. CASE take_split
    <3> PICK split : split = ptr + HeaderSize + need
      OBVIOUS
    <3>1. ptr \in blocks /\ free[ptr] /\ size[ptr] >= need /\ ptr # a
      BY <1>1, <2>1, <2>5 DEF Inv, HeapInv, take_split, Fits
    <3>2. split # a
      <4>1. blocks' = blocks \cup {split} /\ ~free'[a] /\ free' = [free EXCEPT ![split] = TRUE, ![ptr] = FALSE]
        BY <1>1, <2>5, ZenonT(30) DEF Inv, HeapInv, take_split
      <4>2. DOMAIN free = Offsets
        BY <2>1 DEF TypeOK
      <4> QED BY <3>1, <4>1, <4>2
    <3>3. held' = [held EXCEPT ![ptr] = want]
          /\ size' = [size EXCEPT ![split] = size[ptr] - need - HeaderSize, ![ptr] = need]
      BY <2>5 DEF take_split
    <3> QED BY <2>1, <3>1, <3>2, <3>3 DEF TypeOK
  <2>6. CASE coalesce_merge
    <3>1. a # ptr /\ a # next[ptr]
      BY <2>1, <2>6 DEF coalesce_merge, Merges
    <3> QED BY <2>1, <2>6, <3>1 DEF coalesce_merge, TypeOK
  <2> QED BY <1>1, <2>2, <2>3, <2>4, <2>5, <2>6 DEF Next, InCall, kmallocVars, kmalloc,
             call_ignored, search_next, search_fails, coalesce_next, coalesce_ends
<1>2. Inv /\ Inv' /\ [Next]_kmallocVars => [\A a \in Offsets : Kept(a)]_kmallocVars
  BY <1>1
<1>3. Inv /\ Inv' /\ [Next]_kmallocVars =>
        [\A a \in Offsets : held[a] # NotHeld /\ held'[a] # NotHeld
           => held'[a] = held[a] /\ size'[a] = size[a] /\ a \in blocks' /\ ~free'[a]]_kmallocVars
  BY <1>2
<1> QED BY <1>3, InvHolds, PTL DEF Spec, HeldUntouched

\* The variables keep their types: no address or size leaves the heap.
THEOREM TypeCorrect == Spec => []TypeOK
<1>1. Inv => TypeOK
  BY DEF Inv, HeapInv
<1> QED BY <1>1, InvHolds, PTL
==============================================================================
