------------------------------- MODULE Kmalloc -------------------------------
(***************************************************************************)
(* The kernel heap (kernel/mm/kmalloc.c): a singly linked list of blocks,  *)
(* first fit with splitting in kmalloc, coalescing of the whole list in    *)
(* kfree.  Addresses are byte offsets from __heap_start.  Each turn of a   *)
(* loop is a step, so the list is seen between the turns and between the   *)
(* calls, but not between the stores of one turn.                          *)
(***************************************************************************)
EXTENDS Integers

CONSTANTS
  HeapSize,      \* HEAP_SIZE
  HeaderSize,    \* HEADER_SIZE, sizeof(block_t) rounded up to 8
  SizeMod,       \* 2^32: a size_t is a number modulo SizeMod
  Requests       \* the sizes callers ask for

ASSUME KmallocAssumption ==
  /\ HeaderSize \in Nat \ {0} /\ HeaderSize % 8 = 0
  /\ HeapSize \in Nat /\ HeapSize % 8 = 0 /\ HeapSize >= HeaderSize
  /\ SizeMod \in Nat /\ SizeMod % 8 = 0 /\ SizeMod > HeapSize + HeaderSize + 8
  /\ Requests \subseteq 0 .. SizeMod - 1

NULL    == -1
Offsets == 0 .. HeapSize - 1
head    == 0

VARIABLES
  size, free, next,   \* the fields of the block header at each address
  blocks,             \* auxiliary: the addresses of the headers in the list
  held,               \* auxiliary: block -> size asked for, for allocated blocks
  pc,                 \* "idle", "search" (loop of kmalloc), "coalesce" (of kfree)
  ptr,                \* the loop variable
  want, need          \* kmalloc's argument, before and after ALIGN8

kmallocVars == <<size, free, next, blocks, held, pc, ptr, want, need>>

\* NotHeld marks an address where no caller holds a block.
NotHeld == -1

TypeOK ==
  /\ size \in [Offsets -> 0 .. HeapSize]
  /\ free \in [Offsets -> BOOLEAN]
  /\ next \in [Offsets -> Offsets \cup {NULL}]
  /\ blocks \subseteq Offsets
  /\ held \in [Offsets -> Requests \cup {NotHeld}]
  /\ pc \in {"idle", "search", "coalesce"}
  /\ ptr \in Offsets \cup {NULL}
  /\ want \in 0 .. SizeMod - 1
  /\ need \in 0 .. SizeMod - 1

\* kmalloc_init; what memory holds outside the first header does not matter.
Init ==
  /\ size = [a \in Offsets |-> IF a = head THEN HeapSize - HeaderSize ELSE 0]
  /\ free = [a \in Offsets |-> a = head]
  /\ next = [a \in Offsets |-> NULL]
  /\ blocks = {head}
  /\ held = [a \in Offsets |-> NotHeld]
  /\ pc = "idle" /\ ptr = NULL /\ want = 0 /\ need = 0

-----------------------------------------------------------------------------
MutAlignNot(n) == n
MutAlignDown(n) == (n \div 8) * 8
ALIGN8(n) == (((n + 7) % SizeMod) \div 8) * 8

kmalloc(n) ==
  /\ pc = "idle"
  /\ n # 0
  /\ pc' = "search" /\ ptr' = head /\ want' = n /\ need' = ALIGN8(n)
  /\ UNCHANGED <<size, free, next, blocks, held>>

\* kmalloc(0) and kfree(NULL) return at once.
call_ignored ==
  /\ pc = "idle"
  /\ UNCHANGED kmallocVars

MutFitsStrict(b) == free[b] /\ size[b] > need
Fits(b) == free[b] /\ size[b] >= need

MutSplits(b) == size[b] >= need + HeaderSize - 8
Splits(b) == size[b] >= (need + HeaderSize + 8) % SizeMod

MutSearchStuck ==
  /\ pc = "search" /\ ptr # NULL
  /\ ~Fits(ptr)
  /\ ptr' = IF free[ptr] THEN next[ptr] ELSE ptr
  /\ UNCHANGED <<size, free, next, blocks, held, pc, want, need>>
search_next ==
  /\ pc = "search" /\ ptr # NULL
  /\ ~Fits(ptr)
  /\ ptr' = next[ptr]
  /\ UNCHANGED <<size, free, next, blocks, held, pc, want, need>>

\* The loop ends and NULL is returned.
search_fails ==
  /\ pc = "search" /\ ptr = NULL
  /\ pc' = "idle" /\ want' = 0 /\ need' = 0
  /\ UNCHANGED <<size, free, next, blocks, held, ptr>>

\* The stores of a split are one step: before the last one the list does not tile.
take_split ==
  /\ pc = "search" /\ ptr # NULL
  /\ Fits(ptr) /\ Splits(ptr)
  /\ LET split == ptr + HeaderSize + need IN
     /\ size' = [size EXCEPT ![split] = size[ptr] - need - HeaderSize, ![ptr] = need]
     /\ free' = [free EXCEPT ![split] = TRUE, ![ptr] = FALSE]
     /\ next' = [next EXCEPT ![split] = next[ptr], ![ptr] = split]
     /\ blocks' = blocks \cup {split}
  /\ held' = [held EXCEPT ![ptr] = want]
  /\ pc' = "idle" /\ ptr' = NULL /\ want' = 0 /\ need' = 0

take_whole ==
  /\ pc = "search" /\ ptr # NULL
  /\ Fits(ptr) /\ ~Splits(ptr)
  /\ free' = [free EXCEPT ![ptr] = FALSE]
  /\ held' = [held EXCEPT ![ptr] = want]
  /\ pc' = "idle" /\ ptr' = NULL /\ want' = 0 /\ need' = 0
  /\ UNCHANGED <<size, next, blocks>>

\* Callers free what they hold: kfree((uint8_t*) b + HEADER_SIZE).
kfree(b) ==
  /\ pc = "idle" /\ held[b] # NotHeld
  /\ free' = [free EXCEPT ![b] = TRUE]
  /\ held' = [held EXCEPT ![b] = NotHeld]
  /\ pc' = "coalesce" /\ ptr' = head
  /\ UNCHANGED <<size, next, blocks, want, need>>

MutMergesAlways(b) == free[b] /\ next[b] # NULL
MutMergesNever(b) == FALSE
Merges(b) == free[b] /\ next[b] # NULL /\ free[next[b]]

\* The body of the inner loop, its two stores in one step.  The header that leaves
\* the list is payload from now on, so its fields are forgotten.
coalesce_merge ==
  /\ pc = "coalesce" /\ ptr # NULL
  /\ Merges(ptr)
  /\ LET gone == next[ptr] IN
     /\ size' = [size EXCEPT ![ptr] = @ + HeaderSize + size[gone], ![gone] = 0]
     /\ next' = [next EXCEPT ![ptr] = next[gone], ![gone] = NULL]
     /\ free' = [free EXCEPT ![gone] = FALSE]
     /\ blocks' = blocks \ {gone}
  /\ UNCHANGED <<held, pc, ptr, want, need>>

coalesce_next ==
  /\ pc = "coalesce" /\ ptr # NULL
  /\ ~Merges(ptr)
  /\ ptr' = next[ptr]
  /\ UNCHANGED <<size, free, next, blocks, held, pc, want, need>>

coalesce_ends ==
  /\ pc = "coalesce" /\ ptr = NULL
  /\ pc' = "idle"
  /\ UNCHANGED <<size, free, next, blocks, held, ptr, want, need>>

InCall ==
  \/ search_next \/ search_fails \/ take_split \/ take_whole
  \/ coalesce_merge \/ coalesce_next \/ coalesce_ends

Next ==
  \/ \E n \in Requests : kmalloc(n)
  \/ call_ignored
  \/ \E b \in Offsets : kfree(b)
  \/ InCall

Spec == Init /\ [][Next]_kmallocVars

\* A call that has begun goes on: it waits for nothing.
FairSpec == Spec /\ WF_kmallocVars(InCall)

-----------------------------------------------------------------------------
(***************************************************************************)
(* Properties.                                                             *)
(***************************************************************************)
End(b) == b + HeaderSize + size[b]

\* Between any two calls, and between any two turns of the search and of the
\* coalescing loops, the list tiles the heap: each block ends where the next one
\* begins, the last ends with the heap, and every header is 8-aligned.
Tiling ==
  /\ head \in blocks
  /\ \A b \in blocks :
       /\ b % 8 = 0 /\ size[b] % 8 = 0
       /\ \/ next[b] = NULL /\ End(b) = HeapSize
          \/ next[b] \in blocks /\ next[b] = End(b)
  /\ \A b, c \in blocks : b < c => End(b) <= c

\* kmalloc.h: what kmalloc returns is as large as the caller asked.
RequestCovered == \A a \in Offsets : held[a] # NotHeld => size[a] >= held[a]

\* Between calls no two neighbours are both free: one kfree undoes all the
\* fragmentation it can.
Coalesced ==
  pc # "coalesce" =>
    \A b \in blocks : free[b] /\ next[b] # NULL => ~free[next[b]]

\* kmalloc returns NULL only if no free block is large enough: the search skips
\* none.
FailsOnlyWhenFull ==
  pc = "search" =>
    \A b \in blocks : (ptr = NULL \/ b < ptr) => ~(free[b] /\ size[b] >= need)

\* No step moves, shrinks or frees a block somebody holds, except kfree of it.
HeldUntouched ==
  [][\A a \in Offsets : held[a] # NotHeld /\ held'[a] # NotHeld
       => held'[a] = held[a] /\ size'[a] = size[a] /\ a \in blocks' /\ ~free'[a]]_kmallocVars

\* Every call returns: neither loop runs around a cycle of next pointers.
CallsReturn == pc # "idle" ~> pc = "idle"
==============================================================================
