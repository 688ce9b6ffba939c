------------------------------ MODULE Physical ------------------------------
(***************************************************************************)
(* The physical page allocator (kernel/mm/physical.c): a bitmap with one   *)
(* bit per page and a counter of free pages.                               *)
(*                                                                         *)
(* A word of pageBitMap is the set of the bits that are 1 in it.           *)
(* Addresses are bytes, so that unaligned and out-of-range arguments of    *)
(* physical_free_page exist.                                               *)
(***************************************************************************)
EXTENDS Integers, FiniteSets

CONSTANTS
  PageSize,        \* PAGE_SIZE
  WordBits,        \* 32
  PageCount,       \* PHYSICAL_PAGE_COUNT
  LowPages,        \* 256: the pages below 1 MiB
  KernelStart, KernelEnd,  \* __kernel_start, __kernel_end
  HeapStart, HeapEnd,      \* __heap_start, __heap_end
  StackStart, StackEnd     \* 0x98000, 0xA0000

\* The linker script puts the kernel and its stack below 1 MiB.
ASSUME PhysicalAssumption ==
  /\ PageSize \in Nat \ {0} /\ WordBits \in Nat \ {0}
  /\ PageCount \in Nat /\ LowPages \in Nat \ {0} /\ LowPages <= PageCount
  /\ {KernelStart, KernelEnd, StackStart, StackEnd} \subseteq 0 .. LowPages * PageSize
  /\ {HeapStart, HeapEnd} \subseteq Nat

Pages     == 0 .. PageCount - 1
WordCount == (PageCount + WordBits - 1) \div WordBits      \* BITMAP_WORD_COUNT
Words     == 0 .. WordCount - 1
Bits      == 0 .. WordBits - 1
BitMaps   == [Words -> SUBSET Bits]

VARIABLES
  pageBitMap,
  freePages,
  owned        \* auxiliary: the pages handed out and not freed since

physicalVars == <<pageBitMap, freePages, owned>>

-----------------------------------------------------------------------------
mark_used(map, page) == [map EXCEPT ![page \div WordBits] = @ \cup {page % WordBits}]

MutMarkFreeWord(map, page) == [map EXCEPT ![page \div WordBits] = {}]
mark_free(map, page) == [map EXCEPT ![page \div WordBits] = @ \ {page % WordBits}]

is_used(map, page) == page % WordBits \in map[page \div WordBits]

(***************************************************************************)
(* reserve_range, as a function of the bitmap and the counter: the start   *)
(* is rounded down and the end up, and a page counts once.                 *)
(***************************************************************************)
MutRangeDown(start, end) ==
  {p \in Pages : start \div PageSize <= p /\ p < end \div PageSize}
RangePages(start, end) ==
  {p \in Pages : start \div PageSize <= p /\ p < (end + PageSize - 1) \div PageSize}

reserve_range(st, start, end) ==
  LET fresh == {p \in RangePages(start, end) : ~is_used(st.map, p)} IN
  [map  |-> [w \in Words |-> st.map[w] \cup
               {p % WordBits : p \in {q \in fresh : q \div WordBits = w}}],
   free |-> st.free - Cardinality(fresh)]

\* physical_init.  The bits behind the last page stay 1.
Init ==
  LET all  == [map  |-> [w \in Words |-> {b \in Bits : w * WordBits + b \notin Pages}],
               free |-> PageCount]
      zero == reserve_range(all, 0, PageSize)
      low  == reserve_range(zero, 0, LowPages * PageSize)
      kern == reserve_range(low, KernelStart, KernelEnd)
      heap == reserve_range(kern, HeapStart, HeapEnd)
      done == reserve_range(heap, StackStart, StackEnd)
  IN /\ pageBitMap = done.map
     /\ freePages = done.free
     /\ owned = {}

-----------------------------------------------------------------------------
\* The page physical_alloc_page takes: the first free one above low memory.
FirstFreePage(page) ==
  /\ page \in LowPages .. PageCount - 1
  /\ ~is_used(pageBitMap, page)
  /\ \A p \in LowPages .. page - 1 : is_used(pageBitMap, p)

physical_alloc_page(page) ==
  /\ FirstFreePage(page)
  /\ pageBitMap' = mark_used(pageBitMap, page)
  /\ freePages' = freePages - 1
  /\ owned' = owned \cup {page}

\* No page is free: 0 is returned.
physical_alloc_fails ==
  /\ \A page \in LowPages .. PageCount - 1 : is_used(pageBitMap, page)
  /\ UNCHANGED physicalVars

\* The checks of physical_free_page.
MutFreeAccepted(address) ==
  /\ address % PageSize = 0
  /\ address \div PageSize < PageCount
  /\ address >= LowPages * PageSize
FreeAccepted(address) ==
  /\ address % PageSize = 0
  /\ address \div PageSize < PageCount
  /\ address >= LowPages * PageSize
  /\ is_used(pageBitMap, address \div PageSize)

physical_free_page(address) ==
  /\ FreeAccepted(address)
  /\ pageBitMap' = mark_free(pageBitMap, address \div PageSize)
  /\ freePages' = freePages + 1
  /\ owned' = owned \ {address \div PageSize}

\* An address that is refused is ignored.
physical_free_ignored(address) ==
  /\ ~FreeAccepted(address)
  /\ UNCHANGED physicalVars

HeapPages == {p \in Pages : p * PageSize < HeapEnd /\ HeapStart < (p + 1) * PageSize}

\* What callers pass to physical_free_page: anything, up to one page behind the
\* end of memory, but for the pages of the heap and those of other callers.
FreeArguments(others) ==
  0 .. (PageCount + 1) * PageSize - 1 \ {p * PageSize : p \in HeapPages \cup others}

Next ==
  \/ \E page \in Pages : physical_alloc_page(page)
  \/ physical_alloc_fails
  \/ \E address \in FreeArguments({}) : physical_free_page(address) \/ physical_free_ignored(address)

Spec == Init /\ [][Next]_physicalVars

-----------------------------------------------------------------------------
(***************************************************************************)
(* Properties.                                                             *)
(***************************************************************************)
TypeOK ==
  /\ pageBitMap \in BitMaps
  /\ freePages \in 0 .. PageCount
  /\ owned \subseteq Pages

FreeSet  == {p \in Pages : ~is_used(pageBitMap, p)}
Reserved == {p \in Pages : p < LowPages} \cup HeapPages

\* freePages is the number of pages whose bit is 0, although callers pass to
\* physical_free_page what is unaligned, out of range, low, or free already.
CounterExact == freePages = Cardinality(FreeSet)

\* Every page is reserved, owned by one caller, or free: the heap and the kernel are
\* never handed out, no page is handed out twice, and none is lost.
Partition ==
  /\ FreeSet = Pages \ (Reserved \cup owned)
  /\ owned \cap Reserved = {}
==============================================================================
