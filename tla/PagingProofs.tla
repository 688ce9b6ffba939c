----------------------------- MODULE PagingProofs -----------------------------
(***************************************************************************)
(* Proofs about Physical for every size of pages, bitmap words and memory, *)
(* and wherever the linker puts the kernel, the heap and the stack, and    *)
(* about Paging for every size of the directory and the tables as well.    *)
(* Paging and the other callers of the page allocator do nothing to it     *)
(* that Physical does not, so what the first part shows holds in the       *)
(* second too; from that follows who owns the pages of the page tables.    *)
(***************************************************************************)
EXTENDS Paging, FiniteSetTheorems, TLAPS

\* A step is for the SMT solver unless it names another prover.
USE SMTT(60)

-----------------------------------------------------------------------------
(***************************************************************************)
(* PART 1.  Physical.                                                      *)
(***************************************************************************)
-----------------------------------------------------------------------------
(***************************************************************************)
(* Rounding.                                                               *)
(***************************************************************************)
\* A page is found in the bitmap by its word and its bit in it.
LEMMA WordAndBit ==
  ASSUME NEW p \in Pages
  PROVE  /\ p \div WordBits \in Words /\ p % WordBits \in Bits
         /\ (p \div WordBits) * WordBits + (p % WordBits) = p
<1>1. p \in Int /\ 0 <= p /\ p < PageCount /\ PageCount \in Nat /\ WordBits \in Nat \ {0}
  BY PhysicalAssumption DEF Pages
<1>2. p % WordBits \in Bits
  BY <1>1 DEF Bits
<1>3. (p \div WordBits) * WordBits + (p % WordBits) = p
  BY <1>1
<1>4. 0 <= p \div WordBits /\ p \div WordBits \in Int
  BY <1>1
<1>5. p \div WordBits < (PageCount + WordBits - 1) \div WordBits
  BY <1>1
<1>6. p \div WordBits \in Words
  BY <1>1, <1>4, <1>5 DEF Words, WordCount
<1> QED BY <1>2, <1>3, <1>6

\* No two pages have the same word and bit.
LEMMA DifferentBits ==
  ASSUME NEW p \in Pages, NEW q \in Pages,
         p \div WordBits = q \div WordBits, p % WordBits = q % WordBits
  PROVE  p = q
<1>1. p \in Int /\ q \in Int /\ WordBits \in Nat \ {0}
  BY PhysicalAssumption DEF Pages
<1> QED BY <1>1

\* The start of a range is rounded down ...
LEMMA RoundDown ==
  ASSUME NEW n \in Nat \ {0}, NEW a \in Int, NEW p \in Int
  PROVE  a \div n <= p <=> a < (p + 1) * n
  OBVIOUS

\* ... and its end up.
LEMMA RoundUp ==
  ASSUME NEW n \in Nat \ {0}, NEW a \in Int, NEW p \in Int
  PROVE  p < (a + n - 1) \div n <=> p * n < a
  OBVIOUS

\* So a range covers the pages that have a byte in it.
LEMMA RangeMeaning ==
  ASSUME NEW a \in Int, NEW b \in Int
  PROVE  RangePages(a, b) = {p \in Pages : p * PageSize < b /\ a < (p + 1) * PageSize}
<1>1. ASSUME NEW p \in Pages
      PROVE  /\ a \div PageSize <= p <=> a < (p + 1) * PageSize
             /\ p < (b + PageSize - 1) \div PageSize <=> p * PageSize < b
  BY RoundDown, RoundUp, PhysicalAssumption DEF Pages
<1> QED BY <1>1 DEF RangePages

-----------------------------------------------------------------------------
(***************************************************************************)
(* Bits.                                                                   *)
(***************************************************************************)
Free(map) == {p \in Pages : ~is_used(map, p)}

\* mark_used changes the bit of its page only.
LEMMA MarkUsed ==
  ASSUME NEW map \in BitMaps, NEW page \in Pages
  PROVE  mark_used(map, page) \in BitMaps /\ Free(mark_used(map, page)) = Free(map) \ {page}
<1>1. page \div WordBits \in Words /\ page % WordBits \in Bits
  BY WordAndBit
<1>2. mark_used(map, page) \in BitMaps
  BY <1>1, ZenonT(30) DEF BitMaps, mark_used
<1>3. ASSUME NEW p \in Pages
      PROVE  is_used(mark_used(map, page), p) <=> is_used(map, p) \/ p = page
  <2>1. p \div WordBits \in Words
    BY WordAndBit
  <2>2. CASE p \div WordBits = page \div WordBits
    BY <1>1, <2>1, <2>2, DifferentBits DEF BitMaps, mark_used, is_used
  <2>3. CASE p \div WordBits # page \div WordBits
    BY <1>1, <2>1, <2>3 DEF BitMaps, mark_used, is_used
  <2> QED BY <2>2, <2>3
<1> QED BY <1>2, <1>3 DEF Free

\* So does mark_free.
LEMMA MarkFree ==
  ASSUME NEW map \in BitMaps, NEW page \in Pages
  PROVE  mark_free(map, page) \in BitMaps /\ Free(mark_free(map, page)) = Free(map) \cup {page}
<1>1. page \div WordBits \in Words /\ page % WordBits \in Bits
  BY WordAndBit
<1>2. mark_free(map, page) \in BitMaps
  BY <1>1 DEF BitMaps, mark_free
<1>3. ASSUME NEW p \in Pages
      PROVE  is_used(mark_free(map, page), p) <=> is_used(map, p) /\ p # page
  <2>1. p \div WordBits \in Words
    BY WordAndBit
  <2>2. CASE p \div WordBits = page \div WordBits
    BY <1>1, <2>1, <2>2, DifferentBits DEF BitMaps, mark_free, is_used
  <2>3. CASE p \div WordBits # page \div WordBits
    BY <1>1, <2>1, <2>3 DEF BitMaps, mark_free, is_used
  <2> QED BY <2>2, <2>3
<1> QED BY <1>2, <1>3 DEF Free

\* The pages are finitely many, and so are the free ones.
LEMMA FreeFinite ==
  ASSUME NEW map
  PROVE  IsFiniteSet(Free(map)) /\ IsFiniteSet(Pages) /\ Cardinality(Free(map)) \in Nat
<1>1. IsFiniteSet(Pages)
  BY FS_Interval, PhysicalAssumption DEF Pages
<1>2. Free(map) \subseteq Pages
  BY DEF Free
<1>3. IsFiniteSet(Free(map))
  BY <1>1, <1>2, FS_Subset
<1> QED BY <1>1, <1>3, FS_CardinalityType

-----------------------------------------------------------------------------
(***************************************************************************)
(* reserve_range and physical_init.                                        *)
(***************************************************************************)
\* A bitmap and a counter for the free pages F.
Records(st, F) ==
  /\ st.map \in BitMaps
  /\ Free(st.map) = F
  /\ st.free = Cardinality(F)

\* reserve_range takes the pages of the range, and counts each of them once.
LEMMA ReserveRange ==
  ASSUME NEW st, NEW F, Records(st, F), NEW start, NEW end
  PROVE  Records(reserve_range(st, start, end), F \ RangePages(start, end))
<1> DEFINE fresh == {p \in RangePages(start, end) : ~is_used(st.map, p)}
           bits(w) == {p % WordBits : p \in {q \in fresh : q \div WordBits = w}}
           map == [w \in Words |-> st.map[w] \cup bits(w)]
           r == reserve_range(st, start, end)
<1>1. r.map = map /\ r.free = st.free - Cardinality(fresh)
  BY ZenonT(30) DEF reserve_range
<1>2. fresh = F \cap RangePages(start, end) /\ fresh \subseteq Pages
  BY DEF Records, Free, RangePages
<1> HIDE DEF fresh, r
<1>3. map \in BitMaps
  <2>1. \A w \in Words : bits(w) \subseteq Bits
    BY <1>2, WordAndBit
  <2> QED BY <2>1 DEF Records, BitMaps
<1>4. ASSUME NEW p \in Pages
      PROVE  is_used(map, p) <=> is_used(st.map, p) \/ p \in fresh
  <2>1. p \div WordBits \in Words
    BY WordAndBit
  <2>2. is_used(map, p) <=> is_used(st.map, p) \/ p % WordBits \in bits(p \div WordBits)
    BY <2>1 DEF is_used
  <2>3. p % WordBits \in bits(p \div WordBits) <=> p \in fresh
    BY <1>2, DifferentBits
  <2> QED BY <2>2, <2>3
<1>5. Free(map) = F \ RangePages(start, end)
  BY <1>2, <1>4 DEF Records, Free
<1>6. Cardinality(F \ RangePages(start, end)) = Cardinality(F) - Cardinality(fresh)
  <2>1. IsFiniteSet(F)
    BY FreeFinite DEF Records
  <2> QED BY <1>2, <2>1, FS_Difference, ZenonT(30)
<1> HIDE DEF map
<1>7. Records(r, F \ RangePages(start, end))
  BY <1>1, <1>3, <1>5, <1>6 DEF Records
<1> QED BY <1>7 DEF r

\* The kernel and its stack lie in low memory, the heap where HeapPages says.
LEMMA ReservedRanges ==
  /\ RangePages(0, LowPages * PageSize) = {p \in Pages : p < LowPages}
  /\ RangePages(0, PageSize) \subseteq {p \in Pages : p < LowPages}
  /\ RangePages(KernelStart, KernelEnd) \subseteq {p \in Pages : p < LowPages}
  /\ RangePages(StackStart, StackEnd) \subseteq {p \in Pages : p < LowPages}
  /\ RangePages(HeapStart, HeapEnd) = HeapPages
<1>1. /\ PageSize \in Nat \ {0} /\ LowPages \in Nat \ {0} /\ LowPages * PageSize \in Nat
      /\ {KernelStart, KernelEnd, StackStart, StackEnd} \subseteq 0 .. LowPages * PageSize
      /\ HeapStart \in Nat /\ HeapEnd \in Nat
  BY PhysicalAssumption
<1>2. ASSUME NEW a \in Int, NEW b \in Int, b <= LowPages * PageSize, NEW p \in RangePages(a, b)
      PROVE  p < LowPages
  <2>1. p \in Int /\ p * PageSize < b
    BY <1>2, RangeMeaning DEF Pages
  <2> QED BY <1>1, <1>2, <2>1
<1>3. ASSUME NEW p \in Pages, p < LowPages PROVE p \in RangePages(0, LowPages * PageSize)
  <2>1. p * PageSize < LowPages * PageSize /\ 0 < (p + 1) * PageSize
    BY <1>1, <1>3 DEF Pages
  <2> QED BY <1>1, <2>1, RangeMeaning
<1>4. \A a \in Int, b \in Int : RangePages(a, b) \subseteq Pages
  BY ZenonT(30) DEF RangePages
<1>5. RangePages(0, LowPages * PageSize) = {p \in Pages : p < LowPages}
  BY <1>1, <1>2, <1>3, <1>4
<1>6. RangePages(0, PageSize) \subseteq {p \in Pages : p < LowPages}
  <2>1. PageSize <= LowPages * PageSize
    BY <1>1
  <2> QED BY <1>1, <1>2, <1>4, <2>1
<1>7. /\ RangePages(KernelStart, KernelEnd) \subseteq {p \in Pages : p < LowPages}
      /\ RangePages(StackStart, StackEnd) \subseteq {p \in Pages : p < LowPages}
  BY <1>1, <1>2, <1>4
<1>8. RangePages(HeapStart, HeapEnd) = HeapPages
  BY <1>1, RangeMeaning DEF HeapPages
<1> QED BY <1>5, <1>6, <1>7, <1>8

-----------------------------------------------------------------------------
(***************************************************************************)
(* The invariant.  It is inductive as it stands: TypeOK only adds that the *)
(* counter is not out of range, which follows.                             *)
(***************************************************************************)
Inv ==
  /\ pageBitMap \in BitMaps
  /\ owned \subseteq Pages
  /\ CounterExact
  /\ Partition

\* The names for the free pages.
LEMMA FreeSetIsFree == FreeSet = Free(pageBitMap)
  BY DEF FreeSet, Free

\* physical_init leaves the pages free that are neither low nor of the heap.
LEMMA InitInv == Init => Inv
<1> SUFFICES ASSUME Init PROVE Inv
  OBVIOUS
<1> DEFINE all  == [map  |-> [w \in Words |-> {b \in Bits : w * WordBits + b \notin Pages}],
                    free |-> PageCount]
           zero == reserve_range(all, 0, PageSize)
           low  == reserve_range(zero, 0, LowPages * PageSize)
           kern == reserve_range(low, KernelStart, KernelEnd)
           heap == reserve_range(kern, HeapStart, HeapEnd)
           done == reserve_range(heap, StackStart, StackEnd)
<1>1. pageBitMap = done.map /\ freePages = done.free /\ owned = {}
  BY DEF Init
<1>2. Records(all, Pages)
  <2>1. all.map \in BitMaps
    BY DEF BitMaps
  <2>2. ASSUME NEW p \in Pages PROVE ~is_used(all.map, p)
    BY WordAndBit DEF is_used
  <2>3. Free(all.map) = Pages
    BY <2>2 DEF Free
  <2>4. Cardinality(Pages) = PageCount
    BY FS_Interval, PhysicalAssumption DEF Pages
  <2> QED BY <2>1, <2>3, <2>4 DEF Records
<1> DEFINE R(a, b) == RangePages(a, b)
           f1 == Pages \ R(0, PageSize)
           f2 == f1 \ R(0, LowPages * PageSize)
           f3 == f2 \ R(KernelStart, KernelEnd)
           f4 == f3 \ R(HeapStart, HeapEnd)
           f5 == f4 \ R(StackStart, StackEnd)
<1> HIDE DEF all
<1>3. Records(zero, f1)
  BY <1>2, ReserveRange
<1> HIDE DEF zero
<1>4. Records(low, f2)
  BY <1>3, ReserveRange
<1> HIDE DEF low
<1>5. Records(kern, f3)
  BY <1>4, ReserveRange
<1> HIDE DEF kern
<1>6. Records(heap, f4)
  BY <1>5, ReserveRange
<1> HIDE DEF heap
<1>7. Records(done, f5)
  BY <1>6, ReserveRange
<1> HIDE DEF done
<1>8. f5 = Pages \ Reserved
  BY ReservedRanges DEF Reserved
<1> HIDE DEF f5
<1>9. pageBitMap \in BitMaps /\ FreeSet = f5 /\ freePages = Cardinality(f5)
  BY <1>1, <1>7, FreeSetIsFree DEF Records
<1> QED BY <1>1, <1>8, <1>9 DEF Inv, CounterExact, Partition

\* physical_alloc_page takes a free page, so one that is neither reserved nor owned.
LEMMA AllocPreservesInv ==
  ASSUME Inv, NEW page \in Pages, physical_alloc_page(page)
  PROVE  Inv'
<1>1. page \in FreeSet
  BY DEF physical_alloc_page, FirstFreePage, FreeSet
<1>2. pageBitMap' \in BitMaps /\ FreeSet' = FreeSet \ {page}
  BY MarkUsed DEF Inv, physical_alloc_page, FreeSet, Free
<1>3. Cardinality(FreeSet \ {page}) = Cardinality(FreeSet) - 1
  BY <1>1, FreeFinite, FreeSetIsFree, FS_RemoveElement, ZenonT(30)
<1>4. CounterExact'
  BY <1>2, <1>3 DEF Inv, CounterExact, physical_alloc_page
<1>5. owned' = owned \cup {page}
  BY DEF physical_alloc_page
<1>6. Partition'
  BY <1>1, <1>2, <1>5 DEF Inv, Partition, Reserved, HeapPages
<1> QED BY <1>2, <1>4, <1>5, <1>6 DEF Inv

\* physical_free_page frees a page that was owned.
LEMMA FreePreservesInv ==
  ASSUME Inv, NEW address \in FreeArguments({}), physical_free_page(address)
  PROVE  Inv'
<1> DEFINE page == address \div PageSize
<1>1. /\ PageSize \in Nat \ {0} /\ PageCount \in Nat /\ LowPages \in Nat
      /\ address \in Nat /\ address % PageSize = 0 /\ address >= LowPages * PageSize
      /\ page < PageCount /\ is_used(pageBitMap, page)
  BY PhysicalAssumption DEF FreeArguments, physical_free_page, FreeAccepted
<1>2. address = page * PageSize
  BY <1>1
<1>3. page \in Int /\ LowPages <= page
  BY <1>1
<1>4. page \in Pages
  BY <1>1, <1>3 DEF Pages
<1>5. page \notin HeapPages
  BY <1>2, <1>4 DEF FreeArguments
<1> HIDE DEF page
<1>6. page \notin FreeSet /\ page \notin Reserved
  BY <1>1, <1>3, <1>4, <1>5 DEF FreeSet, Reserved
<1>7. /\ pageBitMap' = mark_free(pageBitMap, page) /\ freePages' = freePages + 1
      /\ owned' = owned \ {page}
  BY DEF physical_free_page, page
<1>8. pageBitMap' \in BitMaps /\ FreeSet' = FreeSet \cup {page}
  BY <1>4, <1>7, MarkFree DEF Inv, FreeSet, Free
<1>9. Cardinality(FreeSet \cup {page}) = Cardinality(FreeSet) + 1
  BY <1>6, FreeFinite, FreeSetIsFree, FS_AddElement, ZenonT(30)
<1>10. CounterExact'
  BY <1>7, <1>8, <1>9 DEF Inv, CounterExact
<1>11. Partition'
  BY <1>4, <1>6, <1>7, <1>8 DEF Inv, Partition, Reserved, HeapPages
<1> QED BY <1>7, <1>8, <1>10, <1>11 DEF Inv

\* Calls that fail or are refused change nothing.
LEMMA NextPreservesInv == Inv /\ [Next]_physicalVars => Inv'
<1> SUFFICES ASSUME Inv, [Next]_physicalVars PROVE Inv'
  OBVIOUS
<1>1. CASE UNCHANGED physicalVars
  BY <1>1 DEF physicalVars, Inv, CounterExact, Partition, FreeSet, Reserved, HeapPages, is_used
<1>2. ASSUME NEW page \in Pages, physical_alloc_page(page) PROVE Inv'
  BY <1>2, AllocPreservesInv
<1>3. ASSUME NEW address \in FreeArguments({}), physical_free_page(address) PROVE Inv'
  BY <1>3, FreePreservesInv
<1> QED BY <1>1, <1>2, <1>3 DEF Next, physical_alloc_fails, physical_free_ignored

\* The invariant holds always.
LEMMA InvHolds == Spec => []Inv
  BY InitInv, NextPreservesInv, PTL DEF Spec

-----------------------------------------------------------------------------
(***************************************************************************)
(* Theorems.                                                               *)
(***************************************************************************)
\* The counter is the number of free pages, whatever is passed to physical_free_page.
THEOREM CounterIsExact == Spec => []CounterExact
<1>1. Inv => CounterExact
  BY DEF Inv
<1> QED BY <1>1, InvHolds, PTL

\* Pages are reserved, owned or free, and never two of these.
THEOREM PagesArePartitioned == Spec => []Partition
<1>1. Inv => Partition
  BY DEF Inv
<1> QED BY <1>1, InvHolds, PTL

\* Neither the counter nor the bitmap is ever out of range.
THEOREM TypeCorrect == Spec => []TypeOK
<1>1. Inv => TypeOK
  <2> SUFFICES ASSUME Inv PROVE freePages \in 0 .. PageCount
    BY DEF Inv, TypeOK
  <2>1. FreeSet \subseteq Pages /\ IsFiniteSet(Pages)
    BY FreeFinite DEF FreeSet
  <2>2. Cardinality(FreeSet) <= Cardinality(Pages) /\ Cardinality(FreeSet) \in Nat
    BY <2>1, FS_Subset, FreeFinite, FreeSetIsFree
  <2>3. Cardinality(Pages) = PageCount
    BY FS_Interval, PhysicalAssumption DEF Pages
  <2> QED BY <2>2, <2>3, PhysicalAssumption DEF Inv, CounterExact
<1> QED BY <1>1, InvHolds, PTL

-----------------------------------------------------------------------------
(***************************************************************************)
(* PART 2.  Paging.                                                        *)
(***************************************************************************)
-----------------------------------------------------------------------------
(***************************************************************************)
(* The allocator under paging.                                             *)
(***************************************************************************)
\* What paging_map and its fellow callers do is what callers of physical.c do.
LEMMA PagingIsACaller ==
  ASSUME [PagingNext]_pagingVars
  PROVE  [Next]_physicalVars
<1>1. FreeArguments(DOMAIN tables) \subseteq FreeArguments({})
  BY DEF FreeArguments
<1>2. CASE UNCHANGED physicalVars
  BY <1>2
<1>3. CASE \E page \in Pages : physical_alloc_page(page)
  BY <1>3 DEF Next
<1>4. CASE client_free
  BY <1>1, <1>4 DEF client_free, Next
<1>5. ASSUME NEW v, NEW target, NEW fl, map_new_table(v, target, fl)
      PROVE  \E page \in Pages : physical_alloc_page(page)
  BY <1>5, ZenonT(30) DEF map_new_table
<1>6. client_alloc => \E page \in Pages : physical_alloc_page(page)
  BY ZenonT(30) DEF client_alloc
<1>7. ASSUME NEW v, NEW target, map_fails(v, target) \/ map_faults(v, target)
      PROVE  UNCHANGED physicalVars \/ \E page \in Pages : physical_alloc_page(page)
  <2>1. CASE map_fails(v, target)
    BY <2>1, ZenonT(30) DEF map_fails, pagingVars, physicalVars
  <2>2. CASE map_faults(v, target)
    BY <2>2, ZenonT(30) DEF map_faults
  <2> QED BY <1>7, <2>1, <2>2
<1>8. ASSUME NEW v, NEW target, NEW fl, map_in_table(v, target, fl)
      PROVE  UNCHANGED physicalVars
  BY <1>8, ZenonT(30) DEF map_in_table, physicalVars
<1>9. ASSUME NEW v, unmap_fails(v) \/ paging_unmap(v) \/ unmap_faults(v) \/ access(v)
      PROVE  UNCHANGED physicalVars
  BY <1>9, ZenonT(30) DEF unmap_fails, paging_unmap, unmap_faults, access, physicalVars, pagingVars
<1>10. refault \/ UNCHANGED pagingVars => UNCHANGED physicalVars
  BY ZenonT(30) DEF refault, pagingVars, physicalVars
<1> QED
  BY <1>2, <1>3, <1>4, <1>5, <1>6, <1>7, <1>8, <1>9, <1>10, ZenonT(30) DEF PagingNext

\* The page allocator works for paging as for any callers.
THEOREM PagingUsesPhysical == PagingSpec => Spec
<1>1. PagingInit => Init
  BY DEF PagingInit
<1>2. [PagingNext]_pagingVars => [Next]_physicalVars
  BY PagingIsACaller
<1> QED BY <1>1, <1>2, PTL DEF PagingSpec, Spec

-----------------------------------------------------------------------------
(***************************************************************************)
(* The inductive invariant.  That no two directory entries have one table  *)
(* makes a write to a table change one translation only; that the pages of *)
(* tables are owned makes a new table a page that is none yet.             *)
(***************************************************************************)
Entries == {None} \cup [page : Nat, flags : SUBSET {"W", "U"}]

TablesInv ==
  /\ pageDirectory \in [Directory -> Entries]
  /\ tables \in [DOMAIN tables -> [Table -> Entries]]
  /\ FirstTablePage \in DOMAIN tables /\ DOMAIN tables \ {FirstTablePage} \subseteq owned
  /\ \A d \in Directory : pageDirectory[d] # None => pageDirectory[d].page \in DOMAIN tables
  /\ \A d, e \in Directory :
       pageDirectory[d] # None /\ d # e => pageDirectory[d].page # pageDirectory[e].page

TlbInv == tlb \in [VirtualPages -> Entries] /\ TlbCoherent

\* Only virtual page v may be translated otherwise than before.
OnlyMoves(v) == \A u \in VirtualPages \ {v} : Walk(u)' = Walk(u)

\* The sizes, as numbers.
LEMMA PagingSizes ==
  /\ DirectoryEntries \in Nat /\ DirectoryEntries > 0 /\ TableEntries \in Nat /\ TableEntries > 0
  /\ PageSize \in Nat /\ PageSize > 0
  BY PagingAssumption, PhysicalAssumption

\* Quotients stay below the number of rows.
LEMMA Quotient ==
  \A n, m \in Nat \ {0} : \A a \in Nat : a < n * m => a \div m \in Nat /\ a \div m < n
<1> SUFFICES ASSUME NEW n \in Nat \ {0}, NEW m \in Nat \ {0}, NEW a \in Nat, a < n * m
             PROVE  a \div m \in Nat /\ a \div m < n
  OBVIOUS
<1>1. a \div m \in Nat /\ (a \div m) * m <= a
  OBVIOUS
<1>2. (a \div m) * m < n * m
  BY <1>1
<1> QED BY <1>1, <1>2

\* A quotient and a remainder determine the number.
LEMMA QuotientRemainder ==
  \A m \in Nat \ {0} : \A a, b \in Nat : a \div m = b \div m /\ a % m = b % m => a = b
  OBVIOUS

\* The index of a virtual page in the directory and in its table, which are its alone.
LEMMA Indices ==
  ASSUME NEW v \in VirtualPages
  PROVE  /\ DirectoryIndex(v) \in Directory /\ TableIndex(v) \in Table
         /\ \A u \in VirtualPages :
              DirectoryIndex(u) = DirectoryIndex(v) /\ TableIndex(u) = TableIndex(v) => u = v
<1>1. v \in Nat /\ v < DirectoryEntries * TableEntries /\ \A u \in VirtualPages : u \in Nat
  BY PagingSizes DEF VirtualPages
<1>2. v \div TableEntries \in Nat /\ v \div TableEntries < DirectoryEntries
  BY <1>1, PagingSizes, Quotient
<1>3. v % TableEntries \in 0 .. TableEntries - 1
  BY <1>1, PagingSizes
<1>4. \A u \in VirtualPages :
        u \div TableEntries = v \div TableEntries /\ u % TableEntries = v % TableEntries => u = v
  <2>1. TableEntries \in Nat \ {0}
    BY PagingSizes
  <2> SUFFICES ASSUME NEW u \in VirtualPages, u \div TableEntries = v \div TableEntries,
                      u % TableEntries = v % TableEntries
               PROVE  u = v
    OBVIOUS
  <2>2. u \in Nat /\ v \in Nat
    BY <1>1
  <2> QED BY <2>1, <2>2, QuotientRemainder, ZenonT(30)
<1> QED BY <1>2, <1>3, <1>4, PagingSizes DEF DirectoryIndex, TableIndex, Directory, Table

\* The virtual page of an address that a caller passes.
LEMMA PageOfAddress ==
  ASSUME NEW va \in VirtualAddresses
  PROVE  va \div PageSize \in VirtualPages
<1> PICK n : n = DirectoryEntries * TableEntries
  OBVIOUS
<1>1. n \in Nat \ {0}
  BY PagingSizes
<1>2. va \in Nat /\ va < n * PageSize
  BY <1>1, PagingAssumption, PagingSizes
<1>3. va \div PageSize \in Nat /\ va \div PageSize < n
  BY <1>1, <1>2, PagingSizes, Quotient
<1> QED BY <1>1, <1>3 DEF VirtualPages

\* The page and the flags a caller passes make an entry.
LEMMA EntryOfTarget ==
  ASSUME NEW pa \in Targets, NEW flags \in FlagSets
  PROVE  Entry(pa \div PageSize, flags) \in Entries
<1>1. pa \div PageSize \in Nat
  BY PagingAssumption, PagingSizes
<1> QED BY <1>1, PagingAssumption DEF Entry, Entries

\* A walk finds an entry.
LEMMA WalkType ==
  ASSUME TablesInv, NEW v \in VirtualPages
  PROVE  Walk(v) \in Entries
<1>1. DirectoryIndex(v) \in Directory /\ TableIndex(v) \in Table
  BY Indices
<1>2. pageDirectory[DirectoryIndex(v)] # None =>
        tables[pageDirectory[DirectoryIndex(v)].page] \in [Table -> Entries]
  BY <1>1 DEF TablesInv
<1> QED BY <1>1, <1>2 DEF Walk, Entries

-----------------------------------------------------------------------------
(***************************************************************************)
(* The two ways to change a translation.                                   *)
(***************************************************************************)
\* A table with one entry replaced is a table, and tables with one replaced are tables.
LEMMA OneEntry ==
  ASSUME NEW f \in [Table -> Entries], NEW i, NEW e \in Entries
  PROVE  [f EXCEPT ![i] = e] \in [Table -> Entries]
  BY ZenonT(30)

\* The same for the table as a whole.
LEMMA OneTable ==
  ASSUME NEW D, NEW f \in [D -> [Table -> Entries]], NEW t, NEW g \in [Table -> Entries]
  PROVE  [f EXCEPT ![t] = g] \in [D -> [Table -> Entries]]
  BY ZenonT(30)

\* An entry is written into the table of v, by paging_map or paging_unmap.
LEMMA EntryWritten ==
  ASSUME TablesInv, NEW v \in VirtualPages, NEW e \in Entries,
         pageDirectory[DirectoryIndex(v)] # None, UNCHANGED <<pageDirectory, owned>>,
         tables' = [tables EXCEPT ![pageDirectory[DirectoryIndex(v)].page][TableIndex(v)] = e]
  PROVE  TablesInv' /\ OnlyMoves(v)
<1> PICK d, t, i : d = DirectoryIndex(v) /\ t = pageDirectory[d].page /\ i = TableIndex(v)
  OBVIOUS
<1>1. d \in Directory /\ i \in Table /\ t \in DOMAIN tables /\ pageDirectory[d] # None
  BY Indices DEF TablesInv
<1>2. tables' = [tables EXCEPT ![t][i] = e]
  OBVIOUS
<1>3. tables[t] \in [Table -> Entries]
  BY <1>1 DEF TablesInv
<1>4. /\ DOMAIN tables' = DOMAIN tables /\ tables'[t] = [tables[t] EXCEPT ![i] = e]
      /\ \A p \in DOMAIN tables \ {t} : tables'[p] = tables[p]
  BY <1>1, <1>2 DEF TablesInv
<1>5. [tables[t] EXCEPT ![i] = e] \in [Table -> Entries]
  BY <1>3, OneEntry
<1>6. tables' \in [DOMAIN tables -> [Table -> Entries]]
  <2>1. tables' = [tables EXCEPT ![t] = [tables[t] EXCEPT ![i] = e]]
    BY <1>2
  <2>2. tables \in [DOMAIN tables -> [Table -> Entries]]
    BY DEF TablesInv
  <2> PICK f, g, D : f = tables /\ g = [tables[t] EXCEPT ![i] = e] /\ D = DOMAIN tables
    OBVIOUS
  <2>3. [f EXCEPT ![t] = g] \in [D -> [Table -> Entries]]
    BY <1>5, <2>2, OneTable
  <2> QED BY <2>1, <2>3
<1>7. TablesInv'
  BY <1>4, <1>6 DEF TablesInv
<1>8. ASSUME NEW u \in VirtualPages, u # v PROVE Walk(u)' = Walk(u)
  <2> PICK c, j : c = DirectoryIndex(u) /\ j = TableIndex(u)
    OBVIOUS
  <2>1. c \in Directory /\ j \in Table /\ (c # d \/ j # i)
    BY <1>8, Indices
  <2>2. Walk(u) = IF pageDirectory[c] = None THEN None ELSE tables[pageDirectory[c].page][j]
    BY DEF Walk
  <2>3. Walk(u)' = IF pageDirectory[c] = None THEN None ELSE tables'[pageDirectory[c].page][j]
    BY DEF Walk
  <2>4. CASE pageDirectory[c] = None
    BY <2>2, <2>3, <2>4
  <2>5. CASE pageDirectory[c] # None /\ c # d
    <3>1. pageDirectory[c].page \in DOMAIN tables \ {t}
      BY <1>1, <2>1, <2>5 DEF TablesInv
    <3> QED BY <1>4, <2>2, <2>3, <2>5, <3>1, ZenonT(30)
  <2>6. CASE pageDirectory[c] # None /\ c = d
    <3>1. tables'[t][j] = tables[t][j]
      BY <1>3, <1>4, <2>1, <2>6
    <3> QED BY <2>2, <2>3, <2>6, <3>1
  <2> QED BY <2>4, <2>5, <2>6
<1> QED BY <1>7, <1>8 DEF OnlyMoves

\* paging_map enters a new table that holds one entry, for v.
LEMMA TableMade ==
  ASSUME TablesInv, NEW v \in VirtualPages, NEW e \in Entries, NEW t \in Nat,
         t \notin DOMAIN tables, owned' = owned \cup {t},
         pageDirectory[DirectoryIndex(v)] = None,
         pageDirectory' = [pageDirectory EXCEPT ![DirectoryIndex(v)] = Entry(t, {"W"})],
         tables' = [p \in DOMAIN tables \cup {t} |->
                      IF p = t THEN NewTable(v, e) ELSE tables[p]]
  PROVE  TablesInv' /\ OnlyMoves(v)
<1> PICK d, i : d = DirectoryIndex(v) /\ i = TableIndex(v)
  OBVIOUS
<1>1. d \in Directory /\ i \in Table /\ pageDirectory[d] = None
  BY Indices
<1>2. NewTable(v, e) = [k \in Table |-> IF k = i THEN e ELSE None]
  BY DEF NewTable
<1>3. NewTable(v, e) \in [Table -> Entries]
  BY <1>2 DEF Entries
<1>4. /\ DOMAIN tables' = DOMAIN tables \cup {t} /\ tables'[t] = NewTable(v, e)
      /\ \A p \in DOMAIN tables : tables'[p] = tables[p]
  OBVIOUS
<1>5. tables' \in [DOMAIN tables' -> [Table -> Entries]]
  BY <1>3, <1>4 DEF TablesInv
<1>6. Entry(t, {"W"}) \in Entries /\ Entry(t, {"W"}) # None /\ Entry(t, {"W"}).page = t
  BY DEF Entry, Entries, None
<1>7. /\ pageDirectory' \in [Directory -> Entries] /\ pageDirectory'[d] = Entry(t, {"W"})
      /\ \A c \in Directory \ {d} : pageDirectory'[c] = pageDirectory[c]
  BY <1>1, <1>6 DEF TablesInv
<1>8. \A c \in Directory : pageDirectory'[c] # None => pageDirectory'[c].page \in DOMAIN tables'
  BY <1>4, <1>6, <1>7 DEF TablesInv
<1>9. ASSUME NEW b \in Directory, NEW c \in Directory, pageDirectory'[b] # None, b # c
      PROVE  pageDirectory'[b].page # pageDirectory'[c].page
  <2>1. CASE b # d /\ c # d
    BY <1>7, <1>9, <2>1 DEF TablesInv
  <2>2. CASE b = d
    <3>1. pageDirectory'[c] = pageDirectory[c]
      BY <1>7, <1>9, <2>2
    <3>2. pageDirectory[c].page # t
      <4>1. pageDirectory[c] # None => pageDirectory[c].page \in DOMAIN tables
        BY DEF TablesInv
      <4>2. None.page = -1
        BY DEF None
      <4> QED BY <4>1, <4>2
    <3> QED BY <1>6, <1>7, <2>2, <3>1, <3>2
  <2>3. CASE c = d
    <3>1. pageDirectory'[b] = pageDirectory[b] /\ pageDirectory[b].page \in DOMAIN tables
      BY <1>7, <1>9, <2>3 DEF TablesInv
    <3> QED BY <1>6, <1>7, <2>3, <3>1
  <2> QED BY <2>1, <2>2, <2>3
<1>10. FirstTablePage \in DOMAIN tables' /\ DOMAIN tables' \ {FirstTablePage} \subseteq owned'
  BY <1>4 DEF TablesInv
<1>11. TablesInv'
  BY <1>5, <1>7, <1>8, <1>9, <1>10 DEF TablesInv
<1>12. ASSUME NEW u \in VirtualPages, u # v PROVE Walk(u)' = Walk(u)
  <2> PICK c, j : c = DirectoryIndex(u) /\ j = TableIndex(u)
    OBVIOUS
  <2>1. c \in Directory /\ j \in Table /\ (c # d \/ j # i)
    BY <1>12, Indices
  <2>2. Walk(u) = IF pageDirectory[c] = None THEN None ELSE tables[pageDirectory[c].page][j]
    BY DEF Walk
  <2>3. Walk(u)' = IF pageDirectory'[c] = None THEN None ELSE tables'[pageDirectory'[c].page][j]
    BY DEF Walk
  <2>4. CASE c # d
    <3>1. pageDirectory'[c] = pageDirectory[c]
      BY <1>7, <2>1, <2>4
    <3>2. pageDirectory[c] # None => pageDirectory[c].page \in DOMAIN tables
      BY <2>1 DEF TablesInv
    <3> QED BY <1>4, <2>2, <2>3, <3>1, <3>2
  <2>5. CASE c = d
    <3>1. tables'[t][j] = None
      BY <1>2, <1>4, <2>1, <2>5
    <3> QED BY <1>1, <1>6, <1>7, <2>2, <2>3, <2>5, <3>1
  <2> QED BY <2>4, <2>5
<1> QED BY <1>11, <1>12 DEF OnlyMoves

-----------------------------------------------------------------------------
(***************************************************************************)
(* The steps.                                                              *)
(***************************************************************************)
\* paging_init.
LEMMA PagingInitInv == PagingInit => TablesInv /\ TlbInv
<1> SUFFICES ASSUME PagingInit PROVE TablesInv /\ TlbInv
  OBVIOUS
<1>1. FirstTablePage \in Nat
  BY PagingAssumption, PhysicalAssumption
<1>2. Entry(FirstTablePage, {"W"}) \in Entries /\ None \in Entries
  BY <1>1 DEF Entry, Entries
<1>3. \A i \in Table : Entry(i, {"W"}) \in Entries
  BY DEF Table, Entry, Entries
<1>4. pageDirectory \in [Directory -> Entries]
  BY <1>2 DEF PagingInit
<1>5. DOMAIN tables = {FirstTablePage} /\ tables \in [DOMAIN tables -> [Table -> Entries]]
  BY <1>3 DEF PagingInit
<1>6. \A d \in Directory : pageDirectory[d] # None => d = 0 /\ pageDirectory[d].page = FirstTablePage
  BY DEF PagingInit, Entry
<1>7. \A d \in Directory : d # 0 => pageDirectory[d].page = -1
  BY DEF PagingInit, None
<1>8. TablesInv
  BY <1>1, <1>4, <1>5, <1>6, <1>7 DEF TablesInv
<1>9. TlbInv
  BY <1>2 DEF PagingInit, TlbInv, TlbCoherent
<1> QED BY <1>8, <1>9

\* What a step does: it moves no translation, or the one of a page v that it also
\* drops from the TLB.
Kept    == (\A u \in VirtualPages : Walk(u)' = Walk(u)) /\ TablesInv'
Changed == \E v \in VirtualPages :
             OnlyMoves(v) /\ TablesInv' /\ tlb' = paging_invalidate_page(v)

\* A page that is allocated is not a page table.
LEMMA NewPageIsNoTable ==
  ASSUME Inv, TablesInv, NEW t \in Pages, physical_alloc_page(t)
  PROVE  t \in Nat /\ t \notin DOMAIN tables
<1>1. t \in LowPages .. PageCount - 1 /\ ~is_used(pageBitMap, t)
  BY DEF physical_alloc_page, FirstFreePage
<1>2. t \in FreeSet
  BY <1>1 DEF FreeSet
<1>3. t \notin owned
  BY <1>2 DEF Inv, Partition
<1>4. t # FirstTablePage /\ t \in Nat
  BY <1>1, PagingAssumption, PhysicalAssumption
<1> QED BY <1>3, <1>4 DEF TablesInv

\* Pages change hands, but none that is a page table.
LEMMA PagesChange ==
  ASSUME TablesInv, UNCHANGED <<pageDirectory, tables>>,
         DOMAIN tables \ {FirstTablePage} \subseteq owned'
  PROVE  Kept
<1>1. TablesInv'
  BY DEF TablesInv
<1>2. \A u \in VirtualPages : Walk(u)' = Walk(u)
  BY DEF Walk
<1> QED BY <1>1, <1>2 DEF Kept

\* Others free no page table.
LEMMA FreeKeepsTables ==
  ASSUME TablesInv, NEW address \in FreeArguments(DOMAIN tables), physical_free_page(address)
  PROVE  DOMAIN tables \ {FirstTablePage} \subseteq owned'
<1> PICK page : page = address \div PageSize
  OBVIOUS
<1>1. address \in Nat /\ address % PageSize = 0 /\ owned' = owned \ {page}
  BY PhysicalAssumption DEF FreeArguments, physical_free_page, FreeAccepted
<1>2. page * PageSize = address
  BY <1>1, PagingSizes
<1>3. page \notin DOMAIN tables
  BY <1>2 DEF FreeArguments
<1> QED BY <1>1, <1>3 DEF TablesInv

\* Every step is one of these.
LEMMA PagingStep ==
  ASSUME Inv, TablesInv, TlbInv, [PagingNext]_pagingVars
  PROVE  \/ Kept /\ UNCHANGED tlb
         \/ Kept /\ \E v \in VirtualPages : tlb' = [tlb EXCEPT ![v] = Walk(v)]
         \/ Changed
<1>1. CASE UNCHANGED <<pageDirectory, tables, owned>>
  <2>1. Kept
    BY <1>1, PagesChange DEF TablesInv
  <2>2. \/ UNCHANGED tlb
        \/ \E v \in VirtualPages : tlb' = [tlb EXCEPT ![v] = Walk(v)]
        \/ \E v \in VirtualPages : tlb' = paging_invalidate_page(v)
    BY PageOfAddress, ZenonT(30) DEF PagingNext, pagingVars, map_fails, map_faults, map_in_table, map_new_table,
       unmap_fails, paging_unmap, unmap_faults, access, client_alloc, client_free, refault
  <2> QED BY <2>1, <2>2 DEF Changed, Kept, OnlyMoves
<1>2. ASSUME NEW va \in VirtualAddresses, NEW pa \in Targets, NEW flags \in FlagSets,
             map_in_table(va, pa, flags)
      PROVE  Changed
  <2> PICK v, e : v = va \div PageSize /\ e = Entry(pa \div PageSize, flags)
    OBVIOUS
  <2>1. v \in VirtualPages /\ e \in Entries
    BY PageOfAddress, EntryOfTarget
  <2>2. /\ pageDirectory[DirectoryIndex(v)] # None /\ UNCHANGED <<pageDirectory, owned>>
        /\ tables' = [tables EXCEPT ![pageDirectory[DirectoryIndex(v)].page][TableIndex(v)] = e]
        /\ tlb' = paging_invalidate_page(v)
    BY <1>2 DEF map_in_table
  <2>3. TablesInv' /\ OnlyMoves(v)
    BY <2>1, <2>2, EntryWritten, ZenonT(30)
  <2> QED BY <2>1, <2>2, <2>3 DEF Changed
<1>3. ASSUME NEW va \in VirtualAddresses, paging_unmap(va)
      PROVE  Changed
  <2> PICK v : v = va \div PageSize
    OBVIOUS
  <2>1. v \in VirtualPages /\ None \in Entries
    BY PageOfAddress DEF Entries
  <2>2. /\ pageDirectory[DirectoryIndex(v)] # None /\ UNCHANGED <<pageDirectory, owned>>
        /\ tables' = [tables EXCEPT ![pageDirectory[DirectoryIndex(v)].page][TableIndex(v)] = None]
        /\ tlb' = paging_invalidate_page(v)
    BY <1>3 DEF paging_unmap
  <2>3. TablesInv' /\ OnlyMoves(v)
    BY <2>1, <2>2, EntryWritten, ZenonT(30)
  <2> QED BY <2>1, <2>2, <2>3 DEF Changed
<1>4. ASSUME NEW va \in VirtualAddresses, NEW pa \in Targets, NEW flags \in FlagSets,
             map_new_table(va, pa, flags)
      PROVE  Changed
  <2> PICK v, e : v = va \div PageSize /\ e = Entry(pa \div PageSize, flags)
    OBVIOUS
  <2>1. v \in VirtualPages /\ e \in Entries
    BY PageOfAddress, EntryOfTarget
  <2>2. pageDirectory[DirectoryIndex(v)] = None /\ tlb' = paging_invalidate_page(v)
    BY <1>4 DEF map_new_table
  <2>3. PICK t \in Pages :
          /\ physical_alloc_page(t)
          /\ pageDirectory' = [pageDirectory EXCEPT ![DirectoryIndex(v)] = Entry(t, {"W"})]
          /\ tables' = [p \in DOMAIN tables \cup {t} |->
               IF p = t THEN NewTable(v, e) ELSE tables[p]]
    BY <1>4, ZenonT(30) DEF map_new_table
  <2>4. t \in Nat /\ t \notin DOMAIN tables /\ owned' = owned \cup {t}
    BY <2>3, NewPageIsNoTable DEF physical_alloc_page
  <2>5. TablesInv' /\ OnlyMoves(v)
    BY <2>1, <2>2, <2>3, <2>4, TableMade, ZenonT(30)
  <2> QED BY <2>1, <2>2, <2>5 DEF Changed
<1>5. ASSUME NEW t \in Pages, physical_alloc_page(t), UNCHANGED <<pageDirectory, tables, tlb>>
      PROVE  Kept
  <2>1. DOMAIN tables \ {FirstTablePage} \subseteq owned'
    BY <1>5 DEF TablesInv, physical_alloc_page
  <2> QED BY <1>5, <2>1, PagesChange
<1>6. ASSUME client_free PROVE Kept /\ UNCHANGED tlb
  <2>1. UNCHANGED <<pageDirectory, tables, tlb>>
    BY <1>6 DEF client_free
  <2>2. DOMAIN tables \ {FirstTablePage} \subseteq owned'
    BY <1>6, FreeKeepsTables DEF client_free, physical_free_ignored, physicalVars, TablesInv
  <2> QED BY <2>1, <2>2, PagesChange
<1>7. CASE \E t \in Pages : physical_alloc_page(t) /\ UNCHANGED <<pageDirectory, tables, tlb>>
  BY <1>5, <1>7
<1> QED
  BY <1>1, <1>2, <1>3, <1>4, <1>6, <1>7, ZenonT(30) DEF PagingNext, pagingVars, physicalVars, map_fails,
     map_faults, unmap_fails, unmap_faults, access, client_alloc, refault

\* Both parts of the invariant are kept.
LEMMA PagingPreservesInv ==
  ASSUME Inv, TablesInv, TlbInv, [PagingNext]_pagingVars
  PROVE  TablesInv' /\ TlbInv'
<1>1. CASE Kept /\ UNCHANGED tlb
  BY <1>1 DEF Kept, TlbInv, TlbCoherent
<1>2. ASSUME Kept, NEW v \in VirtualPages, tlb' = [tlb EXCEPT ![v] = Walk(v)]
      PROVE  TablesInv' /\ TlbInv'
  <2>1. Walk(v) \in Entries
    BY WalkType
  <2>2. tlb' \in [VirtualPages -> Entries]
    BY <1>2, <2>1 DEF TlbInv
  <2>3. \A u \in VirtualPages : tlb'[u] = IF u = v THEN Walk(v) ELSE tlb[u]
    BY <1>2 DEF TlbInv
  <2>4. TlbCoherent'
    BY <1>2, <2>3 DEF Kept, TlbInv, TlbCoherent
  <2> QED BY <1>2, <2>2, <2>4 DEF Kept, TlbInv
<1>3. ASSUME NEW v \in VirtualPages, OnlyMoves(v), TablesInv', tlb' = paging_invalidate_page(v)
      PROVE  TablesInv' /\ TlbInv'
  <2>1. tlb' \in [VirtualPages -> Entries]
    BY <1>3 DEF TlbInv, paging_invalidate_page, Entries
  <2>2. \A u \in VirtualPages : tlb'[u] = IF u = v THEN None ELSE tlb[u]
    BY <1>3 DEF TlbInv, paging_invalidate_page
  <2>3. TlbCoherent'
    BY <1>3, <2>2 DEF OnlyMoves, TlbInv, TlbCoherent
  <2> QED BY <1>3, <2>1, <2>3 DEF TlbInv
<1> QED BY <1>1, <1>2, <1>3, PagingStep DEF Changed

\* The invariant holds always.
LEMMA PagingInvHolds == PagingSpec => [](Inv /\ TablesInv /\ TlbInv)
<1>1. PagingInit => Inv /\ TablesInv /\ TlbInv
  BY InitInv, PagingInitInv DEF PagingInit
<1>2. Inv /\ TablesInv /\ TlbInv /\ [PagingNext]_pagingVars => (Inv /\ TablesInv /\ TlbInv)'
  BY PagingIsACaller, NextPreservesInv, PagingPreservesInv
<1> QED BY <1>1, <1>2, PTL DEF PagingSpec

-----------------------------------------------------------------------------
(***************************************************************************)
(* The theorems.                                                           *)
(***************************************************************************)
\* paging_map and paging_unmap leave no stale translation in the TLB.
THEOREM TlbStaysCoherent == PagingSpec => []TlbCoherent
<1>1. TlbInv => TlbCoherent
  BY DEF TlbInv
<1> QED BY <1>1, PagingInvHolds, PTL

\* Each page table belongs to one directory entry, and the allocator gives none of
\* them away.
THEOREM TablesArePrivate == PagingSpec => []TablesPrivate
<1>1. ASSUME Inv, TablesInv PROVE TablesPrivate
  <2>1. ASSUME NEW t \in DOMAIN tables \ {FirstTablePage}
        PROVE  t \in owned \ Reserved /\ is_used(pageBitMap, t)
    <3>1. t \in owned /\ t \in Pages
      BY <1>1 DEF TablesInv, Inv
    <3> QED BY <1>1, <3>1 DEF Inv, Partition, FreeSet
  <2> QED BY <1>1, <2>1 DEF TablesInv, TablesPrivate
<1> QED BY <1>1, PagingInvHolds, PTL

\* A call changes the translation of one virtual page at most.
THEOREM OneTranslationAtATime == PagingSpec => OneTranslationChanges
<1> DEFINE Moved == {v \in VirtualPages : Walk(v)' # Walk(v)}
<1>1. ASSUME NEW D, NEW x, D \subseteq {x} PROVE Cardinality(D) <= 1
  <2>1. IsFiniteSet({x}) /\ Cardinality({x}) = 1
    BY FS_Singleton
  <2> QED BY <1>1, <2>1, FS_Subset
<1>2. Inv /\ TablesInv /\ TlbInv /\ [PagingNext]_pagingVars => Cardinality(Moved) <= 1
  <2> SUFFICES ASSUME Inv, TablesInv, TlbInv, [PagingNext]_pagingVars
               PROVE  \E x : Moved \subseteq {x}
    BY <1>1
  <2>1. CASE Kept
    BY <2>1 DEF Kept
  <2>2. CASE Changed
    BY <2>2 DEF Changed, OnlyMoves
  <2> QED BY <2>1, <2>2, PagingStep
<1>3. Inv /\ TablesInv /\ TlbInv /\ [PagingNext]_pagingVars =>
        [Cardinality({v \in VirtualPages : Walk(v)' # Walk(v)}) <= 1]_pagingVars
  BY <1>2
<1> QED BY <1>3, PagingInvHolds, PTL DEF PagingSpec, OneTranslationChanges

\* Pages stay partitioned and counted with paging among the callers of physical.c.
THEOREM PagingKeepsPagesApart == PagingSpec => [](Partition /\ CounterExact)
  BY PagingUsesPhysical, PagesArePartitioned, CounterIsExact, PTL
==============================================================================
