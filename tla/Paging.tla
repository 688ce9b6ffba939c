------------------------------- MODULE Paging --------------------------------
(***************************************************************************)
(* Two-level paging (kernel/mm/paging.c) on top of the physical allocator, *)
(* with the TLB of the CPU: any translation that is used may stay cached   *)
(* until it is invalidated.                                                *)
(*                                                                         *)
(* An entry that is not present is None; a present one has a page and a    *)
(* set of flags ("W" for PAGE_WRITABLE, "U" for PAGE_USER).  A page table  *)
(* lives in a physical page and the code reaches it at the virtual address *)
(* equal to its physical one.  Where that address is not mapped the CPU    *)
(* faults; the handler of idt.c prints the exception and returns to the    *)
(* instruction that faulted, so the kernel gets no further.  Where it is   *)
(* mapped to another page the write goes astray; the model stops there     *)
(* too.                                                                    *)
(***************************************************************************)
EXTENDS Physical

CONSTANTS
  DirectoryEntries,   \* PAGE_DIRECTORY_ENTRIES
  TableEntries,       \* PAGE_TABLE_ENTRIES
  FirstTablePage,     \* the page of firstPageTable, inside the kernel image
  VirtualAddresses,   \* the arguments callers pass to paging_map and paging_unmap,
  Targets,            \* the physical addresses
  FlagSets            \* and the flags

ASSUME PagingAssumption ==
  /\ DirectoryEntries \in Nat \ {0} /\ TableEntries \in Nat \ {0}
  /\ FirstTablePage \in 0 .. LowPages - 1
  /\ VirtualAddresses \subseteq 0 .. DirectoryEntries * TableEntries * PageSize - 1
  /\ Targets \subseteq Nat
  /\ FlagSets \subseteq SUBSET {"W", "U"}

VirtualPages == 0 .. DirectoryEntries * TableEntries - 1
Directory    == 0 .. DirectoryEntries - 1
Table        == 0 .. TableEntries - 1
None         == [page |-> -1, flags |-> {}]

VARIABLES
  pageDirectory,    \* [Directory -> entry]
  tables,           \* page of a page table -> [Table -> entry]
  tlb,              \* [VirtualPages -> entry]: the cached translations
  faulted           \* the kernel faulted in paging_map or paging_unmap

pagingVars == <<pageBitMap, freePages, owned, pageDirectory, tables, tlb, faulted>>

-----------------------------------------------------------------------------
DirectoryIndex(v) == v \div TableEntries
TableIndex(v)     == v % TableEntries
Entry(page, flags) == [page |-> page, flags |-> flags]

\* The walk of the CPU: the entry of the page table for virtual page v.
Walk(v) ==
  LET pde == pageDirectory[DirectoryIndex(v)] IN
  IF pde = None THEN None ELSE tables[pde.page][TableIndex(v)]

\* physical_to_virtual(page) is mapped, to that page.
Reachable(page) == page \in VirtualPages /\ Walk(page).page = page

\* paging_init after physical_init: the first table maps itself and all else
\* below TableEntries pages one to one.
PagingInit ==
  /\ Init
  /\ pageDirectory = [d \in Directory |->
       IF d = 0 THEN Entry(FirstTablePage, {"W"}) ELSE None]
  /\ tables = [t \in {FirstTablePage} |-> [i \in Table |-> Entry(i, {"W"})]]
  /\ tlb = [v \in VirtualPages |-> None]
  /\ faulted = FALSE

page_address_valid(address) == address % PageSize = 0

MutInvalidateNothing(v) == tlb
paging_invalidate_page(v) == [tlb EXCEPT ![v] = None]

-----------------------------------------------------------------------------
(***************************************************************************)
(* paging_map.  Its outcomes are separate actions, one per return.         *)
(***************************************************************************)

\* -1: an address is not aligned.  -2: a table is needed and no page is free.
\* -3: the virtual page is mapped already.
map_refused(v, va, pa) ==
  \/ ~page_address_valid(va) \/ ~page_address_valid(pa)
  \/ /\ pageDirectory[DirectoryIndex(v)] = None
     /\ \A page \in Pages : ~FirstFreePage(page)
  \/ /\ pageDirectory[DirectoryIndex(v)] # None
     /\ Reachable(pageDirectory[DirectoryIndex(v)].page)
     /\ Walk(v) # None

map_fails(va, pa) ==
  /\ ~faulted
  /\ map_refused(va \div PageSize, va, pa)
  /\ UNCHANGED pagingVars

\* The table exists: write the entry.
map_in_table(va, pa, flags) ==
  LET v == va \div PageSize
      t == pageDirectory[DirectoryIndex(v)].page
  IN
  /\ ~faulted
  /\ ~map_refused(v, va, pa)
  /\ pageDirectory[DirectoryIndex(v)] # None
  /\ Reachable(t)
  /\ tables' = [tables EXCEPT ![t][TableIndex(v)] = Entry(pa \div PageSize, flags)]
  /\ tlb' = paging_invalidate_page(v)
  /\ UNCHANGED <<pageBitMap, freePages, owned, pageDirectory, faulted>>

\* allocate_page_table takes a page, clears it, and the entry goes into it.
MutNewTableUncleared(v, entry) == [i \in Table |-> entry]
NewTable(v, entry) == [i \in Table |-> IF i = TableIndex(v) THEN entry ELSE None]

map_new_table(va, pa, flags) ==
  LET v == va \div PageSize IN
  /\ ~faulted
  /\ ~map_refused(v, va, pa)
  /\ pageDirectory[DirectoryIndex(v)] = None
  /\ \E t \in Pages :
       /\ Reachable(t)
       /\ physical_alloc_page(t)
       /\ pageDirectory' = [pageDirectory EXCEPT ![DirectoryIndex(v)] = Entry(t, {"W"})]
       /\ tables' = [p \in DOMAIN tables \cup {t} |->
            IF p = t THEN NewTable(v, Entry(pa \div PageSize, flags)) ELSE tables[p]]
  /\ tlb' = paging_invalidate_page(v)
  /\ UNCHANGED faulted

\* The table, old or new, is not where the kernel looks for it.
map_faults(va, pa) ==
  LET d == DirectoryIndex(va \div PageSize) IN
  /\ ~faulted
  /\ page_address_valid(va) /\ page_address_valid(pa)
  /\ \/ /\ pageDirectory[d] # None
        /\ ~Reachable(pageDirectory[d].page)
        /\ UNCHANGED physicalVars
     \/ /\ pageDirectory[d] = None
        /\ \E t \in Pages : ~Reachable(t) /\ physical_alloc_page(t)
  /\ faulted' = TRUE
  /\ UNCHANGED <<pageDirectory, tables, tlb>>

-----------------------------------------------------------------------------
(***************************************************************************)
(* paging_unmap.                                                           *)
(***************************************************************************)

\* -1, -2 and -3: not aligned, no table, not mapped.
unmap_fails(va) ==
  LET v == va \div PageSize IN
  /\ ~faulted
  /\ \/ ~page_address_valid(va)
     \/ pageDirectory[DirectoryIndex(v)] = None
     \/ /\ pageDirectory[DirectoryIndex(v)] # None
        /\ Reachable(pageDirectory[DirectoryIndex(v)].page)
        /\ Walk(v) = None
  /\ UNCHANGED pagingVars

paging_unmap(va) ==
  LET v == va \div PageSize
      t == pageDirectory[DirectoryIndex(v)].page
  IN
  /\ ~faulted
  /\ page_address_valid(va)
  /\ pageDirectory[DirectoryIndex(v)] # None /\ Reachable(t)
  /\ Walk(v) # None
  /\ tables' = [tables EXCEPT ![t][TableIndex(v)] = None]
  /\ tlb' = paging_invalidate_page(v)
  /\ UNCHANGED <<pageBitMap, freePages, owned, pageDirectory, faulted>>

unmap_faults(va) ==
  LET pde == pageDirectory[DirectoryIndex(va \div PageSize)] IN
  /\ ~faulted
  /\ page_address_valid(va)
  /\ pde # None /\ ~Reachable(pde.page)
  /\ faulted' = TRUE
  /\ UNCHANGED <<pageBitMap, freePages, owned, pageDirectory, tables, tlb>>

-----------------------------------------------------------------------------
\* The CPU uses a translation and caches it.
access(v) ==
  /\ ~faulted
  /\ Walk(v) # None
  /\ tlb' = [tlb EXCEPT ![v] = Walk(v)]
  /\ UNCHANGED <<pageBitMap, freePages, owned, pageDirectory, tables, faulted>>

\* Other users of the physical allocator.
client_alloc ==
  /\ ~faulted
  /\ \E page \in Pages : physical_alloc_page(page)
  /\ UNCHANGED <<pageDirectory, tables, tlb, faulted>>

\* physical_free_page would take the page of a table as well; that no client passes
\* one is assumed.
client_free ==
  /\ ~faulted
  /\ \E address \in FreeArguments(DOMAIN tables) :
       physical_free_page(address) \/ physical_free_ignored(address)
  /\ UNCHANGED <<pageDirectory, tables, tlb, faulted>>

\* The exception handler returns and the instruction faults again.
refault == faulted /\ UNCHANGED pagingVars

PagingNext ==
  \/ \E va \in VirtualAddresses :
       \/ \E pa \in Targets : map_fails(va, pa) \/ map_faults(va, pa)
       \/ \E pa \in Targets, flags \in FlagSets :
            map_in_table(va, pa, flags) \/ map_new_table(va, pa, flags)
       \/ unmap_fails(va) \/ paging_unmap(va) \/ unmap_faults(va)
  \/ \E va \in VirtualAddresses : access(va \div PageSize)
  \/ client_alloc \/ client_free
  \/ refault

PagingSpec == PagingInit /\ [][PagingNext]_pagingVars

-----------------------------------------------------------------------------
(***************************************************************************)
(* Properties.                                                             *)
(***************************************************************************)
\* The CPU never uses a translation the page tables no longer hold: each change
\* of an entry in paging_map and paging_unmap is followed by its invlpg.
TlbCoherent == \A v \in VirtualPages : tlb[v] # None => tlb[v] = Walk(v)

\* Page tables belong to paging alone: no two directory entries share one, and
\* the allocator neither hands one out again nor takes it from reserved memory.
TablesPrivate ==
  /\ \A d, e \in Directory :
       pageDirectory[d] # None /\ d # e => pageDirectory[d].page # pageDirectory[e].page
  /\ \A d \in Directory : pageDirectory[d] # None => pageDirectory[d].page \in DOMAIN tables
  /\ \A t \in DOMAIN tables \ {FirstTablePage} : t \in owned \ Reserved /\ is_used(pageBitMap, t)

\* One call changes the translation of one page at most: a new table maps
\* nothing but the page it was made for.
OneTranslationChanges ==
  [][Cardinality({v \in VirtualPages : Walk(v)' # Walk(v)}) <= 1]_pagingVars

\* What the comment on physical_to_virtual says: the kernel can access a page
\* table at the address physical_to_virtual returns.
KernelReachesTables == ~faulted
==============================================================================
