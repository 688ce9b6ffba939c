--------------------------- MODULE PhysicalCallers ----------------------------
(***************************************************************************)
(* Tasks that use the physical page allocator (kernel/mm/physical.c) at    *)
(* the same time.  Physical takes a call as one step; here a call is the   *)
(* accesses to pageBitMap and freePages it consists of, and the timer may  *)
(* give the CPU to another caller between any two of them, since           *)
(* physical.c does not turn interrupts off.  Each access is taken to be    *)
(* one instruction, also |=, ++ and --.                                    *)
(***************************************************************************)
EXTENDS Physical

CONSTANT Callers

VARIABLES
  pc,       \* where each caller is
  page,     \* its local variable page
  held      \* the pages that were returned to it

callerVars == <<physicalVars, pc, page, held>>

CallersInit ==
  /\ Init
  /\ pc = [c \in Callers |-> "outside"]
  /\ page = [c \in Callers |-> 0]
  /\ held = [c \in Callers |-> {}]

At(c, where) == pc[c] = where
Goto(c, where) == pc' = [pc EXCEPT ![c] = where]

-----------------------------------------------------------------------------
\* physical_alloc_page.
alloc_call(c) ==
  /\ At(c, "outside")
  /\ Goto(c, "scan")
  /\ page' = [page EXCEPT ![c] = LowPages]
  /\ UNCHANGED <<physicalVars, held>>

alloc_scan(c) ==
  /\ At(c, "scan") /\ page[c] < PageCount
  /\ IF is_used(pageBitMap, page[c])
     THEN page' = [page EXCEPT ![c] = @ + 1] /\ UNCHANGED pc
     ELSE Goto(c, "mark") /\ UNCHANGED page
  /\ UNCHANGED <<physicalVars, held>>

alloc_fails(c) ==
  /\ At(c, "scan") /\ page[c] = PageCount
  /\ Goto(c, "outside")
  /\ UNCHANGED <<physicalVars, page, held>>

alloc_mark(c) ==
  /\ At(c, "mark")
  /\ Goto(c, "count")
  /\ pageBitMap' = mark_used(pageBitMap, page[c])
  /\ UNCHANGED <<freePages, owned, page, held>>

alloc_return(c) ==
  /\ At(c, "count")
  /\ Goto(c, "outside")
  /\ freePages' = freePages - 1
  /\ owned' = owned \cup {page[c]}
  /\ held' = [held EXCEPT ![c] = @ \cup {page[c]}]
  /\ UNCHANGED <<pageBitMap, page>>

-----------------------------------------------------------------------------
\* physical_free_page, of a page the caller was given.
free_call(c, p) ==
  /\ At(c, "outside") /\ p \in held[c]
  /\ IF FreeAccepted(p * PageSize) THEN Goto(c, "unmark") ELSE UNCHANGED pc
  /\ page' = [page EXCEPT ![c] = p]
  /\ held' = [held EXCEPT ![c] = @ \ {p}]
  /\ UNCHANGED physicalVars

free_mark(c) ==
  /\ At(c, "unmark")
  /\ Goto(c, "uncount")
  /\ pageBitMap' = mark_free(pageBitMap, page[c])
  /\ owned' = owned \ {page[c]}
  /\ UNCHANGED <<freePages, page, held>>

free_return(c) ==
  /\ At(c, "uncount")
  /\ Goto(c, "outside")
  /\ freePages' = freePages + 1
  /\ UNCHANGED <<pageBitMap, owned, page, held>>

CallersNext ==
  \E c \in Callers :
    \/ alloc_call(c) \/ alloc_scan(c) \/ alloc_fails(c) \/ alloc_mark(c) \/ alloc_return(c)
    \/ \E p \in held[c] : free_call(c, p)
    \/ free_mark(c) \/ free_return(c)

CallersSpec == CallersInit /\ [][CallersNext]_callerVars

-----------------------------------------------------------------------------
\* What the header says of physical_alloc_page, and the test of the allocator
\* expects of its results: the page was free, so no two allocations that were not
\* freed have the same page.
NoDuplicatePage == \A c, d \in Callers : c # d => held[c] \cap held[d] = {}
==============================================================================
