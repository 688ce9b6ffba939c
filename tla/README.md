# neilOS: a verification development in TLA+

neilOS is a small 32-bit x86 operating system: a two-stage BIOS loader and a
kernel with a preemptive scheduler, a page allocator, a heap, paging, and
drivers for timer, keyboard and screen. This directory models the loader, the
kernel's core and its drivers in TLA+, model-checks them with TLC, and proves
with TLAPS the safety of the scheduler, the interrupt path, both allocators,
paging, the keyboard and screen drivers and the loader. Paths below are relative to the repository root.

## The parts of the system

| part | sources | modules | proofs |
|---|---|---|---|
| scheduler and tasks | `kernel/scheduler/` | `Scheduler`, `TaskLifecycle` | `SchedulerProofs` |
| frames on the stacks | `kernel/arch/x86/isr.asm`, `task_create_context` | `Frames` | `KernelProofs`, part 1 |
| interrupts, PIC, PIT | `kernel/arch/x86/isr.asm`, `idt.c`, `io.h`, `pic.c`, `kernel/drivers/timer/pit.c` | `Interrupts` | `KernelProofs`, part 2 |
| interrupts with the scheduler | the same and `kernel/kernel.c` | `Kernel` | `KernelProofs`, part 3 |
| physical page allocator | `kernel/mm/physical.c` | `Physical`, `PhysicalCallers` | `PagingProofs`, part 1 |
| paging and the TLB | `kernel/mm/paging.c` | `Paging` (over `Physical`) | `PagingProofs`, part 2 |
| kernel heap | `kernel/mm/kmalloc.c` | `Kmalloc` | `KmallocProofs` |
| keyboard | `kernel/drivers/keyboard/keyboard.c` | `Keyboard` | `DriverProofs`, part 1 |
| screen | `kernel/drivers/video/vga.c` | `Vga` | `DriverProofs`, part 2 |
| formatted output | `kernel/drivers/video/vga.c`, `boot/stage2/lib/print.c` | `Format` | `FormatProofs` |
| kernel entry, GDT, layout | `kernel/kernel.c`, `main.asm`, `gdt.asm`, `linker.ld` | initial states and constants | |
| boot stage 1 | `boot/stage1/boot.asm` | `Chs`, `Loader` | `LoaderProofs` |
| boot stage 2 | `boot/stage2/stage2.c`, `disk.asm`, `lib/endian.c`, `lib/string.c` | `Loader`, `Chs` | `LoaderLemmas`, `LoaderProofs` |
| kernel tests | `kernel/tests/` | a source of expectations only | |

`kmain` initialises screen, page allocator, heap, IDT, PIC, PIT, keyboard,
scheduler and paging with interrupts off, then executes `sti` and stays in a
`hlt` loop as task 0. From then on the timer interrupt (vector 32) preempts
tasks, `int $49` yields and `int $50` ends one. `paging_map` takes its page
tables from the page allocator; the heap is one fixed megabyte that the page
allocator reserves.

## The modules

**Scheduler.** The fields of `tasks[]` and `idleTask` are functions on slots
(`id`, `state`, `esp`); `idleTask` is the slot after the last. `stackMem` holds
the frame on each stack, `sp` the stack the CPU is on, and `ctx` where it is in
the code. A frame is abstracted to the point it resumes: the beginning of a
task, its own code, inside `task_block`, inside `task_create`, or behind
`int $50`. Each step is a stretch of code no interrupt can split: a handler, a
section between `irq_save` and `irq_restore`, or a store. `task_block` and
`task_create` are therefore two steps each. `Tick` can come between any two.
`KernelMayStop` says whether task 0 may block or exit; as shipped it never does.

**TaskLifecycle.** What callers may rely on: the states a task goes through, one
task on the CPU, idle only as a last resort, and that ready tasks are run. It has
no contexts, stacks, ids or order. `Scheduler` is shown to implement it.

**Frames.** The words an interrupt leaves on a stack: what the CPU pushes, with or
without an error code, what the stub of the vector and `isr_common` push, what
`isr_common` pops, and the frame `task_create_context` builds by hand. A word
says what it is and whose it is, so a word popped into the wrong register shows.

**Interrupts.** The interrupt flag, the controller's request and in-service bits,
the words on each stack, and for each stack the handlers on it, with one step per
call a handler makes. IRQ 0 and 1 are unmasked; IRQ 7 can come as the spurious
interrupt; tasks raise exceptions. Tasks open and close sections with `irq_save`
and `irq_restore`. To which stack the timer handler, `int $49` and `int $50`
return is left open. PIT, controller and keyboard controller are external.
`MaxNest` bounds the handlers on one stack; that they never nest is a property,
so the bound is not reached.

**Kernel.** `Interrupts` with `Scheduler` (an instance whose stack pointer is
`cur`). What `Scheduler` takes as one step is here the steps it consists of: the
period of the PIT, the delivery, the gate, the handler's calls, the return; or
`irq_save`, the body, `irq_restore`. It is shown to implement `Scheduler`
including its fairness, that is, the assumption "a tick comes again and again and
handlers and sections are atomic" is discharged.

**Physical.** The bitmap is kept in words, each the set of its 1 bits, and
addresses are bytes, so unaligned arguments and partly covered pages exist.
`owned` is auxiliary. Callers pass to `physical_free_page` their own pages and any
address that is nobody's (`FreeArguments`); a call is one step. The function itself
would also free a page of the heap or of another caller, page tables included: only
low memory is protected. No caller in the tree does that, and the properties assume
that none does.

**PhysicalCallers.** The same calls as the accesses to bitmap and counter they
consist of, with several tasks, which the timer may switch between any two.

**Kmalloc.** Header fields by address; each turn of the loops of `kmalloc` and
`kfree` is a step. The stores of one turn, between which the list is not linked up,
are not told apart: nothing else uses the heap meanwhile. `size_t` arithmetic in `ALIGN8` is modulo `SizeMod`. The
header a merge removes from the list is payload afterwards and its fields are
forgotten. `blocks` and `held` are auxiliary.

**Paging.** Directory, tables, and a TLB that may cache any translation in use
until `invlpg`; the store to an entry and the `invlpg` after it are one step. Other
users of physical memory take pages and free them, but not those of page tables
(`FreeArguments(DOMAIN tables)`). A page table is reached at its physical address; where that
address is not mapped to it the kernel faults and the model stops (`faulted`),
since the handler of `idt.c` prints and returns to the same instruction.

**Keyboard.** The driver's flags and the keyboard that feeds them: keys send make
and break codes; grey keys send an E0 prefix and, with a shift key held, fake
shift codes; the keyboard acknowledges bytes it is sent. Codes wait in `codes`, so
the driver may be late. Each branch of `keyboard_handler` is an action. Keys are
classes: one with a character, one without, the shifts, caps lock, the four grey
keys the driver knows. The status port returns any set of bits in `LedStatuses`.

**Vga.** The line buffer, the video memory, cursor, viewport and `renderPending`.
A call that writes is a start (`irq_save`), a step per character, and the flush.
Scrolling comes between calls only: the keyboard handler does it with interrupts
off. A cell is one value for character and colours.

**Format.** `printf` of stage 2 and `fvga_write` of the kernel share their
structure and are one state machine with a step per turn of a loop; `console`
tells them apart where they differ (the carriage return, `0x`, the count for 0).
A call is a sequence of pieces; the code sees the format and the argument words
made of it. `FormatAssumption` says that the arguments are what the directives
take, and that the characters include those the functions print themselves.

**Chs.** Both `lba_to_chs` routines down to the registers, with their widths, and
the BIOS's reading of the registers (external).

**Loader.** Stage 1 as far as its one read; stage 2 with one step per INT 13h.
Any call may fail, and a sector that the drive does not have always fails. The drive
and the volume on it are two things: a sector behind the end of the volume can be
read if the drive has it. What is on the disk (format, directory, table) is chosen in
the initial state, broken and cyclic chains and first clusters of any 16-bit value
included. The fields of the BIOS parameter block are read from their bytes
(`read_le16`, `read_le32`), names are compared with `memcmp`, the table is read
through its packed bytes, and a sector is read through `Chs`, where cylinders past
1023 wrap. An entry behind the table in memory is any value of `Garbage`. `linear` is
the address the file has come to; offsets and segments are cut to 16 bits as in the
code. A sector stored outside the memory for the table or the kernel overwrites
something else, and the model ends there (`"overrun"`). `hardError` is auxiliary: a
sector that the drive has could not be read in three attempts.

**MC modules** instantiate; values are in the `.cfg`, or for sets of records in
the MC module.

## What the runs check

| run | instance | result |
|---|---|---|
| `scheduler_tasks` | 4 tasks, slice 2, task 0 may stop, fair | contexts and stacks, ids, one running task, round robin, no starvation, no lost wake-up, implements `TaskLifecycle` |
| `kernel_ticks` | 2 tasks and idle, slice 2, exceptions 6 and 14, fair | interrupted tasks restored to the word, each interrupt ended once and by its handler, no nesting, sections exclusive, implements `Scheduler` |
| `physical_race` | 2 callers | **violated**: see below |
| `kmalloc_heap` | 112 bytes, six request sizes, fair | the list tiles the heap between calls and between turns of their loops, full coalescing, calls return |
| `kmalloc_wrap` | sizes up to the largest `size_t` | **violated**: see below |
| `paging_map` | 6 pages, 3 tables of 5 | coherent TLB, private tables, one translation per call; counter equals bitmap; reserved, owned and free pages partition memory |
| `paging_reach` | the same | **violated**: see below |
| `keyboard_keys` | 6 keys, up to 2 codes before another key | shift state follows the keys; keys type what was held |
| `keyboard_led` | the same, a controller that is ready | **violated**: see below |
| `vga_pages` | 4 lines of 3, screen of 2 | screen shows the viewport, viewport in range, text kept |
| `format_text` | words of 8 bits, calls of up to two pieces | each piece rendered in its place; `fvga_write` counts what it wrote |
| `loader_boot` | 12 formats, 20 directories, 243 tables, fair | an intact kernel starts whole, and no other on an `Enclosed` volume; no failure without cause; table lookups inside the table on an `Enclosed` volume; nothing stored outside the memory for it unless table or file is too long; termination; stage 1 loads stage 2 from its sectors |

**Disagreements between code and documentation.**
`kmalloc_wrap`: a size within 7 of the largest `size_t` is rounded to 0 and
`kmalloc` returns an empty block. `physical_race`: `physical_alloc_page` tests and
sets a bit with interrupts on, so two tasks that are preempted in it get one page;
no two tasks in the tree allocate at the same time yet. `paging_reach`: a page
table outside the identity-mapped range, or whose identity mapping was removed,
is not accessible where `physical_to_virtual` says. `keyboard_led`:
`keyboard_wait_input_clear` waits for the input buffer to be full, so with a
ready controller the light is never set.

Further remarks come from reading the code and have no run. The directory entry
`paging_map` creates lacks the user bit, so `PAGE_USER` has no effect
(`kernel/mm/paging.c:181`). `ticks` counts timer interrupts served, so periods that
end while one is pending are merged (`kernel/drivers/timer/pit.c:25`). For 0,
`print_unsigned` of stage 2 returns the character's code, 48, where its comment
says the number of printed characters (`boot/stage2/lib/print.c:66`); `Format`
has this behaviour, and as no caller uses the result of `printf`, `CountExact` is
about `fvga_write` only. `fat_load_file` compares no cluster number with the volume or
the table, and no length with the memory that is left
(`boot/stage2/stage2.c:242`, `:261`, `:281`). Stage 2 relies on the read of a cluster
that does not exist to fail, which it does if the volume is `Enclosed`: it takes up
the drive, its table has an entry for each cluster, and INT 13h can address what the
cluster numbers stand for. On other volumes a file with a broken chain is loaded from
sectors that are not its own and started. A table longer than its room, or a file
longer than memory, overwrites what follows. The properties of `Loader` name these
conditions.

**Bounds.** Four slots give the round-robin search a slot before, at and after
the current one besides slot 0, and let a slot be reused while others live; a
slice of 2 has a tick inside and one at its end. `kernel_ticks` has one user task
beside the kernel's and the idle task: enough for a task to be preempted in the
middle of everything another may do, and for a stack to be reused. The two
exceptions are one with and one without an error code; ticks wrap at 2. With
three tasks the safety properties of the same module hold as well (901828 states),
and so does `ImplementsScheduler` without stopping of task 0 (250420 states, ten
minutes); those are too slow to keep as runs, and the proofs cover safety for
every number. Six pages in words of four bits leave unused bits in the last word,
the heap range ends inside a page, and tables of five entries put one allocatable
page above the identity map. The heap of 112 bytes holds up to four blocks; the
sizes reach both sides of the split test, an exact fit and a request that cannot
fit. Two codes under way before the next key, up to six with a grey key under
shift, let a shift be released before the code of the key is read. Four lines
behind a screen of two let the user scroll up by a page before the buffer runs
full; three columns and tab stops of two make tabs wrap. Every 8-bit number is
formatted in each base, the most negative one included, and every pair of a set
of pieces with all directives is tried, so that an argument taken twice or not at
all shows in the next. The loader runs on a drive of 6 sectors, 2 heads and 260
cylinders with stage 2 and the data of most volumes behind cylinder 255, so that both
routines need the high bits of the cylinder. Six formats are accepted: clusters of one
and of two sectors, the last one cut short or not, on volumes that take up the drive
and on ones that do not, a table without the entry of the last cluster and one that
does not fit into its room. The six that are not cover zero fields, too many clusters
(one by the third byte of the 32-bit count), a disk smaller than its directory and an
empty directory. First clusters of more than 12 bits lie beyond the drive, wrap around
to a sector that the drive has, and have their entry behind the table or wrapped
around to its beginning; 0xFF7 and 0xFFF are among them. Sectors of eight bytes hold
two directory entries, so files and the end mark lie in both sectors; the table spans
two sectors, with entries across their border; sizes end inside and at the end of
sectors and clusters. Memory ends behind the fourth sector of a file, at 1 MiB, where
the segment wraps.

**Fairness.** In `Scheduler`, `WF(Tick)`: the PIT interrupts periodically and no
code modelled here leaves interrupts off; `Kernel` shows that this follows from the
following. The PIT is periodic (`WF`), handlers and sections wait for nothing
(`WF`), with the flag set the CPU looks for requests before each instruction, so
one it can take again and again is taken (`SF`), and `kmain` gets to `sti` (`SF`,
as it alternates with its own output). In both, `SF` of the `int $49` in
`task_block`: a task that gets the CPU there again and again executes one more
instruction some time. `WF` of the steps inside a heap call: the loops wait for
nothing. In `Loader` INT 13h returns (`WF`), with any result. Nothing is assumed of
when tasks yield, block or exit.

## What is proved

Every theorem holds for all values of the constants that satisfy the named
assumptions of its module, which TLC evaluates in the runs. Most of them
say which constants are positive numbers, how the sizes fixed in the headers relate
(the heap is a multiple of 8 bytes, kernel and stack lie in the reserved low pages,
a screen is no longer than the buffer), and which values the inputs come from. Three
are about the loader.
`GeometryAssumption` says that the drive has at most 63 sectors per track, 256
heads and 1024 cylinders, as INT 13h can address no more, and that the parameter
block stage 1 is assembled with describes the drive. `MemoryAssumption` says that
the table is loaded below the kernel and both in the first megabyte. `DiskAssumption`
says of a disk whose format stage 2 accepts that its sectors have the drive's size and
that the drive has its tables and its directory; entries of the directory have a
16-bit first cluster and a 32-bit size, those of the table 12 bits. Nothing else is
assumed of the entries or of the chains, nor of how long volume and table are. Where a
property holds only for some volumes it says so itself (`Enclosed`, `Fits`). Checking
all proofs from nothing takes about three quarters of an hour.

**SchedulerProofs**: the safety properties of `scheduler_tasks`, three more
(`IdsFollowSlots`, `IdleIsFinal`, `KernelBlockIsFinal`), and that `Spec` implements
the `Spec` of `TaskLifecycle`. The properties are not inductive alone. `IndInv` adds
to the type invariant that ids follow slots (`IdsInOrder`), that the idle task never
ends, that only the current task runs (`CurrentRuns`), and that every live task is
on its home stack with a good context (`OnHomeStack`). Without the order of ids two
tasks could get one stack: a new slot takes `nextTaskID`, which is unused only
because slots are filled in order. One lemma per kind of step shows that `IndInv` is
kept; `ScheduleSwitches` says once what `scheduler_schedule` does for all its
callers. `IdleInv` adds that nothing is ready while idle runs.

**KernelProofs, part 1 (`Frames`)**: for every vector but 29, popping undoes pushing (`FrameGoesBack`),
and the frame of a new task pops to its entry (`NewTaskFrame`). The frame is pushed in
three parts of different lengths; `PushedWords` says that its words are at the same
places whatever the vector. Only the stub of 29 pushes a 0 besides the CPU's error
code.

**KernelProofs, part 2 (`Interrupts`)**: the five safety properties of `kernel_ticks`, for any stacks
and any choice of the stack that is returned to. `HandlerInv` says which steps a
handler can be at for its vector, that only the current stack has one, and that an
interrupt is in service only until its handler sends the first end of interrupt;
so the second end of interrupt of the keyboard path and that of a spurious
interrupt find nothing in service. `FrameInv` says what each stack holds: a frame
that gives a task back (`GivesBack`), on top of its own words.

**KernelProofs, part 3 (`Kernel`)**: `Kernel` implements `Scheduler` (safety) and then `Interrupts`, so
the properties of both hold in it. The second needs the first: a new frame must be
written to a stack that no one uses, which follows from `IndInv` of the scheduler.

**PagingProofs, part 1 (`Physical`)**: counter, partition and types. `ReserveRange` says what one range
does to bitmap and counter whatever was reserved before; five uses of it make
`InitInv`, where ranges overlap. The invariant is the three properties together.

**PagingProofs, part 2 (`Paging`)**: `Paging` implements `Physical`, so its counter and partition are
right; TLB, tables and single translations. `TablesInv` says that no two directory
entries have one table, which makes a write to a table change one translation only,
and that the pages of tables are owned, so that a page the allocator hands out is
never one already.

**KmallocProofs**: tiling, coalescing, completeness of the search, held blocks, and
that requests are covered if none is within 7 of the largest `size_t` (the case of
`kmalloc_wrap`), all between calls and between the turns of their loops. `HeapInv` is about the list; `BehindPtr` says what each loop has
established for the blocks it has passed, which the properties need at its end.

**DriverProofs, part 1 (`Keyboard`)**: the two properties of `keyboard_keys`, for any keys and any
number of codes under way. Both relate the driver to keys that may have changed
since, so neither is inductive. The invariant is that the codes under way lead the
driver from its flags now to the shift keys that are down now, with no prefix left
over and every character typed as it was held (`Leads(Now, codes, Then)`). A run of
the driver over the codes is a sequence of states that begins with `Now` and ends
with `Then`. A key extends it at the end (`LeadsAppend`, and `LeadsPrefixed` and
`LeadsTwoPairs` for grey keys with their prefixes and fake shifts); a read takes
its first step. With no code under way the run is empty, which gives
`ShiftTracksKeys`.

**DriverProofs, part 2 (`Vga`)**: the three properties of `vga_pages`. The invariant is types, viewport
and screen together: a cell is drawn at once exactly if `vga_render` would draw it.

**LoaderLemmas** and **LoaderProofs**: the four safety properties of `loader_boot`, for
every drive and every disk of the assumptions: sectors, clusters, tables and
directories of any size, any entries, any 16-bit first clusters, and chains that are
cyclic or leave the volume. `LoaderLemmas` is about the operators. Both routines that
turn a sector number into an address give one that INT 13h takes to the same sector
as long as the cylinder has 10 bits (`Int13Reads`, `Stage1Reads`); the fields are put
together from their bytes as they are on the disk (`Fields`); `fat12_next_cluster`
takes out of the packed bytes what was packed (`NextCluster`); `memcmp` and the
comparison of names decide equality of names (`Memcmp`, `MatchesName`). `LoaderProofs`
has one lemma per kind of step. `SearchInv` says that the entries of the sectors read
so far neither end the directory nor are the file (`Passed`), so the first one that
decides is the right one; and that the second name is only looked for if the first is
not on the disk, or a read failed. `LoadInv` says that `linear` is behind the sectors
loaded, and how far the load has come (`Loading`): loaded and remaining bytes make up
the file's size; if the file has a chain, or the volume is `Enclosed`, the loader has
followed the chain for k links and holds the sectors of the clusters passed, in order.
The clusters passed are there as a function whose existence is asserted, extended by
each step, so that no induction is needed. That the chain is broken is known only at
the cluster where it breaks; `Loading` says that every chain of the file leads there,
which is what `GivesUpForCause` needs. On an `Enclosed` volume each cluster whose
sectors could be read is one of the volume (`ClusterReads`), so its entry is in the
table, which gives `TableLookupsInside`, and at the end the clusters passed are a
chain, so the file is intact. The last cluster of a volume may be cut short, and a file
that ends in it is whole if its own sectors are there.

**FormatProofs**: the two properties of `format_text`, for any characters, strings
and calls and for words of any even range, and that the digits fit in the buffer.
What is printed depends on all of the call, so the proof is by induction over
data. `Concat` and `Power` are defined by recursive functions; `ConcatValue` and
`PowerSteps` say what these compute, from `Induction`, which follows from the
well-foundedness of `<` (`NatLessThanWellFounded`, `WFMin`) with the property to
prove taken as a set. From there on, a sequence of pieces is used through `Spelled`:
what all its elements stand for is that of the first and that of the rest. The
invariant `FormatInv` says that the scan is before some piece, that format and
arguments are those of the pieces from there on (`Left`, `Owed`), and that what the
pieces before it are rendered as is shown (`Done`); within a string or a number, so
is the first part of its rendering (`Within`). While digits are collected, `value` is
the quotient of the number by a power of the base, the buffer holds the digits below
it, and the digit collected last is no leading zero (`Collects`); so when `value`
gets to 0 the buffer holds the shortest numeral backwards (`Collected`). `RendersCall`
is the case of the last piece. `CountExact` follows with one more invariant, that
`fvga_write` has counted what it has written, which needs that the screen shows each
character as one (`ScreenShows`). `BufferFits` is about `char buffer[16]`
(`print.c:69`, `vga.c:155`): a digit is collected only while the power of the base
so far does not exceed the number (`RoomLeft`). Its theorem assumes that
words are below the 16th power of either base, a number too large for TLC.

Only model-checked: liveness (`NoStarvation`, `WokenTaskReturns`, `CallsReturn`,
`Terminates`) and the fairness parts of `ImplementsLifecycle` and
`ImplementsScheduler`, which are beyond the prover. `TypeOK` of `Physical`,
`VgaTypeOK`, `KeyboardTypeOK` and `BufferFits` are proved and are in no run.

## Not modelled

Serial output (`kernel/main.asm`), descriptor tables, the control-register helpers of
`paging.c` and the switch to protected mode configure devices once and have no
protocol. The three functions that set the screen's colours change one variable that
is part of a cell's value here. The NMI ignores the interrupt flag, which the code
does not provide for, and vector 29 belongs to encrypted virtual machines. Stage 1's
`disk_read` and `disk_reset`, and `strlen`, `strcmp` and `strncmp` of stage 2, are
never called. That stage 2's sectors lie in the data area without an entry in the
table is a matter of how the image is built. A keyboard that stops scanning after an
abandoned 0xED is left out. `kfree` of what the caller does not hold is outside the
contract. Concurrent callers of the heap would meet the same race as those of the
page allocator and are not modelled again. The stale-id wake-up (an id kept after
its task ended names the next task of the slot) is a property of the interface: ids
carry no generation. Hazards without a property are in `PROJECT.json` with the
reason.
