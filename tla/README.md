# A TLA+ model of the DEER kernel

DEER is a small x86-64 kernel in C, booted by Limine.  This directory holds a
model of it: TLA+ modules, TLC configurations and TLAPS proofs.  Paths below are
relative to `src/kernel/src/` of the repository unless they say otherwise.

## 1. The system

| Component | Files | State | Operations |
|---|---|---|---|
| Physical memory manager | `memory/pmm.c` | `bitmap`, `used_pages`, `total_pages`, the memory map | `pmm_init`, `pmm_alloc_page(s)`, `pmm_free_page(s)`, `find_free_pages`, the reports |
| Kernel heap | `memory/heap.c` | `kernel_heap`, the block headers in the heap's own memory | `heap_init`, `kmalloc`, `kfree`, `krealloc`, `kcalloc`, the reports |
| Paging, address spaces | `memory/paging.c`, `memory/vmm.c` | four levels of page tables, `kernel_space`, CR3, the TLB | map, unmap, query, create / destroy / switch a space, the page fault handler |
| SMP start-up | `sys/smp.c` | `smp_state` | `smp_init`, `smp_start_aps`, `ap_entry`, IPI helpers |
| Tasks | `tasking/task.c`, `tasking/context_switch.asm` | the ring of tasks, `current_task`, saved contexts | init, add, pick the next ready task, the tick, save and restore |
| Interrupts | `interrupts/{idt,isr,irq}.c`, `isr_asm.asm` | the IDT, `isr_handlers[]`, `irq_handlers[]` | install, dispatch, end of interrupt |
| PIC and PIT | `drivers/{pic,pit}.c` | masks, `pit_ticks` | remap, mask, EOI, sleep |
| Local APIC, I/O APIC, HPET | `sys/apic.c` | `apic_state`, the interrupt command register, redirection entries, the timer | initialisation, IPIs, calibration, the timer interrupt |
| ACPI | `sys/acpi.c` | `acpi_state` | find and verify tables, shutdown, reboot |
| Boot sequence | `kernel.c` | which subsystems are up, the interrupt mode | `kernel_main` |
| Console | `libc/stdio/printf.c`, `graphics/{fb,banner}.c` | the cursor, colours, the framebuffer | `printf`, scrolling, drawing |
| Serial port | `drivers/serial.c`, the `S` in `context_switch.asm` | `is_initialized`, the FIFO of the 16550 | initialise, wait until ready, put a byte |
| String library | `libc/string/` | none | copies, comparisons, `itoa` |
| GDT, SIMD, AES header | `sys/gdt.c`, `simd/`, `include/crypto/aes.h` | descriptors, control registers | set and load segments, detect and enable SSE, copy with vector registers |

**How they interact.**  `kernel_main` initialises everything in a fixed order on
the boot processor: GDT, PMM, paging, heap, VMM, PIC, IDT, ACPI, APIC, SMP, the
timer, and then the tasks.
The heap maps its arena page by page with `pmm_alloc_page` and
`paging_map_page`; page tables take their frames from the PMM; a fault on a heap
page makes `handle_page_fault` do both at once.  `ap_entry` runs on every other
processor and calls `pmm_alloc_pages` and `paging_map_page` with no lock.
The timer interrupt calls the handler in `irq_handlers[0]`; no interrupt arrives before
the first task runs, because the boot processor never loads the IDT (`idt_load` is called
only by `ap_entry`) and never sets the interrupt flag.  `kernel_main` calls
`setup_and_start_tasks`, which switches to the first task, before `display_system_info`.

**What is hard.**

* *Interleaving.*  Nothing in the kernel takes a lock, yet `smp_start_aps` lets
  several processors into `pmm.c` and `paging.c` together, and polls a status
  that they change.  `started_count` is written by two parties.  All of them print on one
  serial port, and between a writer's test of the port and its output anybody may put a byte.
* *Long legal sequences.*  The heap's list is cut and merged in any order of
  calls; the page bitmap and its counter must survive every order of
  allocations and releases; page tables are created on the way down and are
  given back by `vmm_destroy_space`.
* *Partial failure.*  A mapping may run out of frames half-way down; a page fault
  may allocate a frame and fail to map it.
* *Boundaries.*  `size_t` wraps in `kmalloc` and `kcalloc`; memory map
  entries need not be page aligned; the first-fit search counts runs that reach
  the end of the bitmap; `memmove` and the copies with vector registers have cases that meet.
* *Waiting.*  The serial port is polled without a bound; `ioapic_init` walks on by lengths it reads.
* *Staleness.*  The TLB keeps translations that tables no longer hold; the kernel
  half of a `pml4` is copied once, when a space is made.

The full list, each item at its line, is the `hazards` part of `PROJECT.json`.

**What makes each part correct.**  PMM: no page has two holders, none is lost,
and a request is refused only when no run is long enough.  Heap: live
blocks are disjoint, aligned, long enough and stay put; freeing everything restores
one block.  Paging: a frame has one role; a change reaches one page; all spaces
agree on the kernel half; the TLB is never stale.  SMP: a processor seen RUNNING
is set up, stacks are exclusive, the boot processor always comes back.  Tasks: a
task resumes with the registers it was stopped with.  Interrupts: each
gets exactly one end-of-interrupt at the controller in use.  Boot: a
component is used only after its initialisation succeeded, and the boot comes to the tasks.  Console: the screen
shows the end of what was printed, and `printf` prints what the format means.  Serial port: no byte is lost or out of order.

## 2. The modules

```
PageRuns ----> FrameAllocator  <== refined by ==  Pmm ---> MCPmm
    |                                              |
    |                                              +-----> PmmProofs
    +--------> PmmScan ---> PmmScanProofs

AbstractHeap  <== refined by ==  Heap ---> HeapProofs

VirtualMemory  <== refined by ==  AddressSpace ---> MCAddressSpace
                                       |
                                       +----------> AddressSpaceProofs

SmpStartup ---> SmpProofs

AcpiTables ---> Boot ----+                  Strings ---> Printf --+
    |            |       +---> MCBoot                             +--> Terminal ---> MCTerminal
    +--> MCAcpiTables ---+                  Console --------------+        |
                 |                                                         +------> TerminalProofs
                 |
                 +-----------> BootProofs

Serial ---> MCSerial                        Tasking
    +-----> SerialProofs
```

### Pmm, FrameAllocator, PmmScan, PageRuns

`Pmm` is the bitmap allocator.  Its variables are the static variables of
`pmm.c` (`memmap`, `bitmap`, `used_pages`) and two that only record
what happened: `holders` counts how often a page has been handed out and not
returned, `ret` is the last request with its answer.  The initial state
is the one `pmm_init` computes from a memory map: the actions are
`pmm_alloc_pages(count)` (of which `pmm_alloc_page` is the case `count = 1`) and
`pmm_free_pages(start, count)`.  A memory map is a sequence of byte ranges; an
unusable one may begin or end inside a page.  `InitCalls` keeps the
calls of `bitmap_set` apart from the bits they set, because `used_pages` counts calls.

`FrameAllocator` is what the rest of the kernel relies on: a set of free frames,
a grant that removes a run of them, a refusal that is allowed only when there is
no such run.  `Pmm` refines it with `free <- FreePages(memmap, bitmap)`.

In `Pmm` the search is one operator, `IsFirstFit`.  `PmmScan` is the loop of
`find_free_pages` itself, an iteration a step, and shows that its counter and
its remembered start compute that operator.  `PageRuns` has the vocabulary both share.

### Heap, AbstractHeap

`hdr` is the memory that holds headers: a function from the addresses of the
blocks on the list to their `size`, `used`, `next` and `prev`.  One action per entry
point; `Take` is the split in `kmalloc`, `Release` the two merges in `kfree`,
in the order of the code, and `krealloc` is the composition the code makes of
them.  `size_t` arithmetic is modulo `WORD`.  `HEAP_END` and the addresses do not
wrap (`HeapAssumption`).  Freeing a block that is not used does nothing, as in the code.

`AbstractHeap` says what a caller sees: live pointers with lengths, a fresh block clear
of all others, a `krealloc` that stays or moves.  Its `Largest` is there because a
request within `HEAP_ALIGNMENT` of `SIZE_MAX` wraps to a small one in
`kmalloc` and is *served*: the promise "at least as long as
asked" stops at `WORD - HEAP_ALIGNMENT`.  `kcalloc` multiplies in `size_t` too:
the promise is about the product as it is computed.

What `kcalloc` and `krealloc` write matters to the list, because the headers lie between the payloads.  `wrote` records the
last `memset` or `memcpy` (where, from which block, how many bytes), and `Overwrite` takes the headers it ran over off `hdr`.
The model shows that this is a defect of the code, not only a possibility: a request that wraps is served with one header's worth of
bytes, and `memset(ptr, 0, total)` of `kcalloc` then zeroes every header behind it (`heap.c:160`), while
`memcpy(new_ptr, ptr, block->size)` of `krealloc` copies a longer block into the short one (`heap.c:179`, `Trampled`).  From there on
the list is a matter of what bytes the callers had stored, so such a state, `Overrun`, is where a behaviour of the model ends (for
`krealloc`, at the copy, before the `kfree` that reads the result), and `Tiled`, `Coalesced`, `WholeWhenFree`, `SearchFindsRoom` and `CountersExact`
speak of the states up to it.  *When* it can come is the refinement's matter: `AbstractHeap` lets a
call write past its block only if more than `Largest` was asked for (`Ruin`); for every other request `Calloc` clears and `Move` copies inside
the block, all of the old contents included.  What a caller of plain `kmalloc` writes is not modelled.

### AddressSpace, VirtualMemory

The tables are a function from frames to functions from index to entry.  `Descend` is
one step of `get_next_table` with `create`, which takes a frame and
keeps it even if a later level fails.  `paging_map_page` and `vmm_map_page`
share `Finish`; the former invalidates the TLB entry, the latter does not.
`vmm_destroy_space` gives back the lower half as the code walks it.  `heap_init` is one round of the
loop that maps the heap's pages at boot, which gives back the frame it could not map; `Heap` has what it makes of the pages.
`Translate` is the processor filling its TLB at any time.  Two paths of the code lose frames.  `addr & ~0xFFF` leaves the no-execute bit in
the address, which `pmm_free_pages` then rejects as out of range: `lost` collects the frames of no-execute pages that were unmapped.
And `handle_page_fault` keeps the frame it could not map, and halts: nothing in the state records that one.  `NoLeak` says that no
other path loses any: what nobody has (`Gone`) is nothing or, when the processor has halted, one frame.  No property calls the two losses wrong.

`VirtualMemory` is what a caller sees: spaces that translate pages, and no tables.  A call maps a page that is unmapped
or withdraws one that is mapped, in one space or, of the kernel's pages, in all of them; creates a space that has the kernel's
pages and no other; ends one, and no other changes; or changes nothing, which is what a call that runs out of memory on its way
must come to.  A frame may get a role only when it is behind no page and tops no space, so no two user pages ever
share one.  `AddressSpace` refines it with `view <- View`, what the walks of each live space find, and `current <- cr3`.
In `Map` the new entry is read from the next view, so that TLC has one to check and not all to try.

The callers' protocol is in the guards and is what the code's callers do: they
map frames they allocated, at pages not mapped yet, never destroy the space they
run on, and map kernel pages only below `pml4` entries that exist.

### SmpStartup

`smp_start_aps` on the boot processor against `ap_entry` on every other.  The
accesses to shared memory in `pmm.c` and `paging.c` are separate steps: one look at
one bit, the load and the store of `bitmap[i] |= bit`, the look at a table entry and
its update.  Pages share one byte of the bitmap, so updates can be lost: the
model has those behaviours and `overlapped` records that two processors were
inside at the same time.  `in_use` is any set of pages of `Layouts`, and never changes.  `set_gs_base` writes the entry of
`smp_state.cpus` and the register; `gdt_load`, which `ap_entry` calls next, loads the data segment into `%gs` and with it the
base 0: `RunningIsSetUp` says that the entry is right and the register is 0.  What is claimed unconditionally and what is claimed only
without overlap are separate invariants.

### AcpiTables, Boot

`AcpiTables` is `acpi_init`: the pointer, the root table, and the four searches of
`acpi_find_table`, two of them before `acpi_available` is set, which refuse.  A step is one
entry of the root.  Which mapping fails is left open at each page; a table or a root may go on in
a page that nobody mapped, and reading it there ends the boot (`Fault`): the code maps the
first page of a table only.  `MCAcpiTables` has the firmwares: every list of up to two
of six tables (null, good, damaged, unrelated, two of a kind), in an XSDT or an RSDT.

`Boot` EXTENDS it and adds the rest of `initialize_subsystems` from `gdt_init` on, the initialisation of memory
left out: a call is an action, `stage` is the next one, a step of `acpi_init` is a step of
`AcpiTables!Next`, and a step of `ioapic_init` is one entry of the MADT.  Its state is the configuration that results: the
descriptors, the masks and vectors of the 8259s, the gates, the two tables of handlers, `apic_state` and the local APIC.
An entry of the MADT has the length it claims, which may be 0.

### Strings, Printf, Console, Terminal

`Strings` is the string library and the copies of `simd/simd.c` as operators on a memory of bytes; each loop is a function
from the number of rounds to what they leave.  `StringsExact` compares each with a definition that has no loop: what is
moved is a stretch of bytes, a text ends at its first zero, a comparison is the order of a dictionary.

`Printf` is the scan of a format, one character a step, with `putnumber` and `itoa` as operators;
its invariant compares with `Meant`, a reading of the format that does not scan, and with `Numeral`, the
digits of a number from their places.  `ArgumentsAssumption` says that a call passes an argument for each conversion of its format,
which every call of `printf` in the kernel does; without it the scan would take arguments that nobody passed.  `Console` is `putchar`: the cursor, the
wrapping, the backspace and the scrolling, on a framebuffer that is the set of its coloured pixels.  A pixel
carries the number of the character that coloured it, so that remains of an old character
differ from a new one.  `ShowsTheTail` compares the screen with `Shown`, the end of the text on a page of lines (`Page`),
for every text without returns and tabs, which nothing in the kernel prints; blank lines, also at the beginning, are
texts like others.  A glyph moves the screen up by one line, so the glyphs of a line that is due further below the foot are cut
off until that line has come up (`cut`): those are lost, and the property says that nothing else is.

What a loop, a text or a format comes to is a recursive *function* in these modules (`Power`, `Digits`, `PageOf`, `Meant`, the
loops of `Strings`), never a recursive operator, so that the prover can follow it.

`Terminal` composes them: calls of `printf` follow one another, each character that a scan puts goes through `putchar`
before the scan goes on, and `printf_clear` may come between calls.

### Serial

The writers are what prints at the same time: the boot processor, the others in `ap_entry`, the handlers of
interrupts.  A writer has a text; `serial_putc` is three steps, the initialisation, the ready test and the output, and a newline
takes the last two twice.  `switch_to_task` puts its `S` in one step, without the test.  The port is a FIFO that
loses what comes when it is full, says it is ready when it is empty, and sends a byte at a time (`Transmit`).
`taken` records every byte the port has taken, so that a lost, repeated or reordered byte can be stated.

### Tasking

A `struct task` is memory: `task_init` writes a field at its offset in the
declaration of `task.h`, `switch_to_task` and `save_current_context` read and write
the offsets of the comment in `context_switch.asm`.  The two differ (below), so the first
`iretq` faults; the tick and the scheduler are there, as the code has them, and
no behaviour reaches them.

## 3. The runs

| Run | Question | Bounds |
|---|---|---|
| `pmm` | Does every order of allocations and releases keep the bitmap, the counter and the holders consistent, and does it refine `FrameAllocator`? | four memory maps of up to 16 pages: page-0 usable and not, two entries in one page, holes, ties for the largest region, a two-byte bitmap; requests of 0 to 3 pages |
| `pmm_scan` | Is the loop a first-fit search, for every set of free pages? | all subsets of 8 pages, counts 0 to 4 |
| `heap` | Do the list, the counters and the blocks survive every order of calls? | an arena of 40 bytes, headers of 4: up to five blocks; sizes 0, 1, 5, 12 and 63, the last of which wraps |
| `address_space` | Do frames keep one role, and does it refine `VirtualMemory`, through creation, mapping, faults, unmapping and destruction? | 7 frames, tables of two entries at four levels, one user and two kernel pages |
| `smp_startup` | What survives when the processors start with no lock? | three processors, pages 1 to 4 of which one, two, three or all are in use, two polls, two calls |
| `smp_count` | Is the number of processors reported the number running? **No** | two processors |
| `terminal` | Does every format print what it means, does the screen show the end of what was printed, and are the string functions right? | a first call with a format of up to two of 19 pieces and two arguments of five words, then calls of one character and clears, up to 8 characters since a clear; a framebuffer of 6 by 6 pixels with cells of 2 by 2 and a margin of 1; longs of 5 bits and ints of 4; memories of 20 and 6 bytes, vector registers of 4 |
| `serial` | Does the port take and send every byte while several print? | two processors and a handler, texts with newlines and with two switches, a FIFO of 4 |
| `boot` | Are the tables in use verified and none missed, does every interrupt that can be raised have a gate, a handler and the right timer, and does the boot end? | root tables of up to two of seven entries, MADTs of up to three entries, six pages, three interrupt lines, one of them on the second controller |
| `acpi_fallback` | Is the RSDT used when the XSDT cannot be mapped? **No** | the same firmwares |
| `boot_pic` | Do the 8259s stay disabled in APIC mode? **No** | the same |
| `tasking` | Does a task start with what `task_init` prepared? **No** | the two tasks of the kernel |

Why the bounds are enough.  `pmm`: the maps contain each
geometry in which `pmm_init` and the search differ (partial pages, page 0, holes, adjacent
regions, both ends of the bitmap), and runs of three span a boundary between regions.
`heap`: a free block may have zero, one or two free neighbours, at the beginning, in the middle and
at the end of the list, which is every case of `kfree`; a block may be split exactly, with a
remainder too small, and with a remainder; 63 wraps, alone and as a product, so that blocks are overrun by `memset`
and, with old blocks longer than a header's worth, by `memcpy`.  `address_space`: seven frames are enough
for the boot tables, one more space and its path, and too few for two spaces and both
mappings, so exhaustion happens at every level.  `smp_startup`: three processors are two
that overlap, or that do not.  With three pages free both get their stacks and the table, one after the other, and the stacks are compared; with two the
first takes both and the second halts; with one, memory runs out between stack and table.
`terminal`: eight characters fill the two lines, scroll, and go on for two more lines, or begin with blank lines, or leave some at
the bottom, so that glyphs are cut and others follow; a tab reaches columns
off the grid, from which backspaces approach 0; two pieces are two directives, so that flags
or arguments of one can leak into the other; the words are zero, the smallest long, a negative and a
positive long, with ints of each kind; in a buffer of five registers up to ten bytes are copied between ranges
that are apart, with every head up to alignment, one register or two, and every tail, and the texts are all of those in 6 bytes, one, two or more of them, with and without spaces.
`serial`: a FIFO of 4 is the least that `SerialAssumption` allows for three writers, and all three
can be between test and output at once, with an `S` in front of them.  `boot`: two entries put a skipped, a damaged or an unrelated
one before or after the one searched for, which is every case of a loop that looks at one entry at a time.

Deadlock is not an error in these runs because the callers may stop calling: `PmmScan` ends
when the loop returns, `AddressSpace` when the processor halts, `SmpStartup` when every processor sits in `hlt`,
`Terminal` when the bound on the text is reached, `Serial` when everything is sent, and `Boot` when the tasks are started.

**Fairness.**  `PmmScan` assumes the loop is run on (weak fairness of its
step): it is straight-line code.  `SmpStartup` assumes weak fairness
of the boot processor's steps inside `smp_start_aps` and of each other processor's
steps once it has its entry point: processors are independent hardware and execute with interrupts off.  No
fairness is assumed of the *call* of `smp_start_aps`, which the kernel never makes.
Under this, `BspReturns` holds whatever the others do, because the polling is
bounded, and `ApsSettle` holds because the setting up has no loop but the bounded search; `EverybodySettles` is both.
`Serial` assumes weak fairness of the port, which sends as long as it has something, and of each writer: a processor runs on, and
an interrupted writer does when the handler returns.  That is enough although the port must be found *empty*: the texts are finite,
so the others cannot keep it busy for ever.  `Boot` assumes that the boot processor runs on.  `Terminal` needs no fairness.

### Disagreements between the code and what it says

* `smp_count`: `smp_start_aps` assigns `started_count` from its tally while an AP that
  has already been tallied as RUNNING still has its atomic increment to do; the
  count printed as "running" (`kernel.c:197`) then exceeds the number of processors.
* `acpi_fallback`: the message "falling back to RSDT" (`sys/acpi.c:105`) is all that happens:
  the branch that assigns `acpi_state.rsdt` is the other one, and no table is found.
* `boot_pic`: after "APIC mode enabled, PIC disabled" (`sys/apic.c:435`) `irq_init` installs 16 handlers, each
  of which unmasks its line (`interrupts/irq.c:55`): no line of the 8259s is masked at the end.
* `tasking`: `context_switch.asm` has rflags, rsp, ss and cs at 128, 136, 144 and 152, "see task.h"; `task.h:14`
  declares cs, rflags, rsp, ss there.  The first `iretq` takes 0x10, the data segment, as cs.

Six more are noted, and no run shows them as violations: `gdt_load` in `ap_entry` (`sys/smp.c:52`) resets the GS base that was
written two lines before, so that `smp_get_current_cpu` would return NULL on an application processor; an unmapped no-execute page and
a heap fault that cannot be mapped lose a frame each; the "free pages" of `pmm_init` count
holes of the memory map; `%d` of a negative int prints a large number (no caller passes one); after two newlines
at the bottom of the screen the next glyph is cut off, because a character scrolls one line at most (`cut` in `Console`).  And `putchar` puts a
carriage return before each newline (`libc/stdio/printf.c:102`), as `serial_putc` does again (`drivers/serial.c:30`): a
line printed by `printf` ends with two of them on the serial port.

## 4. The proofs

All theorems hold for every value of the constants that satisfies the named assumptions.  The safety theorems are of
the form `Spec => []P`, the refinements `Spec => AbstractSpec`; there is a theorem for each safety property and each
refinement of the passing runs:

| Module, assumptions | Theorem | States |
|---|---|---|
| `PmmProofs`, `PmmAssumption` | `PmmCorrect` | `TypeOK`, `NoSharedPage`, `BitmapExact` and `Accounting` together |
| | `PmmTypes`, `BitmapIsExact`, `AccountingIsKept` | the parts of it |
| | `PmmRefines` | `Pmm` implements `FrameAllocator` |
| `PmmScanProofs`, `ScanAssumption` | `FindFreePagesCorrect` | the loop finds the first fit |
| `HeapProofs`, `HeapAssumption` | `HeapListCorrect` | `TypeOK`, `Tiled` and `Coalesced` together |
| | `HeapTypes`, `NeighboursAreMerged` | the parts of it |
| | `FragmentationEnds` | `WholeWhenFree`: when nothing is live the heap is one block |
| | `HeapRefines` | `Heap` implements `AbstractHeap` |
| | `SearchIsComplete` | `SearchFindsRoom` |
| | `AlignmentIsKept` | `PayloadsAligned` |
| | `CountersAreExact` | `CountersExact` |
| `AddressSpaceProofs`, `AddressSpaceAssumption`, `TablesAssumption` | `AddressSpaceInvariant`, `AddressSpaceTypes` | the inductive invariant, `TypeOK` |
| | `FramesHaveOneRole`, `FramesAreNotLost` | `OneRole`, `NoLeak` |
| | `KernelViewsAgree` | `KernelViewAgrees` |
| | `TranslationsAreCurrent` | `TlbCoherent` |
| | `PagingRefines` | `AddressSpace` implements `VirtualMemory` |
| `SmpProofs`, `SmpAssumption` | `SmpInvariant`, `SmpTypes` | the inductive invariant, `TypeOK` |
| | `ProcessorsAreSetUp`, `StacksAreExclusive`, `OldPagesAreSafe` | `RunningIsSetUp`, `StacksExclusive`, `OldPagesSafe` |
| | `ReportIsTrue` | `ReportTrue` |
| `BootProofs`, `AcpiAssumption`, `BootAssumption` | `BootInvariant`, `BootTypes` | the inductive invariant, `BootTypeOK` |
| | `TablesAreVerified`, `TablesAreFound` | `OnlyVerified`, `FoundWhenThere` of `AcpiTables` |
| | `InterruptsAreHandled`, `TimerIsHandled` | `RaisedIsHandled`, `TimerFitsHandler` |
| `SerialProofs`, `SerialAssumption` | `NoByteIsLost`, `SerialTypes` | `TypeOK` and `NothingLost`, for any writers fewer than the FIFO is deep, and any texts |
| `TerminalProofs`, `ConsoleAssumption`, `StringsAssumption`, `PrintfAssumption`, `ArgumentsAssumption`, `TerminalAssumption` | `TerminalTypes` | `TypeOK`: the cursor stays on its grid, the scan in its format, and no argument is taken that was not passed |
| | `ScreenShowsTheTail` | `ShowsTheTail`, for every framebuffer, cell, margin and text without returns and tabs |
| | `PrintfPrintsTheMeaning` | `PrintsAsMeant`, for every call whose arguments are passed |
| | `StringFunctionsAreRight` | `StringsAsDefined`, for every memory and width of a register |

*PMM.*  `NoSharedPage` is not inductive: that a held page is not handed out again
needs its bit to be set.  `PmmInv` adds that held pages are pages of the arena (`HeldInArena`)
and that the bitmap is `InitBitmap` plus the held pages (`BitmapExact`).  Then a first fit lies in free pages, which are
exactly the arena's pages that nobody holds (`FreeIsUnheld`).  `Accounting` follows
from the sizes of disjoint runs (`RunSize`).  That a page of the arena is a *whole* page
of usable memory is arithmetic on aligned ranges (`ArenaPage`, `NextMultiple`).

*Search.*  `ScanInv` says the counted pages lie just below `i` and no run begins below them; with that,
the reset of the counter loses nothing.

*Heap.*  `HeapInv` is `TypeOK`, `Tiled` and `Coalesced`, the last two up to an overrun; since nothing follows an overrun, each
step begins in a state that is `Sound`.  A write that fits takes no header off a tiled list (`WriteFits`), and one of no more bytes than
were asked for fits unless the request has wrapped (`OverrunIsRuin`).  A split and a merge are treated
once, as lemmas on an arbitrary tiled list (`TakeTiled`, `AbsorbTiled`), and `kfree` and `krealloc` as
compositions of them (`MergePrevKeeps`, `MergeNextKeeps`, `ReleaseKeeps`).
`Coalesced` is what makes `WholeWhenFree` true: in a tiled list with no two adjacent
free blocks, all free means one.  The refinement uses that payloads of a tiled list are apart (`PayloadsApart`).

*Layout of the heap.*  Completeness of the search is a matter of order: a block that the walk along `next` misses would have a
least one, whose predecessor is reached (`LeastExists`); and the block before a stretch of free memory is free and, by `Coalesced`, ends where the
next used one begins.  Alignment needs what `Aligned` does to a size that wraps: `WORD` is a multiple of `HEAP_ALIGNMENT`.
The counters are stated over sets, so that no sum is needed: `used_size` is the number of *bytes* in used payloads, the
cardinality of a union of disjoint intervals, and one block more or less in use changes it by the length of its interval (`OneMoreInUse`).
`TakeKeepsCounts` and `ReleaseKeepsCounts` then treat a split and up to two merges, and `krealloc` is their composition.

*Address spaces.*  None of `OneRole`, `NoLeak` and `TlbCoherent` is inductive, because nothing in them says that a walk of
four steps meets four different tables.  `Sane` gives every table a level (`Levels`): an entry refers to a table one level down or,
from level 1, to a frame that is none.  `Unique` and `Placed` say that every frame has exactly one entry that
refers to it, unless it is spare (free, held or lost) or the top of a space; the copies of the kernel's half, which every `pml4` has,
do not count, and `Shared` says that they are copies.  `IInv` is `Sane` of no frame gone, from which every step begins; `Inv` adds the halted
states with one frame gone, which the failed heap fault leaves and from which no step begins.  With this, two walks that end at one table were for the same pages of the same space, or
of the kernel's half; a walk that makes tables on its way leaves every other page as it was, also when it gives up half-way down (`WalkSound`,
`PathFacts`); and what `vmm_destroy_space` gives back is referred to by nobody else (`Destroyed`).  The lemmas are about any tables, live
spaces and spare frames, so that they can be used in the middle of an operation.  `TlbCoherent` needs one fact more, that
`vmm_map_page`, which invalidates nothing, is called for pages that were absent: the guard is what its callers do.
For the refinement each action is shown to do one thing to what the spaces see (`ViewStep`, beside the invariant in the lemma of
each action), and each such thing to be an action of `VirtualMemory` (`ViewSteps`); that a mapped frame had no role is `Placed`
again, as a spare frame is behind no entry and page tables hold no copies (`SparesUnused`).
`TablesAssumption` is what the proofs ask of the boot loader: its tables are a tree below its `pml4`, and the pages it has mapped are not among those
that callers map, so no page of theirs is mapped at the start.  `AddressSpace.cfg`'s boot tables satisfy it, and TLC evaluates it on the run.

*SMP start-up.*  `IInv` has a part that holds whatever the processors do to each other and one for as long as they do not
overlap.  The first: where a processor is in `ap_entry` tells what it has (`Stage`), and the pages in its registers were
free at the start (`Chosen`): so `OldPagesSafe` survives even lost updates, because no processor has ever *loaded* a byte without the
old bits.  The second (`AloneInv`): one processor is setting up at a time, knows what it has read is still so (`Knows`), and
the stacks and the table are pages of different owners (`Apart`).  `ReportTrue` needs the boot processor's loops (`Counting`):
what it has counted it has seen RUNNING, and no state leaves RUNNING; the cardinalities compare with the processors it has passed.
`Counted`, one increment for each processor, bounds `started_count` by `2 * N - 1`: the run `smp_count` shows that it does pass `N`.

*Boot.*  `FoundWhenThere` speaks of the end of `acpi_init`; `AcpiInv` adds, for every moment before, that the root in use is the right one
unless a mapping failed (`RightRoot`), that the first two searches are refused (`Refusals`), and that a search has passed no table that it
wanted (`PassedOver`).  `BootInv` keeps for every call of `initialize_subsystems` what the calls before it have left: `Segments`,
`Vectors`, `Handlers`, `Controllers`.  `TimerFitsHandler` follows from `lapic.timer # 0 <=> ApicMode`
from `timer_init` on, and from `apic_available => lapic.mapped /\ lapic.enabled`, which the local APIC that could not be mapped keeps by taking `apic_available` back.

*Serial port.*  `NothingLost` needs that the FIFO has room whenever a byte is put.  `Queued` says what can be in it: nothing of a
writer that has seen the port ready (`pc = "out"`: the FIFO was empty then), and of any other its last byte, or, under an `S`
not waited for, the byte before.  So a writer that puts a byte finds at most one entry for each of the others and, as only
one of them switches tasks, one more (`Room`): the entries are mapped one to one into a set of fewer than `Depth` elements.
`InsidePutc` and `Untouched` carry what a writer has to put, and that `serial_init` does not clear a FIFO in use.

*Recursive functions.*  The library's induction theorems take a predicate as a parameter, which the provers cannot instantiate.
`SetInduction` is the same principle for the *set* of numbers that have a property, from the least element outside it.  With it, a recursive function
is shown to exist up to any number (`PagesExist`, `PowersExist`, `DigitsExist`, `MeansExist`, `SqueezesExist`), or to be one with a closed form
(`AscendingMoves`, `DescendingMoves`, `FillPaints`, `ChunksMove`); what is proved afterwards uses only the step it takes.

*Console.*  `GridInv` is the cursor's part of `TypeOK` with the columns that it can reach (`OnGrid`): those a number of cells from the
margin or, after a tab, from the left edge.  One right of the margin is at least a cell from 0, so a backspace does not take
the cursor below it (`BackOnGrid`).  `PageStep` says that `PageOf` takes one step with a character, and
`TailInv` what holds after each while the text is `Ordinary`: the cursor is behind what its line has (`CursorAt`), the pixels below the margin are those of
the characters that were not cut (`Shows`), and none of these is below the foot (`AboveFoot`).  The cursor itself may be, by any number of
lines; a glyph there scrolls by one line and is then on the screen or is cut.  A character is drawn where no
other is (`CellsApart`, `CellOnScreen`); scrolling moves every line up by a cell and empties the last (`ShowsScrolled`).

*printf.*  `PrintfGood` has, besides the types, that the arguments taken are no more than the conversions behind the scan (`ScanInv`):
with `ArgumentsAssumption`, the next conversion finds one.  A number is divided by the base until it is 0; its digits
are those at their places (`DigitsRight`, by `QuotientTwice`), and they are as many as the only size that `Numeral` can choose
(`OneSize`, `ItoaIsNumeral`).  `MeantInv` is: what was put, followed by what the format means from the scan on with the arguments that are left,
is what all of it means, where a directive that has been begun counts with the flags seen (`ConvertMeans`).  It gives `PrintsAsMeant` at the end of the format, where nothing is left.

*Strings.*  A byte loop leaves the memory with a stretch moved or filled (`Moved`, `Painted`), if no round has overwritten what a later one reads:
going up that is so when the source is not below within reach, going down when it is (`MovedOneMore`, `MovedOneLess`),
and `memmove` chooses so.  The copy with registers is three such loops, one behind the other (`MovedJoin`), whatever the head is that alignment asks for.  A
loop that ends where a condition first holds ends at the zero of the text, because before it the copy has not reached what it
reads (`SourceKept`); a comparison ends no later than the shorter text (`CommonPrefix`), and what it returns there orders the two (`OrdersBy`).  In the brand string the place
to write is the number of characters kept so far, at most the number read (`SqueezeInv`, `CountFacts`).

**Only model-checked.**  The liveness properties `EverybodySettles`, `BootEnds`, `AllSent` and `Returns`: fairness is out of the prover's
reach.  Everything else that a passing run checks is proved too.

The runs with `expect` `violation` have counterexamples instead.

## 5. Not modelled

* In `AddressSpace`: huge pages (the boot loader's direct map has them; no caller maps or unmaps below one), the user and
  write flags, which no code path reads back; misuse of the interface (returning a page twice,
  mapping over a mapping, destroying the current space), which no caller does.
* In `SmpStartup`: more than one missing level of tables at start;
  `cpu_count` above `MAX_CPUS`; what a processor does in `hlt`.
* Interrupt delivery: the stubs, `isr_handler`, `irq_handler`, the end of interrupt, and the sleeps that wait for
  ticks.  Nothing delivers one on the boot processor before the first task, the first dispatch faults, and no controller is
  programmed to interrupt another processor.  A model of it would be of a kernel that does not exist yet.
* Code without a caller: `paging_get_physical_address` and `paging_virtual_to_physical`, `smp_send_ipi` and its relatives,
  `lapic_send_*`, `ioapic_redirect_irq`, `acpi_shutdown`, `acpi_reboot`, `early_malloc`, `printf_set_cursor`, `gdt_asm.asm`; and what is behind a test
  that never succeeds (`hpet_init`).
* The stacks of the tasks, which `setup_and_start_tasks` places behind their allocations (a hazard in the list).
* `enable_sse_safe` and the reading of cpuid in `simd/simd.c`: straight-line code on processor registers.
* In `Console`: rows with padding, colours, a missing framebuffer (only the serial port is written then), the banner.
* In `Serial`: interrupts of the port, which are off; bytes from outside; 16 or more writers, for which the FIFO is too short.
* In `Printf`: the returned count, which no caller reads.  What a format that ends in a directive prints from
  the memory behind it is not followed (`overrun`).
* The components listed as `not_modelled` in `PROJECT.json`, each with its reason.

## 6. Plan

Every part of the kernel that runs before the first dispatch is modelled, to the extent said above, and each safety property
that a passing run checks is proved, as are the refinements.  What is left:

1. A weaker `TablesAssumption`, with pages that the boot loader has mapped and the kernel unmaps.
2. `NegativeInt` excludes an argument that the kernel does not pass today (a negative `%d`), and `cut` the glyphs that are lost after
   two newlines at the bottom of the screen; when the code handles them, the properties lose these conditions and the proofs a case each.

When the first dispatch works, `Tasking` becomes a passing run: the ring of `task_get_next_ready`, the states of
`task_scheduler_tick` (at most one task RUNNING, every READY task reached), and the delivery of interrupts with the end of
interrupt at the controller that `irq_handler` chooses.
