---------------------------- MODULE AddressSpace ----------------------------
(***************************************************************************)
(* Page tables and address spaces, kernel/src/memory/paging.c and vmm.c,   *)
(* over the frames of the physical memory manager (Pmm): four levels of    *)
(* tables, the boot address space, the spaces vmm_create_space makes, and  *)
(* the processor's cache of translations.                                  *)
(*                                                                         *)
(* Virtual pages are four indices.  An entry is Absent or a frame with the *)
(* flag that matters here, no-execute.  The boot loader's huge pages are   *)
(* left out: no caller maps or unmaps an address below one.  The callers   *)
(* follow the protocol of heap_init and handle_page_fault: they map frames *)
(* they have allocated, at pages that are not mapped, and never destroy    *)
(* the space they run on.  The kernel pages they map have their pml4 entry *)
(* from the start, as the pages of the direct map and, after heap_init, of *)
(* the heap have: one made later would be seen by one space only.          *)
(***************************************************************************)
EXTENDS Integers, FiniteSets

CONSTANTS Frames,        (* the arena of the physical memory manager       *)
          Index,         (* the indices of a table, 0 .. 511 in the code   *)
          VirtualPages,  (* the pages callers use: <<pml4, pdp, pd, pt>>   *)
          HeapPages,     (* those that handle_page_fault maps on demand    *)
          Boot,          (* the tables the boot loader leaves, by frame    *)
          MaxHeld,       (* bound: frames callers hold at a time           *)
          MaxCached      (* bound: translations cached at a time           *)

Absent == [frame |-> 0]

Entry(frame, nx) == [frame |-> frame, nx |-> nx]

Empty == [i \in Index |-> Absent]

Entries == {Absent} \cup [frame : Frames, nx : BOOLEAN]

(* The upper half of a pml4 is the kernel's.                               *)
KernelHalf == {i \in Index : 2 * i >= Cardinality(Index)}

ASSUME AddressSpaceAssumption ==
  /\ Frames \subseteq Nat \ {0}
  /\ Index \subseteq Nat
  /\ VirtualPages \subseteq Index \X Index \X Index \X Index
  /\ HeapPages \subseteq {va \in VirtualPages : va[1] \in KernelHalf}
  /\ \A va \in VirtualPages :
       va[1] \in KernelHalf => Boot.tables[Boot.pml4][va[1]] # Absent

(* The tables the boot loader leaves are a tree below its pml4, with room  *)
(* for the callers' pages: the pages it has mapped are not theirs.         *)
ASSUME TablesAssumption ==
  LET tb == Boot.tables
      entries == {ti \in (DOMAIN tb) \X Index : tb[ti[1]][ti[2]] # Absent}
  IN  /\ Boot.pml4 \in DOMAIN tb /\ DOMAIN tb \subseteq Frames
      /\ \A t \in DOMAIN tb : tb[t] \in [Index -> Entries]
      /\ \E level \in [DOMAIN tb -> 1 .. 4] :
           /\ \A t \in DOMAIN tb : level[t] = 4 <=> t = Boot.pml4
           /\ \A ti \in entries : /\ tb[ti[1]][ti[2]].frame \in DOMAIN tb
                                 /\ level[tb[ti[1]][ti[2]].frame] = level[ti[1]] - 1
      /\ \A t \in DOMAIN tb \ {Boot.pml4} :
           \E ti \in entries : \A uj \in entries :
             tb[uj[1]][uj[2]].frame = t <=> uj = ti

VARIABLES tables,        (* the tables in use: frame -> index -> entry     *)
          kernel_space,  (* the frame of kernel_space.pml4                 *)
          spaces,        (* the pml4 frames of the live spaces             *)
          cr3,           (* the pml4 the processor walks                   *)
          tlb,           (* the translations the processor has cached      *)
          free,          (* the frames pmm.c would grant                   *)
          held,          (* frames callers have allocated and not mapped   *)
          lost,          (* history: the frames of no-execute pages that   *)
                         (* were unmapped and that pmm.c did not take back *)
          halted         (* the processor is in a "for(;;) hlt"            *)

vars == <<tables, kernel_space, spaces, cr3, tlb, free, held, lost, halted>>

-----------------------------------------------------------------------------
(* Walks.                                                                  *)

Present(tb, t, i) == t # 0 /\ tb[t][i] # Absent

(* get_next_table without create.                                          *)
NextTable(tb, t, i) == IF Present(tb, t, i) THEN tb[t][i].frame ELSE 0

PageTable(tb, pml4, va) ==
  NextTable(tb, NextTable(tb, NextTable(tb, pml4, va[1]), va[2]), va[3])

(* What the processor finds for a page: the entry, or Absent.              *)
Leaf(tb, pml4, va) ==
  LET pt == PageTable(tb, pml4, va)
  IN  IF Present(tb, pt, va[4]) THEN tb[pt][va[4]] ELSE Absent

Lowest(S) == CHOOSE f \in S : \A g \in S : f <= g

(* Mutant: the next table's frame is not marked in use.                    *)
Descend_NotMarked(w, i) ==
  IF w.at = 0 THEN w
  ELSE IF Present(w.tb, w.at, i) THEN [w EXCEPT !.at = NextTable(w.tb, w.at, i)]
  ELSE IF w.free = {} THEN [w EXCEPT !.at = 0]
  ELSE LET f == Lowest(w.free)
       IN  [tb |-> [t \in DOMAIN w.tb \cup {f} |->
                      IF t = f THEN Empty
                      ELSE IF t = w.at THEN [w.tb[t] EXCEPT ![i] = Entry(f, FALSE)]
                      ELSE w.tb[t]],
            free |-> w.free,
            at |-> f]

(* One step down while mapping: get_next_table with create, and the same   *)
(* code written out three times in vmm_map_page.  "at" is 0 once a frame   *)
(* was needed and none was free; the tables made until then stay.          *)
Descend(w, i) ==
  IF w.at = 0 THEN w
  ELSE IF Present(w.tb, w.at, i) THEN [w EXCEPT !.at = NextTable(w.tb, w.at, i)]
  ELSE IF w.free = {} THEN [w EXCEPT !.at = 0]
  ELSE LET f == Lowest(w.free)
       IN  [tb |-> [t \in DOMAIN w.tb \cup {f} |->
                      IF t = f THEN Empty
                      ELSE IF t = w.at THEN [w.tb[t] EXCEPT ![i] = Entry(f, FALSE)]
                      ELSE w.tb[t]],
            free |-> w.free \ {f},
            at |-> f]

Path(pml4, frames, va) ==
  Descend(Descend(Descend([tb |-> tables, free |-> frames, at |-> pml4],
                          va[1]), va[2]), va[3])

(* Mutant: no invlpg.                                                      *)
paging_invalidate_tlb_Never(va) == tlb

paging_invalidate_tlb(va) == {e \in tlb : e[1] # va}

SetLeaf(w, va, entry) == [w.tb EXCEPT ![w.at][va[4]] = entry]

-----------------------------------------------------------------------------
(* vmm_init, on the boot loader's tables.                                  *)
Init ==
  /\ tables = Boot.tables
  /\ kernel_space = Boot.pml4
  /\ spaces = {Boot.pml4}
  /\ cr3 = Boot.pml4
  /\ tlb = {}
  /\ free = Frames \ DOMAIN Boot.tables
  /\ held = {}
  /\ lost = {}
  /\ halted = FALSE

pmm_alloc_page ==
  /\ free # {}
  /\ Cardinality(held) < MaxHeld
  /\ held' = held \cup {Lowest(free)}
  /\ free' = free \ {Lowest(free)}
  /\ UNCHANGED <<tables, kernel_space, spaces, cr3, tlb, lost, halted>>

pmm_free_page(f) ==
  /\ held' = held \ {f}
  /\ free' = free \cup {f}
  /\ UNCHANGED <<tables, kernel_space, spaces, cr3, tlb, lost, halted>>

(* Mutants: the loop runs to "i <= 512", or vmm_map_kernel is not called.  *)
vmm_map_kernel_Overrun ==
  [i \in Index \cup {Cardinality(Index)} |->
     IF i \in KernelHalf THEN tables[kernel_space][i] ELSE Absent]
vmm_map_kernel_Missing == Empty

(* The pml4 of a new space: memset, then vmm_map_kernel.                   *)
vmm_map_kernel ==
  [i \in Index |-> IF i \in KernelHalf THEN tables[kernel_space][i] ELSE Absent]

(* A refusal by the frame allocator or by kmalloc leaves no trace.         *)
vmm_create_space ==
  /\ free # {}
  /\ LET pml4 == Lowest(free)
     IN  /\ tables' = [t \in DOMAIN tables \cup {pml4} |->
                         IF t = pml4 THEN vmm_map_kernel ELSE tables[t]]
         /\ spaces' = spaces \cup {pml4}
         /\ free' = free \ {pml4}
  /\ UNCHANGED <<kernel_space, cr3, tlb, held, lost, halted>>

(* What vmm_destroy_space visits from the lower half of a pml4: the tables *)
(* of the three levels below it, and the entries of the last.              *)
Below(T) ==
  {tables[ti[1]][ti[2]].frame : ti \in {x \in T \X Index : Present(tables, x[1], x[2])}}

Pdps(pml4) ==
  {tables[pml4][i].frame : i \in {j \in Index \ KernelHalf : Present(tables, pml4, j)}}

(* Mutant: the tables of the last level are not given back.                *)
OwnTables_NoLast(pml4) == {pml4} \cup Pdps(pml4) \cup Below(Pdps(pml4))

OwnTables(pml4) ==
  {pml4} \cup Pdps(pml4) \cup Below(Pdps(pml4)) \cup Below(Below(Pdps(pml4)))

OwnLeaves(pml4) ==
  {tables[ti[1]][ti[2]] :
     ti \in {x \in Below(Below(Pdps(pml4))) \X Index : Present(tables, x[1], x[2])}}

(* "& ~0xFFF" leaves bit 63 of a no-execute entry in the address: the page *)
(* number is past total_pages and pmm_free_pages ignores it.               *)
Returned(leaves) == {e.frame : e \in {x \in leaves : ~x.nx}}
Forgotten(leaves) == {e.frame : e \in {x \in leaves : x.nx}}

vmm_destroy_space(pml4) ==
  /\ pml4 \notin {kernel_space, cr3}
  /\ free' = free \cup OwnTables(pml4) \cup Returned(OwnLeaves(pml4))
  /\ lost' = lost \cup Forgotten(OwnLeaves(pml4))
  /\ tables' = [t \in DOMAIN tables \ OwnTables(pml4) |-> tables[t]]
  /\ spaces' = spaces \ {pml4}
  /\ UNCHANGED <<kernel_space, cr3, tlb, held, halted>>

vmm_switch_space(pml4) ==
  /\ cr3' = pml4
  /\ tlb' = {}
  /\ UNCHANGED <<tables, kernel_space, spaces, free, held, lost, halted>>

(* Mapping frame f, on a walk that is as far as it gets.                   *)
Finish(w, va, f, nx) ==
  /\ free' = w.free
  /\ \/ /\ w.at # 0
        /\ tables' = SetLeaf(w, va, Entry(f, nx))
        /\ held' = held \ {f}
     \/ /\ w.at = 0
        /\ tables' = w.tb
        /\ held' = held
  /\ UNCHANGED <<kernel_space, spaces, cr3, lost, halted>>

vmm_map_page(pml4, va, f, nx) ==
  /\ Leaf(tables, pml4, va) = Absent
  /\ Finish(Path(pml4, free, va), va, f, nx)
  /\ UNCHANGED tlb

paging_map_page(va, f, nx) ==
  /\ Leaf(tables, cr3, va) = Absent
  /\ Finish(Path(cr3, free, va), va, f, nx)
  /\ tlb' = IF Path(cr3, free, va).at = 0
              THEN tlb ELSE paging_invalidate_tlb(va)

(* Mutant: the entry of the page directory is cleared.                     *)
ClearLeaf_Table(va) ==
  [tables EXCEPT ![NextTable(tables, NextTable(tables, cr3, va[1]), va[2])][va[3]] = Absent]

ClearLeaf(va) == [tables EXCEPT ![PageTable(tables, cr3, va)][va[4]] = Absent]

paging_unmap_page(va) ==
  LET entry == Leaf(tables, cr3, va)
  IN  /\ entry # Absent
      /\ tables' = ClearLeaf(va)
      /\ free' = free \cup Returned({entry})
      /\ lost' = lost \cup Forgotten({entry})
      /\ tlb' = paging_invalidate_tlb(va)
      /\ UNCHANGED <<kernel_space, spaces, cr3, held, halted>>

(* A fault on a heap page that is not present: a frame is allocated and    *)
(* mapped, and the processor halts when either fails; a frame that could   *)
(* not be mapped is not given back.                                        *)
handle_page_fault(va) ==
  LET f == Lowest(free)
      w == Path(cr3, free \ {f}, va)
  IN  /\ Leaf(tables, cr3, va) = Absent
      /\ \/ /\ free # {} /\ w.at # 0
            /\ free' = w.free
            /\ tables' = SetLeaf(w, va, Entry(f, FALSE))
            /\ tlb' = paging_invalidate_tlb(va)
            /\ UNCHANGED halted
         \/ /\ free # {} /\ w.at = 0
            /\ free' = w.free
            /\ tables' = w.tb
            /\ halted' = TRUE
            /\ UNCHANGED tlb
         \/ /\ free = {}
            /\ halted' = TRUE
            /\ UNCHANGED <<free, tables, tlb>>
      /\ UNCHANGED <<kernel_space, spaces, cr3, held, lost>>

(* A round of the loop of heap_init, for a page of the heap: at boot in    *)
(* the code, in any state of memory here.  Both ways to fail end the loop: *)
(* the pages before stay mapped, and a frame that could not be mapped is   *)
(* given back.                                                             *)
heap_init(va) ==
  LET f == Lowest(free)
      w == Path(cr3, free \ {f}, va)
  IN  /\ cr3 = kernel_space /\ Leaf(tables, cr3, va) = Absent
      /\ free # {}
      /\ \/ /\ w.at # 0
            /\ free' = w.free
            /\ tables' = SetLeaf(w, va, Entry(f, FALSE))
            /\ tlb' = paging_invalidate_tlb(va)
         \/ /\ w.at = 0
            /\ free' = w.free \cup {f}
            /\ tables' = w.tb
            /\ UNCHANGED tlb
      /\ UNCHANGED <<kernel_space, spaces, cr3, held, lost, halted>>

(* The processor may cache what it finds, at any time (external).          *)
Translate(va) ==
  /\ Leaf(tables, cr3, va) # Absent
  /\ Cardinality(tlb) < MaxCached
  /\ tlb' = tlb \cup {<<va, Leaf(tables, cr3, va).frame>>}
  /\ UNCHANGED <<tables, kernel_space, spaces, cr3, free, held, lost, halted>>

Next ==
  /\ ~halted
  /\ \/ pmm_alloc_page
     \/ \E f \in held : pmm_free_page(f)
     \/ vmm_create_space
     \/ \E pml4 \in spaces : vmm_destroy_space(pml4) \/ vmm_switch_space(pml4)
     \/ \E va \in VirtualPages :
          \/ \E f \in held, nx \in BOOLEAN :
               \/ \E pml4 \in spaces : vmm_map_page(pml4, va, f, nx)
               \/ paging_map_page(va, f, nx)
          \/ paging_unmap_page(va)
          \/ Translate(va)
     \/ \E va \in HeapPages : handle_page_fault(va) \/ heap_init(va)

Spec == Init /\ [][Next]_vars

-----------------------------------------------------------------------------
TypeOK ==
  /\ DOMAIN tables \subseteq Frames
  /\ \A t \in DOMAIN tables : tables[t] \in [Index -> Entries]
  /\ kernel_space \in spaces /\ cr3 \in spaces /\ spaces \subseteq DOMAIN tables
  /\ tlb \subseteq VirtualPages \X Frames
  /\ free \subseteq Frames /\ held \subseteq Frames /\ lost \subseteq Frames
  /\ halted \in BOOLEAN

(* The places that refer to a frame; a space's kernel half is a copy of    *)
(* the boot space's, made by vmm_map_kernel.                               *)
References(f) ==
  {ti \in (DOMAIN tables) \X Index :
     /\ tables[ti[1]][ti[2]].frame = f
     /\ ti[1] \in spaces \ {kernel_space} => ti[2] \notin KernelHalf}

(* A frame has one role: free, held by a caller, the top of a space, or in *)
(* one entry of one table.  Nothing is reachable from a frame given back,  *)
(* and vmm_destroy_space frees no frame twice.                             *)
OneRole ==
  /\ \A f \in Frames : Cardinality(References(f)) <= 1
  /\ \A f \in free \cup held \cup lost : References(f) = {} /\ f \notin DOMAIN tables
  /\ \A f \in spaces : References(f) = {}
  /\ free \cap held = {} /\ lost \cap (free \cup held) = {}

(* The frames that are in nobody's hands: no allocation, table, space or   *)
(* page has them.                                                          *)
Gone ==
  {f \in Frames \ (free \cup held \cup lost \cup spaces) : References(f) = {}}

(* No frame leaks: what is not free is held, a live table, or mapped.  Two *)
(* paths of the code lose frames, and no other does: the no-execute pages  *)
(* in "lost", and the heap fault whose frame cannot be mapped, which loses *)
(* that one frame and stops the processor.                                 *)
NoLeak == Gone = {} \/ (halted /\ Cardinality(Gone) = 1)

(* Every space sees the kernel's half as the boot space does, whichever    *)
(* space a kernel page was mapped through.                                 *)
KernelViewAgrees ==
  \A s \in spaces, va \in VirtualPages :
    va[1] \in KernelHalf => Leaf(tables, s, va) = Leaf(tables, kernel_space, va)

(* The processor never uses a translation that the tables have withdrawn.  *)
TlbCoherent == \A e \in tlb : Leaf(tables, cr3, e[1]).frame = e[2]

(* The spaces as their users see them.                                     *)
View == [s \in spaces |-> [va \in VirtualPages |-> Leaf(tables, s, va)]]

(* paging.c and vmm.c implement address spaces: an operation changes one   *)
(* page, in one space or, of the kernel, in all, whatever tables it makes  *)
(* and gives up half-way; destroying a space changes no other; and no      *)
(* frame ever comes to be behind two pages.                                *)
Paging == INSTANCE VirtualMemory
            WITH KernelPages <- {va \in VirtualPages : va[1] \in KernelHalf},
                 BootSpace <- Boot.pml4, view <- View, current <- cr3

RefinesVirtualMemory == Paging!MemorySpec
=============================================================================
