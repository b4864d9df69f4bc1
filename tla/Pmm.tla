-------------------------------- MODULE Pmm --------------------------------
(***************************************************************************)
(* The physical memory manager, kernel/src/memory/pmm.c: one bit per page  *)
(* frame below the highest usable address, a counter of set bits, and a    *)
(* first-fit search.  The bitmap itself lies in the largest usable region. *)
(*                                                                         *)
(* The state starts where pmm_init leaves it, for each memory map of       *)
(* MemMaps: kernel_main halts when the boot loader gives no map or no HHDM,*)
(* so pmm_init's early return and the "if (!bitmap)" guards never fire.    *)
(* A set bit is membership in "bitmap"; used_pages is an integer without a *)
(* width, and Accounting with TypeOK shows that it never leaves the range  *)
(* of its uint64_t.                                                        *)
(***************************************************************************)
EXTENDS Integers, FiniteSets, Sequences, PageRuns

CONSTANTS PAGE_SIZE,   (* bytes in a page                                  *)
          MemMaps,     (* the memory maps the boot loader may report       *)
          Counts       (* how many pages one call may ask for or give back *)

VARIABLES memmap,      (* current_memmap: a sequence of entries            *)
          bitmap,      (* the pages whose bit is set                       *)
          used_pages,  (* the counter kept beside the bitmap               *)
          holders,     (* history: how many callers hold each page         *)
          ret          (* history: the last allocation and its answer      *)

vars == <<memmap, bitmap, used_pages, holders, ret>>

-----------------------------------------------------------------------------
(* The memory map.                                                         *)

UsableEntries(m) == {i \in DOMAIN m : m[i].usable}

EntryEnd(m, i) == m[i].base + m[i].length

(* LIMINE_MEMMAP_USABLE entries are page aligned and overlap no other      *)
(* entry: what the Limine boot protocol promises, and pmm_init relies on.  *)
IsMemMap(m) ==
  /\ m \in Seq([base : Nat, length : Nat \ {0}, usable : BOOLEAN])
  /\ UsableEntries(m) # {}
  /\ \A i \in UsableEntries(m) :
       /\ m[i].base % PAGE_SIZE = 0
       /\ m[i].length % PAGE_SIZE = 0
       /\ \A j \in DOMAIN m \ {i} :
            EntryEnd(m, i) <= m[j].base \/ EntryEnd(m, j) <= m[i].base

ASSUME PmmAssumption ==
  /\ PAGE_SIZE \in Nat \ {0}
  /\ \A m \in MemMaps : IsMemMap(m)
  /\ Counts \subseteq Nat

highest_addr(m) ==
  EntryEnd(m, CHOOSE i \in UsableEntries(m) :
                \A j \in UsableEntries(m) : EntryEnd(m, j) <= EntryEnd(m, i))

(* The values pmm_init computes once are functions of the memory map.      *)
total_pages == [m \in MemMaps |-> highest_addr(m) \div PAGE_SIZE]

Pages(m) == 0 .. total_pages[m] - 1

(* The first of the longest usable entries: pmm_init compares with ">".    *)
largest_base(m) ==
  m[CHOOSE i \in UsableEntries(m) :
      \A j \in UsableEntries(m) :
        m[j].length < m[i].length \/ (m[j].length = m[i].length /\ i <= j)].base

bitmap_size(m) == (total_pages[m] + 7) \div 8

(* The pages below total_pages that [base, base + length) touches.         *)
PagesTouched(m, base, length) ==
  (base \div PAGE_SIZE .. (base + length - 1) \div PAGE_SIZE) \cap Pages(m)

(* Mutant: pmm_init forgets the pages of the bitmap itself.                *)
InitCalls_NoBitmap ==
  [m \in MemMaps |->
     {c \in (0 .. Len(m)) \X Pages(m) :
        /\ c[1] \in DOMAIN m \ UsableEntries(m)
        /\ c[2] \in PagesTouched(m, m[c[1]].base, m[c[1]].length)}]

(* The calls of bitmap_set that pmm_init makes: one per page an unusable   *)
(* entry touches, then one per page of the bitmap (numbered 0).            *)
InitCalls ==
  [m \in MemMaps |->
     {c \in (0 .. Len(m)) \X Pages(m) :
        \/ /\ c[1] = 0
           /\ c[2] \in PagesTouched(m, largest_base(m), bitmap_size(m))
        \/ /\ c[1] \in DOMAIN m \ UsableEntries(m)
           /\ c[2] \in PagesTouched(m, m[c[1]].base, m[c[1]].length)}]

InitBitmap == [m \in MemMaps |-> {c[2] : c \in InitCalls[m]}]

(* find_free_pages's inner loop: the pages that start in a usable entry.   *)
UsablePages ==
  [m \in MemMaps |->
     {p \in Pages(m) : \E i \in UsableEntries(m) :
        p * PAGE_SIZE >= m[i].base /\ p * PAGE_SIZE < EntryEnd(m, i)}]

(* Mutant: the search starts at page 0.                                    *)
FreePages_FromZero(m, bits) == UsablePages[m] \ bits

(* The pages the search accepts; it starts at page 1.                      *)
FreePages(m, bits) == UsablePages[m] \ (bits \cup {0})

(* The pages that are allocatable once pmm_init has returned.              *)
Arena(m) == FreePages(m, InitBitmap[m])

-----------------------------------------------------------------------------
pmm_init(m) ==
  /\ memmap = m
  /\ bitmap = InitBitmap[m]
  /\ used_pages = Cardinality(InitCalls[m])
  /\ holders = [p \in Pages(m) |-> 0]
  /\ ret = [count |-> 0, start |-> 0]

Init == \E m \in MemMaps : pmm_init(m)

(* Mutant: the loop that sets the bits runs to "i <= count".               *)
BitsSet_OneMore(start, count) == Run(start, count + 1)

(* The bits pmm_alloc_pages sets.                                          *)
BitsSet(start, count) == Run(start, count)

(* Mutant: the loop that clears the bits begins at 1.                      *)
BitsCleared_FromOne(start, count) == Run(start + 1, count - 1)

(* The bits pmm_free_pages clears; all are below total_pages.              *)
BitsCleared(start, count) == Run(start, count)

pmm_alloc_pages(count) ==
  LET free == FreePages(memmap, bitmap)
  IN  \/ \E start \in free :
           /\ count > 0
           /\ IsFirstFit(free, start, count)
           /\ bitmap' = bitmap \cup BitsSet(start, count)
           /\ used_pages' = used_pages + count
           /\ holders' = [p \in DOMAIN holders |->
                            IF p \in Run(start, count) THEN holders[p] + 1
                                                       ELSE holders[p]]
           /\ ret' = [count |-> count, start |-> start]
           /\ UNCHANGED memmap
      \/ /\ count > 0 => NoRun(free, count)
         /\ ret' = [count |-> count, start |-> 0]
         /\ UNCHANGED <<memmap, bitmap, used_pages, holders>>

(* The caller gives back pages it holds, which is all the callers in       *)
(* paging.c, vmm.c and heap.c ever do with frames of the arena.            *)
pmm_free_pages(start, count) ==
  /\ \A p \in Run(start, count) : p \in DOMAIN holders /\ holders[p] > 0
  /\ bitmap' = bitmap \ BitsCleared(start, count)
  /\ used_pages' = used_pages - count
  /\ holders' = [p \in DOMAIN holders |->
                   IF p \in Run(start, count) THEN holders[p] - 1
                                              ELSE holders[p]]
  /\ UNCHANGED <<memmap, ret>>

Next ==
  \E count \in Counts :
    \/ pmm_alloc_pages(count)
    \/ \E start \in DOMAIN holders : pmm_free_pages(start, count)

Spec == Init /\ [][Next]_vars

-----------------------------------------------------------------------------
HeldPages == {p \in DOMAIN holders : holders[p] > 0}

TypeOK ==
  /\ memmap \in MemMaps
  /\ bitmap \subseteq Pages(memmap)
  /\ used_pages \in Int
  /\ holders \in [Pages(memmap) -> Nat]
  /\ ret \in [count : Nat, start : Nat]

(* No page has two holders, and every page that has one is a whole page of *)
(* usable memory that is neither page 0, which is the answer "no memory",  *)
(* nor part of the bitmap (find_free_pages, and what pmm_init reserves).   *)
NoSharedPage ==
  /\ \A p \in DOMAIN holders : holders[p] <= 1
  /\ \A p \in HeldPages :
       /\ p # 0
       /\ \E i \in UsableEntries(memmap) :
            /\ memmap[i].base <= p * PAGE_SIZE
            /\ (p + 1) * PAGE_SIZE <= EntryEnd(memmap, i)
       /\ p \notin PagesTouched(memmap, largest_base(memmap), bitmap_size(memmap))

(* The bitmap is what pmm_init left plus exactly the pages somebody holds: *)
(* a page given back is allocatable again and no page is lost, whatever    *)
(* the order of pmm_alloc_pages and pmm_free_pages.                        *)
BitmapExact == bitmap = InitBitmap[memmap] \cup HeldPages

(* How many calls of bitmap_set in pmm_init hit a bit that was set before: *)
(* unusable entries may share a page, and each of them counts it.          *)
Overcount(m) == Cardinality(InitCalls[m]) - Cardinality(InitBitmap[m])

(* used_pages follows the bitmap through every call and is off by exactly  *)
(* what pmm_init counted twice (bitmap_set and bitmap_clear change the     *)
(* counter whatever the bit was).                                          *)
Accounting == used_pages = Cardinality(bitmap) + Overcount(memmap)

(* pmm.c implements the frame allocator the rest of the kernel relies on:  *)
(* a free frame is granted once, and a request is refused, with the answer *)
(* 0 that is no frame, only when no run of that length is free.            *)
Frames == INSTANCE FrameAllocator
            WITH arena <- Arena(memmap),
                 free <- FreePages(memmap, bitmap),
                 answer <- ret

RefinesFrameAllocator == Frames!FrameSpec
=============================================================================
