-------------------------------- MODULE Heap --------------------------------
(***************************************************************************)
(* The kernel heap, kernel/src/memory/heap.c: one arena of bytes cut into  *)
(* blocks, each a header followed by its payload, on a doubly linked list  *)
(* in address order.  "hdr" is the part of the arena's memory that holds   *)
(* headers: from the address of each block on the list to its fields.      *)
(*                                                                         *)
(* The kernel calls the heap from one thread of control: no lock is taken  *)
(* and no task or application processor calls it, so an operation is one   *)
(* step.  Pointers are addresses, NULL is 0, and a header in a block's     *)
(* payload is dead memory, so it leaves "hdr".                             *)
(*                                                                         *)
(* kcalloc and krealloc write into the payload they return.  A request     *)
(* that wraps around size_t is served with a short block, and the write    *)
(* then runs over the headers behind it (Overrun): they leave "hdr" too,   *)
(* and as what the list says from there on is a matter of the callers'     *)
(* bytes, no further operation is modelled.                                *)
(***************************************************************************)
EXTENDS Integers, FiniteSets

CONSTANTS HEAP_START, HEAP_INITIAL_SIZE, HEAP_ALIGNMENT,
          HEADER,        (* sizeof(heap_block_t)                           *)
          WORD,          (* size_t holds 0 .. WORD - 1                     *)
          Requests       (* the sizes callers ask for                      *)

HEAP_END == HEAP_START + HEAP_INITIAL_SIZE

ASSUME HeapAssumption ==
  /\ {HEAP_START, HEAP_ALIGNMENT, HEADER, WORD} \subseteq Nat \ {0}
  /\ HEAP_INITIAL_SIZE \in Nat
  /\ HEAP_INITIAL_SIZE > HEADER
  /\ \A n \in {HEAP_START, HEAP_INITIAL_SIZE, HEADER, WORD} : n % HEAP_ALIGNMENT = 0
  /\ WORD > HEAP_END + HEADER + HEAP_ALIGNMENT
  /\ Requests \subseteq 0 .. WORD - 1

VARIABLES hdr,           (* the headers on the list, by address            *)
          used_size,     (* kernel_heap.used_size                          *)
          block_count,   (* kernel_heap.block_count                        *)
          answer,        (* history: the last request and its pointer      *)
          wrote          (* history: what the last call wrote to a payload *)

vars == <<hdr, used_size, block_count, answer, wrote>>

NULL == 0

Block == [size : Nat, used : BOOLEAN, next : Nat, prev : Nat]

-----------------------------------------------------------------------------
(* Operations on the list; "h" is a value of hdr.                          *)

(* The end of a block's payload.                                           *)
BlockEnd(h, b) == b + HEADER + h[b].size

(* Mutant: the request is not rounded.                                     *)
Aligned_Raw(size) == size

(* kmalloc rounds the request up to the alignment, in size_t arithmetic,   *)
(* and never serves less than a header's worth of bytes.                   *)
Aligned(size) ==
  LET up == (size + HEAP_ALIGNMENT - 1) % WORD
  IN  up - (up % HEAP_ALIGNMENT)

Padded(size) == IF Aligned(size) < HEADER THEN HEADER ELSE Aligned(size)

(* Mutant: find_free_block forgets "!current->used".                       *)
Fitting_Used(h, size) == {b \in DOMAIN h : h[b].size >= size}

Fitting(h, size) == {b \in DOMAIN h : ~h[b].used /\ h[b].size >= size}

(* find_free_block: the smallest block that fits, the first of them.       *)
IsBestFit(h, b, size) ==
  /\ b \in Fitting(h, size)
  /\ \A c \in Fitting(h, size) :
       h[b].size < h[c].size \/ (h[b].size = h[c].size /\ b <= c)

(* Mutant: no room is kept for the header of the new block.                *)
Splits_NoHeader(h, b, size) == h[b].size >= size + HEAP_ALIGNMENT

Splits(h, b, size) == h[b].size >= size + HEADER + HEAP_ALIGNMENT

(* Block b, free, is taken for size bytes; what is left becomes a block.   *)
Take(h, b, size) ==
  LET new == b + HEADER + size
  IN  IF Splits(h, b, size)
        THEN [a \in DOMAIN h \cup {new} |->
                CASE a = new -> [size |-> h[b].size - size - HEADER,
                                 used |-> FALSE, next |-> h[b].next, prev |-> b]
                  [] a = b -> [size |-> size, used |-> TRUE,
                               next |-> new, prev |-> h[b].prev]
                  [] a = h[b].next -> [h[a] EXCEPT !.prev = new]
                  [] OTHER -> h[a]]
        ELSE [h EXCEPT ![b].used = TRUE]

(* Mutant: the absorbed block's header is not reclaimed.                   *)
Absorb_NoHeader(h, p, n) ==
  [a \in DOMAIN h \ {n} |->
     CASE a = p -> [h[p] EXCEPT !.size = @ + h[n].size, !.next = h[n].next]
       [] a = h[n].next -> [h[a] EXCEPT !.prev = p]
       [] OTHER -> h[a]]

(* Block p absorbs the block n that follows it.                            *)
Absorb(h, p, n) ==
  [a \in DOMAIN h \ {n} |->
     CASE a = p -> [h[p] EXCEPT !.size = @ + h[n].size + HEADER,
                                !.next = h[n].next]
       [] a = h[n].next -> [h[a] EXCEPT !.prev = p]
       [] OTHER -> h[a]]

Unused(h, b) == b # NULL /\ ~h[b].used

Unmark(h, b) == [h EXCEPT ![b].used = FALSE]

(* Mutants: one of the two merges of kfree is missing, ...                 *)
MergePrev_Never(h, b) == h
MergeNext_Never(h, b) == h

(* kfree's two merges: with the block before, then with the block after.   *)
MergePrev(h, b) ==
  IF Unused(h, h[b].prev) THEN Absorb(h, h[b].prev, b) ELSE h

MergeNext(h, b) ==
  IF Unused(h, h[b].next) THEN Absorb(h, b, h[b].next) ELSE h

(* ... or the second is tried only when there was no first, ...            *)
Release_OneMerge(h, b) ==
  LET freed == Unmark(h, b)
  IN  IF Unused(freed, freed[b].prev) THEN MergePrev(freed, b)
                                      ELSE MergeNext(freed, b)

Release(h, b) ==
  LET freed == Unmark(h, b)
      left == IF Unused(freed, freed[b].prev) THEN freed[b].prev ELSE b
  IN  MergeNext(MergePrev(freed, b), left)

(* block_count changes by one for each header made or absorbed.            *)
Splitting(h, b, size) == IF Splits(h, b, size) THEN 1 ELSE 0

(* ... or block_count is decremented once for two merges.                  *)
Merging_Once(h, b) ==
  LET freed == Unmark(h, b)
  IN  IF \E a \in {freed[b].prev, freed[b].next} : Unused(freed, a) THEN 1 ELSE 0

Merging(h, b) ==
  LET freed == Unmark(h, b)
  IN  Cardinality({a \in {freed[b].prev, freed[b].next} : Unused(freed, a)})

(* memset or memcpy of n bytes to ptr: what they run over is no header.    *)
Overwrite(h, ptr, n) ==
  [a \in {c \in DOMAIN h : c + HEADER <= ptr \/ ptr + n <= c} |-> h[a]]

(* n bytes were written to ptr, from another payload or, by memset, zeros. *)
Write(ptr, from, n) == [at |-> ptr, from |-> from, length |-> n]

NoWrite == Write(NULL, NULL, 0)

(* The last write did not fit in its payload.                              *)
Overrun ==
  /\ wrote.at # NULL
  /\ wrote.length > hdr[wrote.at - HEADER].size

-----------------------------------------------------------------------------
(* The heap before heap_init: kernel_heap is zero, so first_block is NULL. *)
Init ==
  /\ hdr = [a \in {} |-> [size |-> 0, used |-> FALSE, next |-> NULL, prev |-> NULL]]
  /\ used_size = 0
  /\ block_count = 0
  /\ answer = [size |-> 0, ptr |-> NULL]
  /\ wrote = NoWrite

(* kernel_main calls heap_init once.  It returns with the heap as it was   *)
(* when a page cannot be allocated or mapped: that is the stuttering step. *)
heap_init ==
  /\ DOMAIN hdr = {}
  /\ hdr' = [a \in {HEAP_START} |-> [size |-> HEAP_INITIAL_SIZE - HEADER,
                                     used |-> FALSE, next |-> NULL, prev |-> NULL]]
  /\ used_size' = 0
  /\ block_count' = 1
  /\ UNCHANGED <<answer, wrote>>

Refused(size) ==
  /\ answer' = [size |-> size, ptr |-> NULL]
  /\ wrote' = NoWrite
  /\ UNCHANGED <<hdr, used_size, block_count>>

(* kmalloc finds block b: all it assigns but the headers.                  *)
Served(size, b) ==
  /\ size # 0
  /\ IsBestFit(hdr, b, Padded(size))
  /\ used_size' = used_size + Take(hdr, b, Padded(size))[b].size
  /\ block_count' = block_count + Splitting(hdr, b, Padded(size))
  /\ answer' = [size |-> size, ptr |-> b + HEADER]

NoBlock(size) == size = 0 \/ Fitting(hdr, Padded(size)) = {}

kmalloc(size) ==
  \/ NoBlock(size) /\ Refused(size)
  \/ \E b \in DOMAIN hdr :
       /\ Served(size, b)
       /\ hdr' = Take(hdr, b, Padded(size))
       /\ wrote' = NoWrite

(* kcalloc's product is taken in size_t too.  One that kmalloc rounds up   *)
(* to 0 is served all the same, and memset zeroes every header behind.     *)
kcalloc(num, size) ==
  LET total == (num * size) % WORD
  IN  \/ NoBlock(total) /\ Refused(total)
      \/ \E b \in DOMAIN hdr :
           /\ Served(total, b)
           /\ hdr' = Overwrite(Take(hdr, b, Padded(total)), b + HEADER, total)
           /\ wrote' = Write(b + HEADER, NULL, total)

(* The pointer is one that kmalloc returned: its block is on the list.  A  *)
(* block that is not used is reported as a double free and left alone.     *)
kfree(b) ==
  \/ /\ hdr[b].used
     /\ hdr' = Release(hdr, b)
     /\ used_size' = used_size - hdr[b].size
     /\ block_count' = block_count - Merging(hdr, b)
     /\ wrote' = NoWrite
     /\ UNCHANGED answer
  \/ /\ ~hdr[b].used
     /\ UNCHANGED vars

(* The old payload is copied to block n, and then the old block is freed.  *)
Moved(b, size, n) ==
  LET taken == Take(hdr, n, Padded(size))
  IN  /\ hdr[b].size <= taken[n].size
      /\ hdr' = Release(taken, b)
      /\ used_size' = used_size + taken[n].size - hdr[b].size
      /\ block_count' = block_count + Splitting(hdr, n, Padded(size)) - Merging(taken, b)

(* The copy runs over the headers behind block n.  This is the state that  *)
(* kfree then finds; what it does to it depends on the bytes copied.       *)
Trampled(b, size, n) ==
  LET taken == Take(hdr, n, Padded(size))
  IN  /\ hdr[b].size > taken[n].size
      /\ hdr' = Overwrite(taken, n + HEADER, hdr[b].size)
      /\ used_size' = used_size + taken[n].size
      /\ block_count' = block_count + Splitting(hdr, n, Padded(size))

(* krealloc of a live pointer; with NULL it is kmalloc, with size 0 kfree. *)
krealloc(b, size) ==
  /\ hdr[b].used
  /\ size # 0
  /\ \/ /\ size <= hdr[b].size
        /\ answer' = [size |-> size, ptr |-> b + HEADER]
        /\ wrote' = NoWrite
        /\ UNCHANGED <<hdr, used_size, block_count>>
     \/ /\ size > hdr[b].size
        /\ Fitting(hdr, Padded(size)) = {}
        /\ Refused(size)
     \/ \E n \in DOMAIN hdr :
          /\ size > hdr[b].size
          /\ IsBestFit(hdr, n, Padded(size))
          /\ Moved(b, size, n) \/ Trampled(b, size, n)
          /\ answer' = [size |-> size, ptr |-> n + HEADER]
          /\ wrote' = Write(n + HEADER, b + HEADER, hdr[b].size)

Next ==
  /\ ~Overrun
  /\ \/ heap_init
     \/ \E size \in Requests : kmalloc(size)
     \/ \E num, size \in Requests : kcalloc(num, size)
     \/ \E b \in DOMAIN hdr : kfree(b)
     \/ \E b \in DOMAIN hdr, size \in Requests : krealloc(b, size)

Spec == Init /\ [][Next]_vars

-----------------------------------------------------------------------------
(* h holds headers of blocks in the arena.                                 *)
IsTyped(h) == DOMAIN h \subseteq HEAP_START .. HEAP_END - 1 /\ h \in [DOMAIN h -> Block]

TypeOK ==
  /\ IsTyped(hdr)
  /\ used_size \in Int
  /\ block_count \in Int
  /\ answer \in [size : Nat, ptr : Nat]
  /\ wrote \in [at : Nat, from : Nat, length : Nat]

IsTiled(h) ==
  \A b \in DOMAIN h :
    /\ \/ h[b].next = NULL /\ BlockEnd(h, b) = HEAP_END
       \/ /\ h[b].next \in DOMAIN h
          /\ h[b].next = BlockEnd(h, b)
          /\ h[h[b].next].prev = b
    /\ \/ h[b].prev = NULL /\ b = HEAP_START
       \/ /\ h[b].prev \in DOMAIN h
          /\ h[h[b].prev].next = b
    /\ \A c \in DOMAIN h : b < c => BlockEnd(h, b) <= c

(* The list is the arena cut into blocks: each ends where its successor    *)
(* begins, the last at the end of the heap, prev undoes next, and nothing  *)
(* overlaps, after any sequence of splits and of merges on both sides,     *)
(* until a write has overrun its payload (RefinesAbstractHeap says after   *)
(* which requests one can).                                                *)
Tiled == ~Overrun => IsTiled(hdr)

IsCoalesced(h) ==
  \A b \in DOMAIN h : ~h[b].used /\ h[b].next # NULL => h[h[b].next].used

(* kfree leaves no two free blocks side by side.                           *)
Coalesced == ~Overrun => IsCoalesced(hdr)

(* Headers and payloads lie on multiples of HEAP_ALIGNMENT: the header's   *)
(* size, every rounding, also one that wraps, and every remainder of a     *)
(* split keep it; of an overrun list, the headers that are left.           *)
PayloadsAligned ==
  \A b \in DOMAIN hdr :
    (b + HEADER) % HEAP_ALIGNMENT = 0 /\ hdr[b].size % HEAP_ALIGNMENT = 0

(* When everything has been freed, in whatever order, the heap is the one  *)
(* block heap_init made: fragmentation never outlives the blocks, unless a *)
(* write has overrun one.                                                  *)
WholeWhenFree ==
  ~Overrun /\ (\A b \in DOMAIN hdr : ~hdr[b].used) =>
    DOMAIN hdr \subseteq {HEAP_START} /\
    \A b \in DOMAIN hdr : hdr[b].size = HEAP_INITIAL_SIZE - HEADER

NoHiddenGap ==
  \A start \in HEAP_START .. HEAP_END - 1, n \in 1 .. HEAP_INITIAL_SIZE :
    /\ DOMAIN hdr # {}
    /\ start + HEADER + n <= HEAP_END
    /\ \A b \in DOMAIN hdr :
         hdr[b].used => start + HEADER + n <= b \/ BlockEnd(hdr, b) <= start
    => Fitting(hdr, n) # {}

ListComplete ==
  \A reached \in SUBSET DOMAIN hdr :
    /\ HEAP_START \in reached
    /\ \A b \in reached : hdr[b].next # NULL => hdr[b].next \in reached
    => reached = DOMAIN hdr

(* find_free_block overlooks no room: a stretch of memory outside the used *)
(* blocks that could hold a header and n bytes lies in a free block of at  *)
(* least n bytes, and its walk from the first block along next comes to    *)
(* every block, until a write has overrun its payload.                     *)
SearchFindsRoom == ~Overrun => NoHiddenGap /\ ListComplete

UsedBlocks == {b \in DOMAIN hdr : hdr[b].used}

(* The bytes that kernel_heap.used_size should count: all payloads in use. *)
PayloadBytes(h, b) == b + HEADER .. BlockEnd(h, b) - 1

UsedBytes == UNION {PayloadBytes(hdr, b) : b \in UsedBlocks}

(* The statistics agree with the list after every mix of splits and merges *)
(* (heap_get_used_size, and the summary line of heap_dump_blocks), until a *)
(* write has overrun its payload.                                          *)
CountersExact ==
  ~Overrun => /\ used_size = Cardinality(UsedBytes)
              /\ block_count = Cardinality(DOMAIN hdr)

(* The pointers handed out and not taken back, and their payload's length. *)
Live(h) == [p \in {b + HEADER : b \in {a \in DOMAIN h : h[a].used}} |-> h[p - HEADER].size]

(* heap.c implements the abstract heap: the blocks it hands out are long   *)
(* enough, apart from each other, and stay put; kcalloc clears and         *)
(* krealloc copies within the block they return, and all of the old one,   *)
(* unless the request is one that kmalloc's rounding takes around size_t.  *)
Malloc == INSTANCE AbstractHeap
            WITH First <- HEAP_START + HEADER,
                 End <- HEAP_END,
                 Sizes <- 0 .. WORD - 1,
                 Largest <- WORD - HEAP_ALIGNMENT,
                 live <- Live(hdr)

RefinesAbstractHeap == Malloc!HeapSpec
=============================================================================
