----------------------------- MODULE PmmProofs ------------------------------
(***************************************************************************)
(* The invariants of Pmm and its refinement of FrameAllocator, for every   *)
(* page size, memory map and set of request sizes.  The inductive          *)
(* invariant is the conjunction of the four parts: BitmapExact says which  *)
(* pages the search may grant, HeldInArena that none of them is held, and *)
(* the counting lemmas carry Accounting along.                             *)
(***************************************************************************)
EXTENDS Pmm, FiniteSetTheorems, TLAPS

(* A function on a finite set has a greatest value: the sets of arguments  *)
(* with a greater value are ordered by inclusion, and a least one is empty.*)
LEMMA FiniteMax ==
  ASSUME NEW S, IsFiniteSet(S), S # {}, NEW f \in [S -> Int]
  PROVE  \E i \in S : \A j \in S : f[j] <= f[i]
<1> DEFINE Above(i) == {j \in S : f[j] > f[i]}
           T == {Above(i) : i \in S}
<1>1. T \subseteq FiniteSubsetsOf(S) /\ T # {}
  <2>1. \A i \in S : IsFiniteSet(Above(i)) /\ Above(i) \subseteq S
    BY FS_Subset
  <2>2. \A i \in S : Above(i) \in FiniteSubsetsOf(S)
    <3> HIDE DEF Above
    <3> QED BY <2>1, ZenonT(20) DEF FiniteSubsetsOf
  <2> HIDE DEF Above
  <2> QED BY <2>2
<1>2. PICK x \in T : \A y \in T : <<y, x>> \notin StrictSubsetOrdering(S)
  BY <1>1, FS_StrictSubsetOrderingWellFounded, WFMin
<1>3. PICK i \in S : x = Above(i)
  OBVIOUS
<1>4. ASSUME NEW j \in S, f[j] > f[i]
      PROVE  FALSE
  <2>1. Above(j) \subseteq x /\ j \in x /\ j \notin Above(j)
    BY <1>3, <1>4
  <2>2. <<Above(j), x>> \in StrictSubsetOrdering(S)
    BY <2>1, <1>3 DEF StrictSubsetOrdering
  <2> QED BY <1>2, <2>2
<1> QED BY <1>4

-----------------------------------------------------------------------------
(* What pmm_init computes from a memory map.                               *)

(* What the assumptions give for one memory map: its pages are finite, and *)
(* pmm_init's bits and the arena lie among them, apart.                    *)
LEMMA MapFacts ==
  ASSUME NEW m \in MemMaps
  PROVE  /\ total_pages[m] \in Int
         /\ IsFiniteSet(Pages(m))
         /\ IsFiniteSet(InitCalls[m])
         /\ InitBitmap[m] \subseteq Pages(m)
         /\ Arena(m) \subseteq Pages(m) \ {0}
         /\ Arena(m) \cap InitBitmap[m] = {}
<1>1. IsMemMap(m) /\ PAGE_SIZE \in Nat \ {0}
  BY PmmAssumption
<1>2. /\ IsFiniteSet(UsableEntries(m)) /\ UsableEntries(m) # {}
      /\ UsableEntries(m) \subseteq 1 .. Len(m) /\ Len(m) \in Nat
  <2>1. Len(m) \in Nat /\ UsableEntries(m) \subseteq 1 .. Len(m)
    BY <1>1 DEF IsMemMap, UsableEntries
  <2>2. IsFiniteSet(1 .. Len(m))
    BY <2>1, FS_Interval
  <2>3. IsFiniteSet(UsableEntries(m))
    BY <2>1, <2>2, FS_Subset
  <2> QED BY <1>1, <2>1, <2>3 DEF IsMemMap
<1>3. total_pages[m] \in Int
  <2> DEFINE f == [i \in UsableEntries(m) |-> EntryEnd(m, i)]
  <2>1. \A i \in UsableEntries(m) : EntryEnd(m, i) \in Int
    <3>1. \A i \in 1 .. Len(m) :
            m[i] \in [base : Nat, length : Nat \ {0}, usable : BOOLEAN]
      <4> DEFINE Entry == [base : Nat, length : Nat \ {0}, usable : BOOLEAN]
      <4>1. m \in Seq(Entry)
        BY <1>1 DEF IsMemMap
      <4> HIDE DEF Entry
      <4>2. \A i \in 1 .. Len(m) : m[i] \in Entry
        BY <4>1
      <4> QED BY <4>2 DEF Entry
    <3>2. \A i \in UsableEntries(m) : m[i].base \in Int /\ m[i].length \in Int
      BY <1>2, <3>1
    <3> QED BY <3>2 DEF EntryEnd
  <2>2. f \in [UsableEntries(m) -> Int]
    BY <2>1
  <2>3. \E i \in UsableEntries(m) : \A j \in UsableEntries(m) : f[j] <= f[i]
    BY <1>2, <2>2, FiniteMax
  <2>4. highest_addr(m) \in Int
    BY <2>1, <2>3 DEF highest_addr
  <2> QED BY <1>1, <2>4 DEF total_pages
<1>4. IsFiniteSet(Pages(m))
  BY <1>3, FS_Interval DEF Pages
<1>5. IsFiniteSet(InitCalls[m]) /\ InitCalls[m] \subseteq (0 .. Len(m)) \X Pages(m)
  <2>1. InitCalls[m] \subseteq (0 .. Len(m)) \X Pages(m)
    BY DEF InitCalls
  <2>2. IsFiniteSet((0 .. Len(m)) \X Pages(m))
    <3>1. IsFiniteSet(0 .. Len(m))
      BY <1>2, FS_Interval
    <3> QED BY <1>4, <3>1, FS_Product
  <2> QED BY <2>1, <2>2, FS_Subset
<1>6. InitBitmap[m] \subseteq Pages(m)
  BY <1>5 DEF InitBitmap
<1>7. UsablePages[m] \subseteq Pages(m)
  BY DEF UsablePages
<1> QED BY <1>3, <1>4, <1>5, <1>6, <1>7 DEF Arena, FreePages

(* A run of count pages has count pages.                                   *)
LEMMA RunSize ==
  ASSUME NEW start \in Int, NEW count \in Nat
  PROVE  IsFiniteSet(Run(start, count)) /\ Cardinality(Run(start, count)) = count
BY FS_Interval DEF Run

(* With the bitmap exact, the search accepts the pages of the arena that   *)
(* nobody holds.                                                           *)
LEMMA FreeIsUnheld ==
  ASSUME TypeOK, BitmapExact
  PROVE  FreePages(memmap, bitmap) = Arena(memmap) \ HeldPages
BY DEF TypeOK, BitmapExact, Arena, FreePages

-----------------------------------------------------------------------------
(* Multiples of n: a page that starts before the end of an aligned entry   *)
(* ends by it.                                                             *)
LEMMA NextMultiple ==
  ASSUME NEW n \in Nat \ {0}, NEW k \in Int, NEW l \in Int, k * n < l * n
  PROVE  (k + 1) * n <= l * n
<1>1. k < l
  BY SMT
<1> QED BY <1>1, SMT

(* A page of the arena lies in a usable entry and outside the bitmap's own *)
(* pages.                                                                  *)
LEMMA ArenaPage ==
  ASSUME NEW m \in MemMaps, NEW p \in Arena(m)
  PROVE  /\ p # 0
         /\ \E i \in UsableEntries(m) :
              m[i].base <= p * PAGE_SIZE /\ (p + 1) * PAGE_SIZE <= EntryEnd(m, i)
         /\ p \notin PagesTouched(m, largest_base(m), bitmap_size(m))
<1>1. p \in UsablePages[m] /\ p \notin InitBitmap[m] /\ p # 0
  BY DEF Arena, FreePages
<1>2. p \in Pages(m) /\ PAGE_SIZE \in Nat \ {0} /\ IsMemMap(m)
  BY <1>1, MapFacts, PmmAssumption
<1>3. p \in Int
  BY <1>2, MapFacts DEF Pages
<1>4. PICK i \in UsableEntries(m) : p * PAGE_SIZE >= m[i].base /\ p * PAGE_SIZE < EntryEnd(m, i)
  BY <1>1 DEF UsablePages
<1>5. (p + 1) * PAGE_SIZE <= EntryEnd(m, i)
  <2>1. m[i].base \in Nat /\ m[i].length \in Nat
    <3> DEFINE E == [base : Nat, length : Nat \ {0}, usable : BOOLEAN]
    <3>1. m \in Seq(E) /\ i \in DOMAIN m
      BY <1>2 DEF IsMemMap, UsableEntries
    <3> HIDE DEF E
    <3>2. m[i] \in E
      BY <3>1
    <3> QED BY <3>2 DEF E
  <2>2. m[i].base % PAGE_SIZE = 0 /\ m[i].length % PAGE_SIZE = 0
    BY <1>2 DEF IsMemMap
  <2> DEFINE b == m[i].base \div PAGE_SIZE
             l == m[i].length \div PAGE_SIZE
  <2>3. /\ b \in Int /\ l \in Int
        /\ m[i].base = b * PAGE_SIZE /\ m[i].length = l * PAGE_SIZE
    BY <1>2, <2>1, <2>2
  <2> HIDE DEF b, l
  <2>4. EntryEnd(m, i) = (b + l) * PAGE_SIZE
    BY <1>2, <2>3 DEF EntryEnd
  <2>5. b + l \in Int
    BY <2>3
  <2> QED BY <1>2, <1>3, <1>4, <2>4, <2>5, NextMultiple
<1>6. p \notin PagesTouched(m, largest_base(m), bitmap_size(m))
  <2>1. ASSUME p \in PagesTouched(m, largest_base(m), bitmap_size(m))
        PROVE  FALSE
    <3>1. Len(m) \in Nat
      BY <1>2 DEF IsMemMap
    <3>2. <<0, p>> \in InitCalls[m]
      BY <1>2, <2>1, <3>1 DEF InitCalls
    <3>3. p \in InitBitmap[m]
      BY <3>2 DEF InitBitmap
    <3> QED BY <1>1, <3>3
  <2> QED BY <2>1
<1> QED BY <1>1, <1>4, <1>5, <1>6

-----------------------------------------------------------------------------
(* Every page that has a holder has one, and is a page of the arena.       *)
HeldInArena ==
  /\ \A p \in DOMAIN holders : holders[p] <= 1
  /\ HeldPages \subseteq Arena(memmap)

PmmInv == TypeOK /\ HeldInArena /\ BitmapExact /\ Accounting

(* pmm_init establishes the invariant.                                     *)
LEMMA PmmInit == Init => PmmInv
<1> SUFFICES ASSUME NEW m \in MemMaps, pmm_init(m)
             PROVE  PmmInv
  BY DEF Init
<1> USE MapFacts DEF pmm_init
<1>1. Cardinality(InitCalls[m]) \in Int /\ Cardinality(InitBitmap[m]) \in Int
  BY FS_CardinalityType, FS_Subset
<1>2. TypeOK
  BY <1>1 DEF TypeOK
<1>3. HeldPages = {}
  BY DEF HeldPages
<1>4. HeldInArena /\ BitmapExact
  BY <1>3 DEF HeldInArena, BitmapExact
<1>5. Accounting
  BY <1>1 DEF Accounting, Overcount
<1> QED BY <1>2, <1>4, <1>5 DEF PmmInv

(* A grant takes count pages of the arena that nobody holds.               *)
LEMMA GrantStep ==
  ASSUME PmmInv, NEW count \in Counts, count > 0,
         NEW start \in FreePages(memmap, bitmap),
         IsFirstFit(FreePages(memmap, bitmap), start, count),
         bitmap' = bitmap \cup Run(start, count),
         used_pages' = used_pages + count,
         holders' = [p \in DOMAIN holders |->
                       IF p \in Run(start, count) THEN holders[p] + 1 ELSE holders[p]],
         ret' = [count |-> count, start |-> start],
         memmap' = memmap
  PROVE  PmmInv'
<1> USE DEF PmmInv
<1>1. memmap \in MemMaps /\ count \in Nat
  BY PmmAssumption DEF TypeOK
<1>2. Run(start, count) \subseteq Arena(memmap) \ HeldPages
  BY FreeIsUnheld DEF IsFirstFit, RunAt
<1>3. Arena(memmap) \subseteq Pages(memmap) \ {0} /\ start \in Nat
  <2>1. start \in Pages(memmap)
    BY <1>1, FreeIsUnheld, MapFacts
  <2> QED BY <1>1, <2>1, MapFacts DEF Pages
<1>4. TypeOK'
  <2>1. bitmap' \subseteq Pages(memmap)
    BY <1>2, <1>3 DEF TypeOK
  <2>2. holders' \in [Pages(memmap) -> Nat]
    BY DEF TypeOK
  <2> QED BY <1>1, <1>3, <2>1, <2>2 DEF TypeOK
<1>5. /\ HeldPages' = HeldPages \cup Run(start, count)
      /\ \A p \in DOMAIN holders' : holders'[p] <= 1
  <2>1. Run(start, count) \subseteq Pages(memmap)
    BY <1>2, <1>3
  <2>2. \A p \in Run(start, count) : holders[p] = 0
    BY <1>2, <2>1 DEF HeldPages, TypeOK
  <2> QED BY <2>1, <2>2 DEF HeldPages, TypeOK, HeldInArena
<1>6. HeldInArena' /\ BitmapExact'
  BY <1>2, <1>5 DEF HeldInArena, BitmapExact
<1>7. Accounting'
  <2>1. Run(start, count) \cap bitmap = {}
    BY <1>1, <1>2, MapFacts DEF BitmapExact
  <2>2. IsFiniteSet(bitmap) /\ Cardinality(bitmap) \in Int
    BY <1>1, MapFacts, FS_Subset, FS_CardinalityType DEF TypeOK
  <2>3. Cardinality(bitmap') = Cardinality(bitmap) + count
    <3>1. Cardinality(Run(start, count) \cap bitmap) = 0
      BY <2>1, FS_EmptySet
    <3>2. IsFiniteSet(Run(start, count)) /\ Cardinality(Run(start, count)) = count
      BY <1>1, <1>3, RunSize
    <3>3. bitmap \cap Run(start, count) = Run(start, count) \cap bitmap
      OBVIOUS
    <3>4. Cardinality(bitmap \cup Run(start, count)) = Cardinality(bitmap) + count - 0
      BY <2>2, <3>1, <3>2, <3>3, FS_Union
    <3> QED BY <1>1, <2>2, <3>4
  <2>4. Overcount(memmap) \in Int
    BY <1>1, MapFacts, FS_Subset, FS_CardinalityType DEF Overcount
  <2> QED BY <1>1, <2>2, <2>3, <2>4 DEF Accounting
<1> QED BY <1>4, <1>6, <1>7

(* Pages given back by their holders become free, and are counted once.    *)
LEMMA ReleaseStep ==
  ASSUME PmmInv, NEW count \in Counts, NEW start \in DOMAIN holders,
         pmm_free_pages(start, count)
  PROVE  PmmInv'
<1> USE DEF PmmInv, pmm_free_pages, BitsCleared
<1>1. memmap \in MemMaps /\ count \in Nat /\ start \in Int
  <2>1. memmap \in MemMaps /\ count \in Nat
    BY PmmAssumption DEF TypeOK
  <2>2. start \in Pages(memmap)
    BY DEF TypeOK
  <2> QED BY <2>1, <2>2, MapFacts DEF Pages
<1>2. Run(start, count) \subseteq HeldPages
  BY DEF HeldPages
<1>3. TypeOK'
  <2>1. holders' \in [Pages(memmap) -> Nat]
    BY DEF TypeOK
  <2>2. memmap' = memmap /\ ret' = ret /\ bitmap' \subseteq bitmap
    OBVIOUS
  <2>3. used_pages' \in Int
    BY <1>1 DEF TypeOK
  <2> QED BY <2>1, <2>2, <2>3 DEF TypeOK
<1>4. /\ HeldPages' = HeldPages \ Run(start, count)
      /\ \A p \in DOMAIN holders' : holders'[p] <= 1
  BY <1>2 DEF HeldPages, TypeOK, HeldInArena
<1>5. Run(start, count) \cap InitBitmap[memmap] = {}
  BY <1>1, <1>2, MapFacts DEF HeldInArena
<1>6. HeldInArena' /\ BitmapExact'
  BY <1>2, <1>4, <1>5 DEF HeldInArena, BitmapExact
<1>7. Accounting'
  <2>1. bitmap \cap Run(start, count) = Run(start, count)
    BY <1>2 DEF BitmapExact
  <2>2. IsFiniteSet(bitmap) /\ Cardinality(bitmap) \in Int
    BY <1>1, MapFacts, FS_Subset, FS_CardinalityType DEF TypeOK
  <2>3. Cardinality(bitmap') = Cardinality(bitmap) - count
    <3>1. Cardinality(Run(start, count)) = count
      BY <1>1, RunSize
    <3>2. Cardinality(bitmap \ Run(start, count)) =
            Cardinality(bitmap) - Cardinality(bitmap \cap Run(start, count))
      BY ONLY <2>2, FS_Difference
    <3> QED BY <2>1, <3>1, <3>2
  <2>4. Overcount(memmap) \in Int
    BY <1>1, MapFacts, FS_Subset, FS_CardinalityType DEF Overcount
  <2> QED BY <1>1, <2>2, <2>3, <2>4 DEF Accounting
<1> QED BY <1>3, <1>6, <1>7

(* Every call of pmm_alloc_pages and pmm_free_pages keeps it.              *)
LEMMA PmmStep == PmmInv /\ [Next]_vars => PmmInv'
<1> SUFFICES ASSUME PmmInv, [Next]_vars PROVE PmmInv'
  OBVIOUS
<1>1. ASSUME NEW count \in Counts, pmm_alloc_pages(count)
      PROVE  PmmInv'
  <2>1. CASE /\ count > 0 => NoRun(FreePages(memmap, bitmap), count)
             /\ ret' = [count |-> count, start |-> 0]
             /\ UNCHANGED <<memmap, bitmap, used_pages, holders>>
    BY <2>1, PmmAssumption
    DEF PmmInv, TypeOK, HeldInArena, BitmapExact, Accounting, HeldPages
  <2> QED BY <1>1, <2>1, GrantStep DEF pmm_alloc_pages, BitsSet
<1>2. ASSUME NEW count \in Counts, NEW start \in DOMAIN holders,
             pmm_free_pages(start, count)
      PROVE  PmmInv'
  BY <1>2, ReleaseStep
<1>3. CASE UNCHANGED vars
  BY <1>3 DEF vars, PmmInv, TypeOK, HeldInArena, BitmapExact, Accounting, HeldPages
<1> QED BY <1>1, <1>2, <1>3 DEF Next

(* pmm.c keeps its types, grants no page twice, keeps the bitmap equal to  *)
(* what is held, and keeps used_pages equal to the number of set bits plus *)
(* what pmm_init counted twice.                                            *)
THEOREM PmmCorrect == Spec => [](TypeOK /\ NoSharedPage /\ BitmapExact /\ Accounting)
<1>1. PmmInv => TypeOK /\ NoSharedPage /\ BitmapExact /\ Accounting
  <2> SUFFICES ASSUME PmmInv
               PROVE  NoSharedPage
    BY DEF PmmInv
  <2>1. \A p \in HeldPages : p \in Arena(memmap) /\ memmap \in MemMaps
    BY DEF PmmInv, HeldInArena, TypeOK
  <2> QED BY <2>1, ArenaPage DEF PmmInv, HeldInArena, NoSharedPage
<1> QED BY PmmInit, PmmStep, <1>1, PTL DEF Spec

-----------------------------------------------------------------------------
(* The first state is one of the abstract allocator.                       *)
LEMMA RefinementInit == Init => Frames!FrameInit
<1> SUFFICES ASSUME NEW m \in MemMaps, pmm_init(m)
             PROVE  Frames!FrameInit
  BY DEF Init
<1>1. Arena(m) \subseteq Nat \ {0}
  BY MapFacts DEF Pages
<1> QED BY <1>1 DEF pmm_init, Frames!FrameInit, Arena

(* Every step of pmm.c is a step of the abstract allocator, or none.       *)
LEMMA RefinementStep ==
  PmmInv /\ [Next]_vars => [Frames!FrameNext]_Frames!frameVars
<1> SUFFICES ASSUME PmmInv, [Next]_vars
             PROVE  [Frames!FrameNext]_Frames!frameVars
  OBVIOUS
<1>1. ASSUME NEW count \in Counts, pmm_alloc_pages(count)
      PROVE  Frames!FrameNext
  <2> DEFINE free == FreePages(memmap, bitmap)
  <2>1. ASSUME NEW start \in free, count > 0, IsFirstFit(free, start, count),
               bitmap' = bitmap \cup Run(start, count), memmap' = memmap,
               ret' = [count |-> count, start |-> start]
        PROVE  Frames!Grant(count)
    <3>1. FreePages(memmap', bitmap') = free \ Run(start, count)
      BY <2>1 DEF FreePages
    <3> QED
      BY <2>1, <3>1
      DEF Frames!Grant, Frames!RunAt, Frames!Run, IsFirstFit, RunAt, Run, Arena
  <2>2. ASSUME count > 0 => NoRun(free, count),
               ret' = [count |-> count, start |-> 0],
               UNCHANGED <<memmap, bitmap>>
        PROVE  Frames!Refuse(count)
    BY <2>2 DEF Frames!Refuse, Frames!NoRun, NoRun, Frames!RunAt, RunAt,
                Frames!Run, Run, Arena, FreePages
  <2> QED BY <1>1, <2>1, <2>2 DEF pmm_alloc_pages, BitsSet, Frames!FrameNext
<1>2. ASSUME NEW count \in Counts, NEW start \in DOMAIN holders,
             pmm_free_pages(start, count)
      PROVE  Frames!Release
  <2>1. FreePages(memmap, bitmap) \subseteq FreePages(memmap', bitmap')
    BY <1>2 DEF pmm_free_pages, BitsCleared, FreePages
  <2>2. PmmInv'
    BY PmmStep
  <2>3. (FreePages(memmap, bitmap) = Arena(memmap) \ HeldPages)'
    BY <2>2, FreeIsUnheld, PTL DEF PmmInv
  <2>4. FreePages(memmap', bitmap') \subseteq Arena(memmap')
    BY <2>3
  <2> QED BY <1>2, <2>1, <2>4 DEF pmm_free_pages, BitsCleared, Frames!Release, Arena
<1>3. CASE UNCHANGED vars
  BY <1>3 DEF vars, Frames!frameVars, Arena, FreePages
<1> QED BY <1>1, <1>2, <1>3 DEF Next, Frames!FrameNext

(* pmm.c implements the frame allocator: every call grants free frames,    *)
(* refuses because no run is long enough, or gives frames back.            *)
THEOREM PmmRefines == Spec => RefinesFrameAllocator
<1> QED
  BY PmmInit, PmmStep, RefinementInit, RefinementStep, PTL
  DEF Spec, RefinesFrameAllocator, Frames!FrameSpec

(* bitmap_set never reaches past the bitmap, and a page that callers hold  *)
(* is one of the memory map's.                                             *)
THEOREM PmmTypes == Spec => []TypeOK
<1> QED BY PmmCorrect, PTL

(* The bitmap has the bits that pmm_init set and those of the pages that   *)
(* callers hold, and no other: no page is lost and none is granted twice.  *)
THEOREM BitmapIsExact == Spec => []BitmapExact
<1> QED BY PmmCorrect, PTL

(* used_pages is the number of bits set and the number that pmm_init       *)
(* counts for overlapping regions, whatever was allocated and freed.       *)
THEOREM AccountingIsKept == Spec => []Accounting
<1> QED BY PmmCorrect, PTL
=============================================================================
