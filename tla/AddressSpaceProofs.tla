------------------------- MODULE AddressSpaceProofs -------------------------
(***************************************************************************)
(* Proofs about AddressSpace.  The invariant gives every table a level, 4  *)
(* for the pml4s down to 1 for the page tables: an entry refers to a table *)
(* one level down or, from level 1, to a frame that is no table.  Every    *)
(* frame has one entry that refers to it, where a space's kernel half is   *)
(* the boot space's and its copies do not count.  So a walk cannot meet    *)
(* itself, two walks that come to one page table are walks for its pages,  *)
(* and what vmm_destroy_space gives back is nobody else's.                 *)
(*                                                                         *)
(* The lemmas speak of tables "tb", the live spaces "sp" and the frames    *)
(* "spare" that no table refers to, so that they can be used for the       *)
(* tables in the middle of an operation too.                               *)
(***************************************************************************)
EXTENDS AddressSpace, WellFoundedInduction, FiniteSetTheorems, TLAPS

IsTables(tb) ==
  /\ DOMAIN tb \subseteq Frames
  /\ \A t \in DOMAIN tb : tb[t] \in [Index -> Entries]

(* The tables are trees below the pml4s.                                   *)
Levels(tb, sp, level) ==
  /\ level \in [DOMAIN tb -> 1 .. 4]
  /\ \A t \in DOMAIN tb : level[t] = 4 <=> t \in sp
  /\ \A t \in DOMAIN tb, i \in Index :
       tb[t][i] # Absent =>
         IF level[t] = 1 THEN tb[t][i].frame \notin DOMAIN tb
         ELSE /\ tb[t][i].frame \in DOMAIN tb
              /\ level[tb[t][i].frame] = level[t] - 1

(* Entry i of table t refers to f and is no copy of a kernel entry.        *)
Refers(tb, sp, t, i, f) ==
  /\ t \in DOMAIN tb /\ i \in Index
  /\ tb[t][i].frame = f
  /\ t \in sp \ {Boot.pml4} => i \notin KernelHalf

(* One entry refers to a frame.                                            *)
Unique(tb, sp) ==
  \A f \in Frames, t, u \in DOMAIN tb, i, j \in Index :
    Refers(tb, sp, t, i, f) /\ Refers(tb, sp, u, j, f) => t = u /\ i = j

(* None refers to a spare frame, and one to every other frame but a top.   *)
Placed(tb, sp, spare) ==
  \A f \in Frames :
    /\ f \in spare => /\ f \notin DOMAIN tb
                      /\ \A t \in DOMAIN tb, i \in Index : ~Refers(tb, sp, t, i, f)
    /\ f \notin spare \cup sp => \E t \in DOMAIN tb, i \in Index : Refers(tb, sp, t, i, f)

(* The kernel's half of a pml4 never changes.                              *)
Shared(tb, sp) ==
  \A s \in sp, i \in KernelHalf : tb[s][i] = Boot.tables[Boot.pml4][i]

Sound(tb, sp, spare, level) ==
  /\ IsTables(tb)
  /\ sp \subseteq DOMAIN tb /\ Boot.pml4 \in sp
  /\ Levels(tb, sp, level)
  /\ Unique(tb, sp)
  /\ Placed(tb, sp, spare)
  /\ Shared(tb, sp)

(* The frames that are in no table and behind no entry.                    *)
Spare == free \cup held \cup lost

(* The state is sound but for the frames in "gone", which nobody has.      *)
Sane(gone) ==
  /\ TypeOK
  /\ kernel_space = Boot.pml4
  /\ \E level \in [DOMAIN tables -> 1 .. 4] : Sound(tables, spaces, Spare \cup gone, level)
  /\ free \cap held = {} /\ lost \cap (free \cup held) = {}
  /\ TlbCoherent

(* While the processor runs, no frame is gone.                             *)
IInv == Sane({})

(* The inductive invariant: the failed heap fault, after which the         *)
(* processor does nothing, has left one frame in nobody's hands.           *)
Inv == IInv \/ (halted /\ \E f \in Frames : Sane({f}))

-----------------------------------------------------------------------------
(* Entries, pages and frames.                                              *)

(* The frame of an entry is 0 only when it is absent.                      *)
LEMMA EntryFacts ==
  ASSUME NEW e \in Entries
  PROVE  /\ e.frame = 0 <=> e = Absent
         /\ e # Absent => e.frame \in Frames
         /\ 0 \notin Frames
<1>1. 0 \notin Frames
  BY AddressSpaceAssumption
<1>2. Absent.frame = 0
  BY DEF Absent
<1> QED BY <1>1, <1>2 DEF Entries

(* The entries that the mapping functions write.                           *)
LEMMA NewEntry ==
  ASSUME NEW f \in Frames, NEW nx \in BOOLEAN
  PROVE  /\ Entry(f, nx) \in Entries /\ Entry(f, nx).frame = f
         /\ Entry(f, nx) # Absent /\ Absent \in Entries /\ Absent.frame = 0
<1>1. Entry(f, nx) \in Entries /\ Entry(f, nx).frame = f /\ Absent \in Entries
      /\ Absent.frame = 0
  BY DEF Entry, Entries, Absent
<1>2. f # 0
  BY AddressSpaceAssumption
<1> QED BY <1>1, <1>2

(* A page is four indices, and a kernel page has its pml4 entry from boot. *)
LEMMA PageFacts ==
  ASSUME NEW va \in VirtualPages
  PROVE  /\ va[1] \in Index /\ va[2] \in Index /\ va[3] \in Index /\ va[4] \in Index
         /\ va[1] \in KernelHalf => Boot.tables[Boot.pml4][va[1]] # Absent
         /\ va = <<va[1], va[2], va[3], va[4]>>
<1>1. va \in Index \X Index \X Index \X Index
  BY AddressSpaceAssumption
<1> QED BY <1>1, AddressSpaceAssumption

(* The frame that pmm_alloc_page grants is a free one.                     *)
LEMMA LowestIn ==
  ASSUME NEW S \in SUBSET Frames, S # {}
  PROVE  Lowest(S) \in S
<1>1. S \in SUBSET Nat
  BY AddressSpaceAssumption
<1>2. PICK x \in S : \A y \in S : ~(<<y, x>> \in OpToRel(<, Nat))
  BY <1>1, NatLessThanWellFounded, WFMin
<1>3. ASSUME NEW y \in S PROVE x <= y
  <2>1. x \in Nat /\ y \in Nat
    BY <1>1
  <2>2. <<y, x>> \in Nat \X Nat /\ <<y, x>>[1] = y /\ <<y, x>>[2] = x
    BY <2>1
  <2>3. ~(y < x)
    BY <1>2, <2>2 DEF OpToRel
  <2> QED BY <2>1, <2>3
<1> QED BY <1>3 DEF Lowest

(* An entry of the tables, and what its level says of it.                  *)
LEMMA TableEntry ==
  ASSUME NEW tb, NEW sp, NEW spare, NEW level, Sound(tb, sp, spare, level),
         NEW t \in DOMAIN tb, NEW i \in Index
  PROVE  /\ t \in Frames /\ t # 0 /\ tb[t][i] \in Entries
         /\ tb[t][i].frame = 0 <=> tb[t][i] = Absent
         /\ tb[t][i] # Absent => tb[t][i].frame \in Frames
         /\ level[t] \in 1 .. 4
         /\ level[t] = 4 <=> t \in sp
<1>1. t \in Frames /\ tb[t][i] \in Entries
  BY DEF Sound, IsTables
<1>2. level[t] \in 1 .. 4 /\ (level[t] = 4 <=> t \in sp)
  BY DEF Sound, Levels
<1> QED BY <1>1, <1>2, EntryFacts

-----------------------------------------------------------------------------
(* Walks.                                                                  *)
Pdp(tb, s, va) == NextTable(tb, s, va[1])
Pd(tb, s, va) == NextTable(tb, Pdp(tb, s, va), va[2])

(* A step down goes to a table one level below.                            *)
LEMMA NextTableFacts ==
  ASSUME NEW tb, NEW sp, NEW spare, NEW level, Sound(tb, sp, spare, level),
         NEW t, NEW i \in Index, NEW n \in {2, 3, 4},
         t # 0 => t \in DOMAIN tb /\ level[t] = n,
         NextTable(tb, t, i) # 0
  PROVE  /\ t # 0 /\ tb[t][i] # Absent /\ tb[t][i].frame = NextTable(tb, t, i)
         /\ NextTable(tb, t, i) \in DOMAIN tb
         /\ level[NextTable(tb, t, i)] = n - 1
<1>1. t # 0 /\ tb[t][i] # Absent /\ tb[t][i].frame = NextTable(tb, t, i)
  BY DEF NextTable, Present
<1>2. level[t] # 1
  BY <1>1
<1> QED BY <1>1, <1>2 DEF Sound, Levels

(* The tables a walk meets, with their levels.                             *)
LEMMA WalkFacts ==
  ASSUME NEW tb, NEW sp, NEW spare, NEW level, Sound(tb, sp, spare, level),
         NEW s \in sp, NEW va \in VirtualPages
  PROVE  /\ s \in DOMAIN tb /\ s # 0 /\ level[s] = 4
         /\ Pdp(tb, s, va) # 0 =>
              /\ Pdp(tb, s, va) \in DOMAIN tb /\ level[Pdp(tb, s, va)] = 3
              /\ tb[s][va[1]].frame = Pdp(tb, s, va)
         /\ Pd(tb, s, va) # 0 =>
              /\ Pd(tb, s, va) \in DOMAIN tb /\ level[Pd(tb, s, va)] = 2
              /\ Pdp(tb, s, va) # 0 /\ tb[Pdp(tb, s, va)][va[2]].frame = Pd(tb, s, va)
         /\ PageTable(tb, s, va) # 0 =>
              /\ PageTable(tb, s, va) \in DOMAIN tb /\ level[PageTable(tb, s, va)] = 1
              /\ Pd(tb, s, va) # 0 /\ tb[Pd(tb, s, va)][va[3]].frame = PageTable(tb, s, va)
<1>0. va[1] \in Index /\ va[2] \in Index /\ va[3] \in Index
  BY PageFacts
<1>1. s \in DOMAIN tb /\ s # 0 /\ level[s] = 4
  BY <1>0, TableEntry DEF Sound
<1>2. Pdp(tb, s, va) # 0 =>
        /\ Pdp(tb, s, va) \in DOMAIN tb /\ level[Pdp(tb, s, va)] = 3
        /\ tb[s][va[1]].frame = Pdp(tb, s, va)
  BY <1>0, <1>1, NextTableFacts DEF Pdp
<1>3. Pd(tb, s, va) # 0 =>
        /\ Pd(tb, s, va) \in DOMAIN tb /\ level[Pd(tb, s, va)] = 2
        /\ Pdp(tb, s, va) # 0 /\ tb[Pdp(tb, s, va)][va[2]].frame = Pd(tb, s, va)
  BY <1>0, <1>2, NextTableFacts DEF Pd
<1>4. PageTable(tb, s, va) = NextTable(tb, Pd(tb, s, va), va[3])
  BY DEF PageTable, Pd, Pdp
<1>5. PageTable(tb, s, va) # 0 =>
        /\ PageTable(tb, s, va) \in DOMAIN tb /\ level[PageTable(tb, s, va)] = 1
        /\ Pd(tb, s, va) # 0 /\ tb[Pd(tb, s, va)][va[3]].frame = PageTable(tb, s, va)
  BY <1>0, <1>3, <1>4, NextTableFacts
<1> QED BY <1>1, <1>2, <1>3, <1>5

(* Walks from two tops with the same entry go the same way.                *)
LEMMA SameTop ==
  ASSUME NEW tb, NEW s, NEW u, NEW va, s # 0, u # 0, tb[s][va[1]] = tb[u][va[1]]
  PROVE  /\ PageTable(tb, s, va) = PageTable(tb, u, va)
         /\ Leaf(tb, s, va) = Leaf(tb, u, va)
<1>1. NextTable(tb, s, va[1]) = NextTable(tb, u, va[1])
  BY DEF NextTable, Present
<1>2. PageTable(tb, s, va) = PageTable(tb, u, va)
  BY <1>1 DEF PageTable
<1> QED BY <1>2 DEF Leaf

(* A walk from a top without an entry for the page ends there.             *)
LEMMA EmptyTop ==
  ASSUME NEW tb, NEW s, NEW va, tb[s][va[1]] = Absent
  PROVE  Leaf(tb, s, va) = Absent
<1>1. NextTable(tb, s, va[1]) = 0
  BY DEF NextTable, Present
<1>2. PageTable(tb, s, va) = 0
  BY <1>1 DEF PageTable, NextTable, Present
<1> QED BY <1>2 DEF Leaf, Present

(* All spaces walk alike in the kernel's half.                             *)
LEMMA KernelWalks ==
  ASSUME NEW tb, NEW sp, NEW spare, NEW level, Sound(tb, sp, spare, level),
         NEW s \in sp, NEW u \in sp, NEW va \in VirtualPages, va[1] \in KernelHalf
  PROVE  /\ PageTable(tb, s, va) = PageTable(tb, u, va)
         /\ Leaf(tb, s, va) = Leaf(tb, u, va)
<1>1. s # 0 /\ u # 0
  BY WalkFacts
<1>2. tb[s][va[1]] = tb[u][va[1]]
  BY DEF Sound, Shared
<1> QED BY <1>1, <1>2, SameTop

(* The entry of a pml4 that stands for a kernel entry's copies.            *)
LEMMA TopReference ==
  ASSUME NEW tb, NEW sp, NEW spare, NEW level, Sound(tb, sp, spare, level),
         NEW s \in sp, NEW i \in Index
  PROVE  /\ i \in KernelHalf => Refers(tb, sp, Boot.pml4, i, tb[s][i].frame)
         /\ i \notin KernelHalf => Refers(tb, sp, s, i, tb[s][i].frame)
BY DEF Sound, Shared, Refers

(* Two walks that come to the same page table are walks for pages that it  *)
(* holds, in one space or in the kernel's half.                            *)
LEMMA SameTable ==
  ASSUME NEW tb, NEW sp, NEW spare, NEW level, Sound(tb, sp, spare, level),
         NEW s \in sp, NEW u \in sp, NEW va \in VirtualPages, NEW vb \in VirtualPages,
         PageTable(tb, s, va) # 0, PageTable(tb, s, va) = PageTable(tb, u, vb)
  PROVE  /\ va[1] = vb[1] /\ va[2] = vb[2] /\ va[3] = vb[3]
         /\ s = u \/ va[1] \in KernelHalf
<1>0. /\ va[1] \in Index /\ va[2] \in Index /\ va[3] \in Index
      /\ vb[1] \in Index /\ vb[2] \in Index /\ vb[3] \in Index
  BY PageFacts
<1> DEFINE a == Pdp(tb, s, va)
           b == Pd(tb, s, va)
           c == PageTable(tb, s, va)
           x == Pdp(tb, u, vb)
           y == Pd(tb, u, vb)
<1>1. /\ a \in DOMAIN tb /\ level[a] = 3 /\ tb[s][va[1]].frame = a
      /\ b \in DOMAIN tb /\ level[b] = 2 /\ tb[a][va[2]].frame = b
      /\ c \in DOMAIN tb /\ tb[b][va[3]].frame = c
  BY WalkFacts
<1>2. /\ x \in DOMAIN tb /\ level[x] = 3 /\ tb[u][vb[1]].frame = x
      /\ y \in DOMAIN tb /\ level[y] = 2 /\ tb[x][vb[2]].frame = y
      /\ tb[y][vb[3]].frame = c
  BY WalkFacts
<1> HIDE DEF a, b, c, x, y
<1>3. a \notin sp /\ b \notin sp /\ x \notin sp /\ y \notin sp
  BY <1>0, <1>1, <1>2, TableEntry
<1>4. a \in Frames /\ b \in Frames /\ c \in Frames
  BY <1>0, <1>1, TableEntry
<1>5. b = y /\ va[3] = vb[3]
  <2>1. Refers(tb, sp, b, va[3], c) /\ Refers(tb, sp, y, vb[3], c)
    BY <1>0, <1>1, <1>2, <1>3 DEF Refers
  <2> QED BY <1>0, <1>1, <1>2, <1>4, <2>1 DEF Sound, Unique
<1>6. a = x /\ va[2] = vb[2]
  <2>1. Refers(tb, sp, a, va[2], b) /\ Refers(tb, sp, x, vb[2], b)
    BY <1>0, <1>1, <1>2, <1>3, <1>5 DEF Refers
  <2> QED BY <1>0, <1>1, <1>2, <1>4, <2>1 DEF Sound, Unique
<1>7. va[1] = vb[1] /\ (s = u \/ va[1] \in KernelHalf)
  <2>1. \A r, q \in sp, i, j \in Index :
          Refers(tb, sp, r, i, a) /\ Refers(tb, sp, q, j, a) => r = q /\ i = j
    BY <1>4 DEF Sound, Unique
  <2>2. /\ va[1] \in KernelHalf => Refers(tb, sp, Boot.pml4, va[1], a)
        /\ va[1] \notin KernelHalf => Refers(tb, sp, s, va[1], a)
        /\ vb[1] \in KernelHalf => Refers(tb, sp, Boot.pml4, vb[1], a)
        /\ vb[1] \notin KernelHalf => Refers(tb, sp, u, vb[1], a)
    BY <1>0, <1>1, <1>2, <1>6, TopReference
  <2>3. Boot.pml4 \in sp
    BY DEF Sound
  <2> QED BY <1>0, <2>1, <2>2, <2>3
<1> QED BY <1>5, <1>6, <1>7

-----------------------------------------------------------------------------
(* A new table f, empty, behind entry i of table t.                        *)
Extended(tn, tb, t, i, f) ==
  /\ DOMAIN tn = DOMAIN tb \cup {f}
  /\ \A u \in DOMAIN tn : tn[u] \in [Index -> Entries]
  /\ \A u \in DOMAIN tn, j \in Index :
       tn[u][j] = IF u = f THEN Absent
                  ELSE IF u = t /\ j = i THEN Entry(f, FALSE) ELSE tb[u][j]

(* The new table hangs in the tree where get_next_table put it.            *)
LEMMA ExtendSound ==
  ASSUME NEW tb, NEW sp, NEW spare, NEW level, Sound(tb, sp, spare, level),
         NEW t \in DOMAIN tb, level[t] # 1, NEW i \in Index, tb[t][i] = Absent,
         t \in sp => i \notin KernelHalf,
         NEW f \in Frames, f \in spare, NEW tn, Extended(tn, tb, t, i, f)
  PROVE  LET ln == [u \in DOMAIN tn |-> IF u = f THEN level[t] - 1 ELSE level[u]]
         IN  Sound(tn, sp, spare \ {f}, ln)
<1> DEFINE ln == [u \in DOMAIN tn |-> IF u = f THEN level[t] - 1 ELSE level[u]]
<1>1. /\ f \notin DOMAIN tb
      /\ \A u \in DOMAIN tb, j \in Index : tb[u][j].frame = f =>
           u \in sp \ {Boot.pml4} /\ j \in KernelHalf
  BY DEF Sound, Placed, Refers
<1>2. level[t] \in 2 .. 4
  BY TableEntry
<1>3. DOMAIN tn = DOMAIN tb \cup {f} /\ f # t
  BY <1>1 DEF Extended
<1>4. IsTables(tn)
  BY DEF Sound, IsTables, Extended
<1>5. /\ \A j \in Index : tn[f][j] = Absent
      /\ tn[t][i] = Entry(f, FALSE) /\ tn[t][i].frame = f
      /\ \A u \in DOMAIN tb, j \in Index : u # t \/ j # i => tn[u][j] = tb[u][j]
  BY <1>1, <1>3, NewEntry DEF Extended
<1>6. ln \in [DOMAIN tn -> 1 .. 4] /\ ln[f] = level[t] - 1
      /\ \A u \in DOMAIN tb : ln[u] = level[u]
  <2>1. level \in [DOMAIN tb -> 1 .. 4]
    BY DEF Sound, Levels
  <2>2. level[t] - 1 \in 1 .. 4
    BY <1>2
  <2> QED BY <1>1, <1>3, <2>1, <2>2
<1> HIDE DEF ln
<1>7. sp \subseteq DOMAIN tn /\ Boot.pml4 \in sp /\ f \notin sp
  BY <1>1, <1>3 DEF Sound
<1>8. Shared(tn, sp)
  <2> SUFFICES ASSUME NEW s \in sp, NEW j \in KernelHalf
               PROVE  tn[s][j] = Boot.tables[Boot.pml4][j]
    BY DEF Shared
  <2>1. tn[s][j] = tb[s][j]
    BY <1>5 DEF Sound, KernelHalf
  <2> QED BY <2>1 DEF Sound, Shared
<1>9. \A u \in DOMAIN tb, j \in Index : tb[u][j].frame # f
  <2> SUFFICES ASSUME NEW u \in DOMAIN tb, NEW j \in Index, tb[u][j].frame = f
               PROVE  FALSE
    OBVIOUS
  <2>1. u \in sp /\ j \in KernelHalf
    BY <1>1
  <2>2. tb[Boot.pml4][j].frame = f
    BY <2>1 DEF Sound, Shared
  <2> QED BY <1>1, <2>2 DEF Sound
<1>10. Levels(tn, sp, ln)
  <2>1. \A u \in DOMAIN tn : ln[u] = 4 <=> u \in sp
    BY <1>2, <1>3, <1>6, <1>7, TableEntry DEF Sound, Levels
  <2>2. ASSUME NEW u \in DOMAIN tn, NEW j \in Index, tn[u][j] # Absent
        PROVE  IF ln[u] = 1 THEN tn[u][j].frame \notin DOMAIN tn
               ELSE tn[u][j].frame \in DOMAIN tn /\ ln[tn[u][j].frame] = ln[u] - 1
    <3>1. CASE u = t /\ j = i
      BY <3>1, <1>3, <1>5, <1>6
    <3>2. CASE ~(u = t /\ j = i)
      <4>1. u \in DOMAIN tb /\ tn[u][j] = tb[u][j]
        BY <2>2, <3>2, <1>3, <1>5
      <4>2. IF level[u] = 1 THEN tb[u][j].frame \notin DOMAIN tb
            ELSE tb[u][j].frame \in DOMAIN tb /\ level[tb[u][j].frame] = level[u] - 1
        BY <2>2, <4>1 DEF Sound, Levels
      <4> QED BY <4>1, <4>2, <1>3, <1>6, <1>9
    <3> QED BY <3>1, <3>2
  <2> QED BY <1>6, <2>1, <2>2 DEF Levels
<1>11. \A u \in DOMAIN tn, j \in Index, g \in Frames :
         Refers(tn, sp, u, j, g) <=>
           Refers(tb, sp, u, j, g) \/ (u = t /\ j = i /\ g = f)
  <2> SUFFICES ASSUME NEW u \in DOMAIN tn, NEW j \in Index, NEW g \in Frames
               PROVE  Refers(tn, sp, u, j, g) <=>
                        Refers(tb, sp, u, j, g) \/ (u = t /\ j = i /\ g = f)
    OBVIOUS
  <2>0. Absent.frame # g
    BY AddressSpaceAssumption DEF Absent
  <2>1. CASE u = t /\ j = i
    BY <2>0, <2>1, <1>5, <1>3 DEF Refers
  <2>2. CASE u = f
    BY <2>0, <2>2, <1>1, <1>3, <1>5 DEF Refers
  <2>3. CASE u \in DOMAIN tb /\ ~(u = t /\ j = i)
    BY <2>3, <1>3, <1>5 DEF Refers
  <2> QED BY <2>1, <2>2, <2>3, <1>3
<1>12. Unique(tn, sp)
  <2> SUFFICES ASSUME NEW g \in Frames, NEW u \in DOMAIN tn, NEW v \in DOMAIN tn,
                      NEW j \in Index, NEW k \in Index,
                      Refers(tn, sp, u, j, g), Refers(tn, sp, v, k, g)
               PROVE  u = v /\ j = k
    BY DEF Unique
  <2>1. CASE g = f
    BY <2>1, <1>9, <1>11 DEF Refers
  <2>2. CASE g # f
    <3>1. Refers(tb, sp, u, j, g) /\ Refers(tb, sp, v, k, g)
      BY <2>2, <1>11
    <3>2. u \in DOMAIN tb /\ v \in DOMAIN tb
      BY <3>1 DEF Refers
    <3> QED BY <3>1, <3>2 DEF Sound, Unique
  <2> QED BY <2>1, <2>2
<1>13. Placed(tn, sp, spare \ {f})
  <2> SUFFICES ASSUME NEW g \in Frames
               PROVE  /\ g \in spare \ {f} =>
                           /\ g \notin DOMAIN tn
                           /\ \A u \in DOMAIN tn, j \in Index : ~Refers(tn, sp, u, j, g)
                      /\ g \notin (spare \ {f}) \cup sp =>
                           \E u \in DOMAIN tn, j \in Index : Refers(tn, sp, u, j, g)
    BY DEF Placed
  <2>1. CASE g \in spare \ {f}
    <3>1. /\ g \notin DOMAIN tb
          /\ \A u \in DOMAIN tb, j \in Index : ~Refers(tb, sp, u, j, g)
      BY <2>1 DEF Sound, Placed
    <3>2. \A u, j : Refers(tb, sp, u, j, g) => u \in DOMAIN tb /\ j \in Index
      BY DEF Refers
    <3> QED BY <2>1, <3>1, <3>2, <1>3, <1>11
  <2>2. CASE g = f
    BY <2>2, <1>3, <1>11
  <2>3. CASE g \notin spare \cup sp
    BY <2>3, <1>3, <1>11 DEF Sound, Placed
  <2> QED BY <2>1, <2>2, <2>3
<1> QED BY <1>4, <1>7, <1>8, <1>10, <1>12, <1>13 DEF Sound, ln

(* The walk that makes the table loses no translation and adds none.       *)
LEMMA ExtendWalks ==
  ASSUME NEW tb, NEW sp, NEW spare, NEW level, Sound(tb, sp, spare, level),
         NEW t \in DOMAIN tb, level[t] # 1, NEW i \in Index, tb[t][i] = Absent,
         NEW f \in Frames, f \in spare, NEW tn, Extended(tn, tb, t, i, f)
  PROVE  /\ \A u \in DOMAIN tb, j \in Index :
              NextTable(tb, u, j) # 0 => NextTable(tn, u, j) = NextTable(tb, u, j)
         /\ NextTable(tn, t, i) = f
         /\ \A s \in sp, va \in VirtualPages : Leaf(tn, s, va) = Leaf(tb, s, va)
<1>1. f \notin DOMAIN tb /\ f # t /\ DOMAIN tn = DOMAIN tb \cup {f} /\ t # 0 /\ f # 0
  <2>1. f \notin DOMAIN tb
    BY DEF Sound, Placed
  <2>2. t # 0 /\ f # 0
    BY TableEntry, AddressSpaceAssumption
  <2> QED BY <2>1, <2>2 DEF Extended
<1>2. /\ \A j \in Index : tn[f][j] = Absent
      /\ tn[t][i].frame = f /\ tn[t][i] # Absent
      /\ \A u \in DOMAIN tb, j \in Index : u # t \/ j # i => tn[u][j] = tb[u][j]
  BY <1>1, NewEntry DEF Extended
<1>3. \A j \in Index : NextTable(tn, f, j) = 0 /\ NextTable(tn, 0, j) = 0
                       /\ NextTable(tb, 0, j) = 0
  BY <1>2 DEF NextTable, Present
<1>4. \A u \in DOMAIN tb, j \in Index :
        NextTable(tn, u, j) = IF u = t /\ j = i THEN f ELSE NextTable(tb, u, j)
  BY <1>1, <1>2 DEF NextTable, Present
<1>5. NextTable(tb, t, i) = 0
  BY DEF NextTable, Present
<1>6. ASSUME NEW s \in sp, NEW va \in VirtualPages
      PROVE  Leaf(tn, s, va) = Leaf(tb, s, va)
  <2>0. va[1] \in Index /\ va[2] \in Index /\ va[3] \in Index /\ va[4] \in Index
    BY PageFacts
  <2> DEFINE a == Pdp(tb, s, va)
             b == Pd(tb, s, va)
             c == PageTable(tb, s, va)
             x == Pdp(tn, s, va)
             y == Pd(tn, s, va)
             z == PageTable(tn, s, va)
  <2>1. /\ s \in DOMAIN tb
        /\ a # 0 => a \in DOMAIN tb
        /\ b # 0 => b \in DOMAIN tb
        /\ c # 0 => c \in DOMAIN tb /\ level[c] = 1
    BY WalkFacts
  <2>2. /\ a = NextTable(tb, s, va[1]) /\ b = NextTable(tb, a, va[2])
        /\ c = NextTable(tb, b, va[3])
        /\ x = NextTable(tn, s, va[1]) /\ y = NextTable(tn, x, va[2])
        /\ z = NextTable(tn, y, va[3])
    BY DEF Pdp, Pd, PageTable
  <2>3. /\ Leaf(tb, s, va) = IF c # 0 /\ tb[c][va[4]] # Absent THEN tb[c][va[4]] ELSE Absent
        /\ Leaf(tn, s, va) = IF z # 0 /\ tn[z][va[4]] # Absent THEN tn[z][va[4]] ELSE Absent
    BY DEF Leaf, Present
  <2> HIDE DEF a, b, c, x, y, z
  <2>4. x = a \/ (a = 0 /\ x = f)
    BY <2>0, <2>1, <2>2, <1>4, <1>5
  <2>5. y = b \/ (b = 0 /\ y = f)
    BY <2>0, <2>1, <2>2, <2>4, <1>3, <1>4, <1>5
  <2>6. z = c \/ (c = 0 /\ z = f)
    BY <2>0, <2>1, <2>2, <2>5, <1>3, <1>4, <1>5
  <2>7. CASE z = c
    <3>1. c # 0 => tn[c][va[4]] = tb[c][va[4]]
      BY <2>0, <2>1, <1>2
    <3> QED BY <2>3, <2>7, <3>1
  <2>8. CASE c = 0 /\ z = f
    BY <2>0, <2>3, <2>8, <1>2
  <2> QED BY <2>6, <2>7, <2>8
<1> QED BY <1>4, <1>5, <1>6

-----------------------------------------------------------------------------
(* Walks that make the tables they miss.                                   *)
IsWalk(w) == w = [tb |-> w.tb, free |-> w.free, at |-> w.at]

(* The walk r went on from the walk w; the frames in use, and so the       *)
(* frames to spare, follow from the free frames that were taken.           *)
WentOn(r, w, sp) ==
  /\ IsWalk(r) /\ r.free \subseteq w.free
  /\ DOMAIN w.tb \subseteq DOMAIN r.tb
  /\ \A u \in DOMAIN w.tb, j \in Index :
       NextTable(w.tb, u, j) # 0 => NextTable(r.tb, u, j) = NextTable(w.tb, u, j)
  /\ \A s \in sp, va \in VirtualPages : Leaf(r.tb, s, va) = Leaf(w.tb, s, va)

(* A walk that is at a table of level n, or stopped for want of a frame.   *)
WalkSound(w, sp, spare, level, n) ==
  /\ Sound(w.tb, sp, spare, level)
  /\ w.free \subseteq spare \cap Frames
  /\ w.at # 0 => w.at \in DOMAIN w.tb /\ level[w.at] = n

(* One step of get_next_table with create, in its four cases.              *)
LEMMA DescendStep ==
  ASSUME NEW w, IsWalk(w), NEW sp, NEW spare, NEW level, NEW n \in {2, 3, 4},
         WalkSound(w, sp, spare, level, n), NEW i \in Index,
         n = 4 /\ i \in KernelHalf => Boot.tables[Boot.pml4][i] # Absent
  PROVE  /\ WentOn(Descend(w, i), w, sp)
         /\ Descend(w, i).at # 0 =>
              w.at # 0 /\ Descend(w, i).at = NextTable(Descend(w, i).tb, w.at, i)
         /\ \E ln : WalkSound(Descend(w, i), sp, spare \ (w.free \ Descend(w, i).free),
                             ln, n - 1)
<1> DEFINE r == Descend(w, i)
<1>0. Sound(w.tb, sp, spare, level) /\ w.free \subseteq spare /\ w.free \subseteq Frames
  BY DEF WalkSound
<1>1. CASE w.at = 0
  <2>1. r = w
    BY <1>1 DEF Descend
  <2>2. spare \ (w.free \ w.free) = spare
    OBVIOUS
  <2>3. WalkSound(w, sp, spare, level, n - 1)
    BY <1>1 DEF WalkSound
  <2> HIDE DEF r
  <2> QED BY <1>1, <2>1, <2>2, <2>3 DEF r, WentOn
<1>2. CASE w.at # 0 /\ Present(w.tb, w.at, i)
  <2>1. r = [w EXCEPT !.at = NextTable(w.tb, w.at, i)]
    BY <1>2 DEF Descend
  <2>2. /\ r.tb = w.tb /\ r.free = w.free /\ r.at = NextTable(w.tb, w.at, i)
        /\ IsWalk(r)
    BY <2>1 DEF IsWalk
  <2>3. r.at # 0 => r.at \in DOMAIN w.tb /\ level[r.at] = n - 1
    BY <1>0, <2>2, NextTableFacts DEF WalkSound
  <2>4. WalkSound(r, sp, spare, level, n - 1)
    BY <1>0, <2>2, <2>3 DEF WalkSound
  <2>5. spare \ (w.free \ r.free) = spare
    BY <2>2
  <2>6. WentOn(r, w, sp)
    BY <2>2 DEF WentOn
  <2> HIDE DEF r
  <2> QED BY <1>2, <2>2, <2>4, <2>5, <2>6 DEF r
<1>3. CASE w.at # 0 /\ ~Present(w.tb, w.at, i) /\ w.free = {}
  <2>1. r = [w EXCEPT !.at = 0]
    BY <1>3 DEF Descend
  <2>2. r.tb = w.tb /\ r.free = w.free /\ r.at = 0 /\ IsWalk(r)
    BY <2>1 DEF IsWalk
  <2>3. WalkSound(r, sp, spare, level, n - 1)
    BY <1>0, <2>2 DEF WalkSound
  <2>4. spare \ (w.free \ r.free) = spare
    BY <2>2
  <2>5. WentOn(r, w, sp)
    BY <2>2 DEF WentOn
  <2> HIDE DEF r
  <2> QED BY <2>2, <2>3, <2>4, <2>5 DEF r
<1>4. CASE w.at # 0 /\ ~Present(w.tb, w.at, i) /\ w.free # {}
  <2> DEFINE f == Lowest(w.free)
             tn == [t \in DOMAIN w.tb \cup {f} |->
                      IF t = f THEN Empty
                      ELSE IF t = w.at THEN [w.tb[t] EXCEPT ![i] = Entry(f, FALSE)]
                      ELSE w.tb[t]]
             ln == [u \in DOMAIN tn |-> IF u = f THEN level[w.at] - 1 ELSE level[u]]
  <2>1. f \in w.free /\ f \in Frames /\ f \in spare
    BY <1>0, <1>4, LowestIn
  <2>2. r = [tb |-> tn, free |-> w.free \ {f}, at |-> f]
    BY <1>4 DEF Descend
  <2>3. /\ w.at \in DOMAIN w.tb /\ level[w.at] = n /\ level[w.at] # 1
        /\ w.tb[w.at][i] = Absent
    BY <1>4 DEF WalkSound, Present
  <2>4. Extended(tn, w.tb, w.at, i, f)
    <3>1. DOMAIN tn = DOMAIN w.tb \cup {f}
      OBVIOUS
    <3>2. Empty \in [Index -> Entries] /\ \A j \in Index : Empty[j] = Absent
      BY <2>1, NewEntry DEF Empty
    <3>3. \A t \in DOMAIN w.tb : w.tb[t] \in [Index -> Entries]
      BY <1>0 DEF Sound, IsTables
    <3>4. Entry(f, FALSE) \in Entries
      BY <2>1, NewEntry
    <3>5. ASSUME NEW u \in DOMAIN tn
          PROVE  /\ tn[u] \in [Index -> Entries]
                 /\ \A j \in Index :
                      tn[u][j] = IF u = f THEN Absent
                                 ELSE IF u = w.at /\ j = i THEN Entry(f, FALSE)
                                 ELSE w.tb[u][j]
      <4>1. CASE u = f
        BY <4>1, <3>2
      <4>2. CASE u # f /\ u = w.at
        <5>1. tn[u] = [w.tb[u] EXCEPT ![i] = Entry(f, FALSE)] /\ w.tb[u] \in [Index -> Entries]
          BY <2>3, <4>2, <3>3
        <5> QED BY <4>2, <5>1, <3>4
      <4>3. CASE u # f /\ u # w.at
        <5>1. tn[u] = w.tb[u] /\ w.tb[u] \in [Index -> Entries]
          BY <4>3, <3>3
        <5> QED BY <4>3, <5>1
      <4> QED BY <4>1, <4>2, <4>3
    <3> HIDE DEF tn
    <3> QED BY <3>1, <3>5 DEF Extended
  <2>5. w.at \in sp => i \notin KernelHalf
    <3> SUFFICES ASSUME w.at \in sp, i \in KernelHalf PROVE FALSE
      OBVIOUS
    <3>1. w.tb[w.at][i] = Boot.tables[Boot.pml4][i]
      BY <1>0 DEF Sound, Shared
    <3>2. n = 4
      BY <1>0, <2>3, TableEntry
    <3> QED BY <2>3, <3>1, <3>2
  <2>6. r.tb = tn /\ r.free = w.free \ {f} /\ r.at = f /\ IsWalk(r)
    BY <2>2 DEF IsWalk
  <2>7. DOMAIN tn = DOMAIN w.tb \cup {f} /\ ln[f] = n - 1
    BY <2>3
  <2> HIDE DEF f, tn
  <2>8. Sound(tn, sp, spare \ {f}, ln)
    BY <1>0, <2>1, <2>3, <2>4, <2>5, ExtendSound
  <2>9. /\ \A u \in DOMAIN w.tb, j \in Index :
             NextTable(w.tb, u, j) # 0 => NextTable(tn, u, j) = NextTable(w.tb, u, j)
        /\ NextTable(tn, w.at, i) = f
        /\ \A s \in sp, va \in VirtualPages : Leaf(tn, s, va) = Leaf(w.tb, s, va)
    BY <1>0, <2>1, <2>3, <2>4, ExtendWalks
  <2> HIDE DEF r, ln
  <2>10. WentOn(r, w, sp)
    BY <2>6, <2>7, <2>9 DEF WentOn
  <2>11. spare \ (w.free \ r.free) = spare \ {f}
    BY <1>0, <2>1, <2>6
  <2>12. WalkSound(r, sp, spare \ {f}, ln, n - 1)
    BY <1>0, <2>6, <2>7, <2>8 DEF WalkSound
  <2>13. r.at = NextTable(r.tb, w.at, i)
    BY <2>6, <2>9
  <2> QED BY <1>4, <2>10, <2>11, <2>12, <2>13 DEF r
<1> QED BY <1>1, <1>2, <1>3, <1>4

(* What three steps down have made: w is at the page's table, or stopped.  *)
PathMade(w, pml4, va, frames, spare) ==
  /\ w.free \subseteq frames
  /\ \E ln : WalkSound(w, spaces, spare \ (frames \ w.free), ln, 1)
  /\ w.at # 0 => w.at = PageTable(w.tb, pml4, va)
  /\ \A s \in spaces, vb \in VirtualPages : Leaf(w.tb, s, vb) = Leaf(tables, s, vb)

(* vmm_map_page's three steps: the tables they make leave every page as it *)
(* was, and the table they come to is the page's.                          *)
LEMMA PathFacts ==
  ASSUME NEW spare, NEW level, Sound(tables, spaces, spare, level),
         NEW pml4 \in spaces, NEW va \in VirtualPages,
         NEW frames \in SUBSET Frames, frames \subseteq spare
  PROVE  PathMade(Path(pml4, frames, va), pml4, va, frames, spare)
<1> DEFINE w0 == [tb |-> tables, free |-> frames, at |-> pml4]
           w1 == Descend(w0, va[1])
           w2 == Descend(w1, va[2])
           w3 == Descend(w2, va[3])
           s1 == spare \ (frames \ w1.free)
           s2 == s1 \ (w1.free \ w2.free)
           s3 == s2 \ (w2.free \ w3.free)
<1>1. /\ va[1] \in Index /\ va[2] \in Index /\ va[3] \in Index
      /\ va[1] \in KernelHalf => Boot.tables[Boot.pml4][va[1]] # Absent
  BY PageFacts
<1>2. Path(pml4, frames, va) = w3
  BY DEF Path
<1>3. IsWalk(w0) /\ w0.tb = tables /\ w0.free = frames /\ w0.at = pml4
  BY DEF IsWalk
<1>4. pml4 \in DOMAIN tables /\ pml4 # 0 /\ level[pml4] = 4
  BY WalkFacts
<1> HIDE DEF w0, w1, w2, w3, s1, s2, s3
<1>5. WalkSound(w0, spaces, spare, level, 4)
  BY <1>3, <1>4 DEF WalkSound
<1>6. /\ WentOn(w1, w0, spaces)
      /\ w1.at # 0 => w0.at # 0 /\ w1.at = NextTable(w1.tb, w0.at, va[1])
      /\ \E ln : WalkSound(w1, spaces, s1, ln, 3)
  <2>1. /\ WentOn(w1, w0, spaces)
        /\ w1.at # 0 => w0.at # 0 /\ w1.at = NextTable(w1.tb, w0.at, va[1])
        /\ \E ln : WalkSound(w1, spaces, s1, ln, 4 - 1)
    BY <1>1, <1>3, <1>5, DescendStep DEF w1, s1
  <2> QED BY <2>1
<1>7. PICK l1 : WalkSound(w1, spaces, s1, l1, 3)
  BY <1>6
<1>8. /\ WentOn(w2, w1, spaces)
      /\ w2.at # 0 => w1.at # 0 /\ w2.at = NextTable(w2.tb, w1.at, va[2])
      /\ \E ln : WalkSound(w2, spaces, s2, ln, 2)
  <2>1. /\ WentOn(w2, w1, spaces)
        /\ w2.at # 0 => w1.at # 0 /\ w2.at = NextTable(w2.tb, w1.at, va[2])
        /\ \E ln : WalkSound(w2, spaces, s2, ln, 3 - 1)
    <3>1. IsWalk(w1) /\ 3 # 4 /\ 2 # 4
      BY <1>6 DEF WentOn
    <3> QED BY <1>1, <1>7, <3>1, DescendStep DEF w2, s2
  <2> QED BY <2>1
<1>9. PICK l2 : WalkSound(w2, spaces, s2, l2, 2)
  BY <1>8
<1>10. /\ WentOn(w3, w2, spaces)
       /\ w3.at # 0 => w2.at # 0 /\ w3.at = NextTable(w3.tb, w2.at, va[3])
       /\ \E ln : WalkSound(w3, spaces, s3, ln, 1)
  <2>1. /\ WentOn(w3, w2, spaces)
        /\ w3.at # 0 => w2.at # 0 /\ w3.at = NextTable(w3.tb, w2.at, va[3])
        /\ \E ln : WalkSound(w3, spaces, s3, ln, 2 - 1)
    <3>1. IsWalk(w2) /\ 3 # 4 /\ 2 # 4
      BY <1>8 DEF WentOn
    <3> QED BY <1>1, <1>9, <3>1, DescendStep DEF w3, s3
  <2> QED BY <2>1
<1>11. /\ w1.free \subseteq frames /\ w2.free \subseteq w1.free /\ w3.free \subseteq w2.free
       /\ DOMAIN tables \subseteq DOMAIN w1.tb /\ DOMAIN w1.tb \subseteq DOMAIN w2.tb
  BY <1>3, <1>6, <1>8, <1>10 DEF WentOn
<1>12. s3 = spare \ (frames \ w3.free)
  BY <1>11 DEF s1, s2, s3
<1>13. ASSUME w3.at # 0
       PROVE  w3.at = PageTable(w3.tb, pml4, va)
  <2>1. /\ w2.at # 0 /\ w1.at # 0
        /\ w3.at = NextTable(w3.tb, w2.at, va[3])
        /\ w2.at = NextTable(w2.tb, w1.at, va[2])
        /\ w1.at = NextTable(w1.tb, pml4, va[1])
    BY <1>3, <1>6, <1>8, <1>10, <1>13
  <2>2. w1.at \in DOMAIN w1.tb
    BY <1>7, <2>1 DEF WalkSound
  <2>3. /\ NextTable(w2.tb, pml4, va[1]) = w1.at
        /\ NextTable(w3.tb, pml4, va[1]) = w1.at
    BY <1>1, <1>4, <1>8, <1>10, <1>11, <2>1 DEF WentOn
  <2>4. NextTable(w3.tb, w1.at, va[2]) = w2.at
    BY <1>1, <1>10, <1>11, <2>1, <2>2 DEF WentOn
  <2> QED BY <2>1, <2>3, <2>4 DEF PageTable
<1>14. \A s \in spaces, vb \in VirtualPages : Leaf(w3.tb, s, vb) = Leaf(tables, s, vb)
  BY <1>3, <1>6, <1>8, <1>10 DEF WentOn
<1>15. w3.free \subseteq frames
  BY <1>11
<1> QED BY <1>2, <1>10, <1>12, <1>13, <1>14, <1>15 DEF PathMade

-----------------------------------------------------------------------------
(* Entry i of the page table p becomes e.                                  *)

(* Such a change leaves the other entries alone.                           *)
LEMMA EntryChange ==
  ASSUME NEW tb, NEW sp, NEW spare, NEW level, Sound(tb, sp, spare, level),
         NEW p \in DOMAIN tb, NEW i \in Index, NEW e \in Entries
  PROVE  LET tn == [tb EXCEPT ![p][i] = e]
         IN  /\ DOMAIN tn = DOMAIN tb /\ IsTables(tn)
             /\ tn[p][i] = e
             /\ \A u \in DOMAIN tb, j \in Index : u # p \/ j # i => tn[u][j] = tb[u][j]
<1> DEFINE tn == [tb EXCEPT ![p][i] = e]
<1>1. \A u \in DOMAIN tb : tb[u] \in [Index -> Entries]
  BY DEF Sound, IsTables
<1>2. DOMAIN tn = DOMAIN tb
  OBVIOUS
<1>3. tn[p] = [tb[p] EXCEPT ![i] = e] /\ \A u \in DOMAIN tb \ {p} : tn[u] = tb[u]
  OBVIOUS
<1>4. tn[p] \in [Index -> Entries] /\ tn[p][i] = e
      /\ \A j \in Index \ {i} : tn[p][j] = tb[p][j]
  BY <1>1, <1>3
<1> HIDE DEF tn
<1>5. IsTables(tn)
  BY <1>1, <1>2, <1>3, <1>4 DEF Sound, IsTables
<1>6. ASSUME NEW u \in DOMAIN tb, NEW j \in Index, u # p \/ j # i
      PROVE  tn[u][j] = tb[u][j]
  BY <1>3, <1>4, <1>6
<1> QED BY <1>2, <1>4, <1>5, <1>6 DEF tn

(* Walks end where they did, and one page reads the new entry.             *)
LEMMA EntryChangeWalks ==
  ASSUME NEW tb, NEW sp, NEW spare, NEW level, Sound(tb, sp, spare, level),
         NEW p \in DOMAIN tb, level[p] = 1, NEW i \in Index, NEW e \in Entries,
         NEW s \in sp, NEW va \in VirtualPages
  PROVE  LET tn == [tb EXCEPT ![p][i] = e]
         IN  /\ PageTable(tn, s, va) = PageTable(tb, s, va)
             /\ Leaf(tn, s, va) = IF PageTable(tb, s, va) = p /\ va[4] = i
                                    THEN e ELSE Leaf(tb, s, va)
<1> DEFINE tn == [tb EXCEPT ![p][i] = e]
           a == Pdp(tb, s, va)
           b == Pd(tb, s, va)
           c == PageTable(tb, s, va)
<1>0. va[1] \in Index /\ va[2] \in Index /\ va[3] \in Index /\ va[4] \in Index
  BY PageFacts
<1>1. /\ DOMAIN tn = DOMAIN tb /\ IsTables(tn) /\ tn[p][i] = e
      /\ \A u \in DOMAIN tb, j \in Index : u # p \/ j # i => tn[u][j] = tb[u][j]
  BY EntryChange
<1>2. /\ s \in DOMAIN tb /\ level[s] = 4
      /\ a # 0 => a \in DOMAIN tb /\ level[a] = 3
      /\ b # 0 => b \in DOMAIN tb /\ level[b] = 2
      /\ c # 0 => c \in DOMAIN tb
  BY WalkFacts
<1>3. /\ a = NextTable(tb, s, va[1]) /\ b = NextTable(tb, a, va[2])
      /\ c = NextTable(tb, b, va[3])
      /\ PageTable(tn, s, va) =
           NextTable(tn, NextTable(tn, NextTable(tn, s, va[1]), va[2]), va[3])
  BY DEF Pdp, Pd, PageTable
<1>4. Leaf(tb, s, va) = IF c # 0 /\ tb[c][va[4]] # Absent THEN tb[c][va[4]] ELSE Absent
  BY DEF Leaf, Present
<1>5. Leaf(tn, s, va) =
        IF PageTable(tn, s, va) # 0 /\ tn[PageTable(tn, s, va)][va[4]] # Absent
        THEN tn[PageTable(tn, s, va)][va[4]] ELSE Absent
  BY DEF Leaf, Present
<1> HIDE DEF tn, a, b, c
<1>6. \A u : \A j \in Index : (u # 0 => u \in DOMAIN tb /\ u # p) =>
        NextTable(tn, u, j) = NextTable(tb, u, j)
  BY <1>1 DEF NextTable, Present
<1>7. PageTable(tn, s, va) = c
  BY <1>0, <1>2, <1>3, <1>6
<1>8. p # 0
  BY TableEntry
<1>9. Leaf(tn, s, va) = IF c = p /\ va[4] = i THEN e ELSE Leaf(tb, s, va)
  <2>1. CASE c = p /\ va[4] = i
    BY <2>1, <1>1, <1>5, <1>7, <1>8
  <2>2. CASE ~(c = p /\ va[4] = i)
    <3>1. c # 0 => tn[c][va[4]] = tb[c][va[4]]
      BY <2>2, <1>0, <1>1, <1>2
    <3> QED BY <2>2, <3>1, <1>4, <1>5, <1>7
  <2> QED BY <2>1, <2>2
<1> QED BY <1>7, <1>9 DEF tn, c

(* A frame that was to spare is mapped, where nothing was.                 *)
LEMMA MapSound ==
  ASSUME NEW tb, NEW sp, NEW spare, NEW level, Sound(tb, sp, spare, level),
         NEW p \in DOMAIN tb, level[p] = 1, NEW i \in Index, tb[p][i] = Absent,
         NEW f \in Frames, f \in spare, NEW nx \in BOOLEAN
  PROVE  Sound([tb EXCEPT ![p][i] = Entry(f, nx)], sp, spare \ {f}, level)
<1> DEFINE e == Entry(f, nx)
           tn == [tb EXCEPT ![p][i] = e]
<1>1. /\ e \in Entries /\ e.frame = f /\ e # Absent /\ 0 \notin Frames
      /\ Absent.frame = 0
  BY NewEntry, AddressSpaceAssumption
<1>2. /\ DOMAIN tn = DOMAIN tb /\ IsTables(tn) /\ tn[p][i] = e
      /\ \A u \in DOMAIN tb, j \in Index : u # p \/ j # i => tn[u][j] = tb[u][j]
  BY <1>1, EntryChange
<1> HIDE DEF tn, e
<1>3. p \notin sp
  BY TableEntry
<1>4. /\ f \notin DOMAIN tb
      /\ \A u \in DOMAIN tb, j \in Index : ~Refers(tb, sp, u, j, f)
  BY DEF Sound, Placed
<1>5. Shared(tn, sp)
  BY <1>2, <1>3 DEF Sound, Shared, KernelHalf
<1>6. Levels(tn, sp, level)
  <2>1. ASSUME NEW u \in DOMAIN tn, NEW j \in Index, tn[u][j] # Absent
        PROVE  IF level[u] = 1 THEN tn[u][j].frame \notin DOMAIN tn
               ELSE tn[u][j].frame \in DOMAIN tn /\ level[tn[u][j].frame] = level[u] - 1
    <3>1. CASE u = p /\ j = i
      BY <3>1, <1>1, <1>2, <1>4
    <3>2. CASE ~(u = p /\ j = i)
      BY <2>1, <3>2, <1>2 DEF Sound, Levels
    <3> QED BY <3>1, <3>2
  <2> QED BY <1>2, <2>1 DEF Sound, Levels
<1>7. \A u \in DOMAIN tb, j \in Index, g \in Frames :
        Refers(tn, sp, u, j, g) <=>
          Refers(tb, sp, u, j, g) \/ (u = p /\ j = i /\ g = f)
  <2> SUFFICES ASSUME NEW u \in DOMAIN tb, NEW j \in Index, NEW g \in Frames
               PROVE  Refers(tn, sp, u, j, g) <=>
                        Refers(tb, sp, u, j, g) \/ (u = p /\ j = i /\ g = f)
    OBVIOUS
  <2>1. CASE u = p /\ j = i
    BY <2>1, <1>1, <1>2, <1>3 DEF Refers
  <2>2. CASE ~(u = p /\ j = i)
    BY <2>2, <1>2 DEF Refers
  <2> QED BY <2>1, <2>2
<1>8. Unique(tn, sp)
  <2> SUFFICES ASSUME NEW g \in Frames, NEW u \in DOMAIN tb, NEW v \in DOMAIN tb,
                      NEW j \in Index, NEW k \in Index,
                      Refers(tn, sp, u, j, g), Refers(tn, sp, v, k, g)
               PROVE  u = v /\ j = k
    BY <1>2 DEF Unique
  <2>1. CASE g = f
    BY <2>1, <1>4, <1>7
  <2>2. CASE g # f
    BY <2>2, <1>7 DEF Sound, Unique
  <2> QED BY <2>1, <2>2
<1>9. Placed(tn, sp, spare \ {f})
  <2> SUFFICES ASSUME NEW g \in Frames
               PROVE  /\ g \in spare \ {f} =>
                           /\ g \notin DOMAIN tb
                           /\ \A u \in DOMAIN tb, j \in Index : ~Refers(tn, sp, u, j, g)
                      /\ g \notin (spare \ {f}) \cup sp =>
                           \E u \in DOMAIN tb, j \in Index : Refers(tn, sp, u, j, g)
    BY <1>2 DEF Placed
  <2>1. CASE g \in spare \ {f}
    BY <2>1, <1>7 DEF Sound, Placed
  <2>2. CASE g = f
    BY <2>2, <1>7
  <2>3. CASE g \notin spare \cup sp
    BY <2>3, <1>7 DEF Sound, Placed
  <2> QED BY <2>1, <2>2, <2>3
<1>10. sp \subseteq DOMAIN tn /\ Boot.pml4 \in sp
  BY <1>2 DEF Sound
<1> QED BY <1>2, <1>5, <1>6, <1>8, <1>9, <1>10 DEF Sound, tn, e

(* A page is unmapped, and its frame is to spare.                          *)
LEMMA UnmapSound ==
  ASSUME NEW tb, NEW sp, NEW spare, NEW level, Sound(tb, sp, spare, level),
         NEW p \in DOMAIN tb, level[p] = 1, NEW i \in Index, tb[p][i] # Absent
  PROVE  /\ Sound([tb EXCEPT ![p][i] = Absent], sp, spare \cup {tb[p][i].frame}, level)
         /\ tb[p][i].frame \in Frames \ spare
<1> DEFINE f == tb[p][i].frame
           tn == [tb EXCEPT ![p][i] = Absent]
<1>1. Absent \in Entries /\ Absent.frame = 0 /\ 0 \notin Frames /\ f \in Frames
  BY TableEntry, AddressSpaceAssumption DEF Entries, Absent
<1>2. /\ DOMAIN tn = DOMAIN tb /\ IsTables(tn) /\ tn[p][i] = Absent
      /\ \A u \in DOMAIN tb, j \in Index : u # p \/ j # i => tn[u][j] = tb[u][j]
  BY <1>1, EntryChange
<1>3. p \notin sp
  BY TableEntry
<1>4. f \notin DOMAIN tb
  BY DEF Sound, Levels
<1>5. Refers(tb, sp, p, i, f)
  BY <1>3 DEF Refers
<1> HIDE DEF tn, f
<1>6. f \notin spare
  BY <1>1, <1>5 DEF Sound, Placed
<1>7. Shared(tn, sp)
  BY <1>2, <1>3 DEF Sound, Shared, KernelHalf
<1>8. Levels(tn, sp, level)
  <2>1. ASSUME NEW u \in DOMAIN tn, NEW j \in Index, tn[u][j] # Absent
        PROVE  IF level[u] = 1 THEN tn[u][j].frame \notin DOMAIN tn
               ELSE tn[u][j].frame \in DOMAIN tn /\ level[tn[u][j].frame] = level[u] - 1
    <3>1. ~(u = p /\ j = i)
      BY <2>1, <1>2
    <3> QED BY <2>1, <3>1, <1>2 DEF Sound, Levels
  <2> QED BY <1>2, <2>1 DEF Sound, Levels
<1>9. \A u \in DOMAIN tb, j \in Index, g \in Frames :
        Refers(tn, sp, u, j, g) <=> Refers(tb, sp, u, j, g) /\ ~(u = p /\ j = i)
  <2> SUFFICES ASSUME NEW u \in DOMAIN tb, NEW j \in Index, NEW g \in Frames
               PROVE  Refers(tn, sp, u, j, g) <=>
                        Refers(tb, sp, u, j, g) /\ ~(u = p /\ j = i)
    OBVIOUS
  <2>1. CASE u = p /\ j = i
    BY <2>1, <1>1, <1>2 DEF Refers
  <2>2. CASE ~(u = p /\ j = i)
    BY <2>2, <1>2 DEF Refers
  <2> QED BY <2>1, <2>2
<1>10. Unique(tn, sp)
  BY <1>2, <1>9 DEF Sound, Unique
<1>11. Placed(tn, sp, spare \cup {f})
  <2> SUFFICES ASSUME NEW g \in Frames
               PROVE  /\ g \in spare \cup {f} =>
                           /\ g \notin DOMAIN tb
                           /\ \A u \in DOMAIN tb, j \in Index : ~Refers(tn, sp, u, j, g)
                      /\ g \notin (spare \cup {f}) \cup sp =>
                           \E u \in DOMAIN tb, j \in Index : Refers(tn, sp, u, j, g)
    BY <1>2 DEF Placed
  <2>1. CASE g = f
    <3>1. \A u \in DOMAIN tb, j \in Index : Refers(tb, sp, u, j, f) => u = p /\ j = i
      BY <1>1, <1>5 DEF Sound, Unique
    <3> QED BY <2>1, <3>1, <1>1, <1>4, <1>9
  <2>2. CASE g # f
    <3>1. /\ g \in spare => /\ g \notin DOMAIN tb
                            /\ \A u \in DOMAIN tb, j \in Index : ~Refers(tb, sp, u, j, g)
          /\ g \notin spare \cup sp => \E u \in DOMAIN tb, j \in Index : Refers(tb, sp, u, j, g)
      BY DEF Sound, Placed
    <3>2. ~Refers(tb, sp, p, i, g)
      BY <2>2 DEF Refers, f
    <3> QED BY <2>2, <3>1, <3>2, <1>9
  <2> QED BY <2>1, <2>2
<1>12. sp \subseteq DOMAIN tn /\ Boot.pml4 \in sp
  BY <1>2 DEF Sound
<1> QED BY <1>1, <1>2, <1>6, <1>7, <1>8, <1>10, <1>11, <1>12 DEF Sound, tn, f

-----------------------------------------------------------------------------
(* A new space, and the end of one.                                        *)

(* Walks that meet only tables that did not change.                        *)
LEMMA SameWalks ==
  ASSUME NEW tb, NEW tn, NEW s, NEW va \in VirtualPages,
         \A u \in {s, Pdp(tb, s, va), Pd(tb, s, va), PageTable(tb, s, va)} \ {0},
            j \in Index : tn[u][j] = tb[u][j]
  PROVE  /\ PageTable(tn, s, va) = PageTable(tb, s, va)
         /\ Leaf(tn, s, va) = Leaf(tb, s, va)
<1>0. va[1] \in Index /\ va[2] \in Index /\ va[3] \in Index /\ va[4] \in Index
  BY PageFacts
<1> DEFINE a == Pdp(tb, s, va)
           b == Pd(tb, s, va)
           c == PageTable(tb, s, va)
<1>1. /\ a = NextTable(tb, s, va[1]) /\ b = NextTable(tb, a, va[2])
      /\ c = NextTable(tb, b, va[3])
      /\ PageTable(tn, s, va) =
           NextTable(tn, NextTable(tn, NextTable(tn, s, va[1]), va[2]), va[3])
      /\ Leaf(tb, s, va) = IF Present(tb, c, va[4]) THEN tb[c][va[4]] ELSE Absent
      /\ Leaf(tn, s, va) = IF Present(tn, PageTable(tn, s, va), va[4])
                           THEN tn[PageTable(tn, s, va)][va[4]] ELSE Absent
  BY DEF Pdp, Pd, PageTable, Leaf
<1> HIDE DEF a, b, c
<1>2. \A u \in {s, a, b, c} : \A j \in Index :
        /\ Present(tn, u, j) <=> Present(tb, u, j)
        /\ NextTable(tn, u, j) = NextTable(tb, u, j)
        /\ Present(tb, u, j) => tn[u][j] = tb[u][j]
  BY DEF Present, NextTable, a, b, c
<1>3. PageTable(tn, s, va) = c
  BY <1>0, <1>1, <1>2
<1>4. Leaf(tn, s, va) = Leaf(tb, s, va)
  BY <1>0, <1>1, <1>2, <1>3
<1> QED BY <1>3, <1>4 DEF c

(* vmm_create_space: the new pml4 has the kernel half and nothing below    *)
(* it.                                                                     *)
LEMMA CreateSound ==
  ASSUME NEW tb, NEW sp, NEW spare, NEW level, Sound(tb, sp, spare, level),
         NEW f \in Frames, f \in spare, NEW tn,
         DOMAIN tn = DOMAIN tb \cup {f},
         \A u \in DOMAIN tb : tn[u] = tb[u],
         tn[f] = [j \in Index |-> IF j \in KernelHalf THEN tb[Boot.pml4][j] ELSE Absent]
  PROVE  /\ \E ln : Sound(tn, sp \cup {f}, spare \ {f}, ln)
         /\ \A s \in sp, va \in VirtualPages : Leaf(tn, s, va) = Leaf(tb, s, va)
         /\ \A va \in VirtualPages :
              Leaf(tn, f, va) = IF va[1] \in KernelHalf THEN Leaf(tb, Boot.pml4, va) ELSE Absent
<1> DEFINE ln == [u \in DOMAIN tn |-> IF u = f THEN 4 ELSE level[u]]
           k == Boot.pml4
<1>1. /\ f \notin DOMAIN tb /\ k \in sp /\ k # f /\ sp \subseteq DOMAIN tb
      /\ \A u \in DOMAIN tb, j \in Index : ~Refers(tb, sp, u, j, f)
  BY DEF Sound, Placed
<1>2. Absent \in Entries /\ Absent.frame = 0 /\ 0 \notin Frames
  BY AddressSpaceAssumption DEF Entries, Absent
<1>3. \A j \in Index : tn[f][j] = IF j \in KernelHalf THEN tb[k][j] ELSE Absent
  OBVIOUS
<1>4. IsTables(tn)
  <2>1. \A u \in DOMAIN tb : tb[u] \in [Index -> Entries]
    BY DEF Sound, IsTables
  <2>2. tn[f] \in [Index -> Entries]
    BY <1>1, <1>2, <2>1
  <2> QED BY <2>1, <2>2 DEF Sound, IsTables
<1>5. /\ ln \in [DOMAIN tn -> 1 .. 4] /\ ln[f] = 4
      /\ \A u \in DOMAIN tb : ln[u] = level[u] /\ level[u] \in 1 .. 4
                              /\ (level[u] = 4 <=> u \in sp)
  <2>1. level \in [DOMAIN tb -> 1 .. 4] /\ \A u \in DOMAIN tb : level[u] = 4 <=> u \in sp
    BY DEF Sound, Levels
  <2> QED BY <1>1, <2>1
<1> HIDE DEF ln
<1>6. Shared(tn, sp \cup {f})
  <2> SUFFICES ASSUME NEW s \in sp \cup {f}, NEW j \in KernelHalf
               PROVE  tn[s][j] = Boot.tables[Boot.pml4][j]
    BY DEF Shared
  <2>1. j \in Index
    BY DEF KernelHalf
  <2>2. \A r \in sp : tb[r][j] = Boot.tables[Boot.pml4][j]
    BY DEF Sound, Shared
  <2> QED BY <2>1, <2>2, <1>1, <1>3
<1>7. Levels(tn, sp \cup {f}, ln)
  <2>1. \A u \in DOMAIN tn : ln[u] = 4 <=> u \in sp \cup {f}
    BY <1>1, <1>5
  <2>2. \A u \in DOMAIN tb, j \in Index : tb[u][j].frame # f \/ (u \in sp /\ j \in KernelHalf)
    BY <1>1 DEF Refers
  <2>3. \A u \in DOMAIN tb, j \in Index : tb[u][j].frame # f
    BY <1>1, <2>2 DEF Sound, Shared, Refers
  <2>4. ASSUME NEW u \in DOMAIN tn, NEW j \in Index, tn[u][j] # Absent
        PROVE  IF ln[u] = 1 THEN tn[u][j].frame \notin DOMAIN tn
               ELSE tn[u][j].frame \in DOMAIN tn /\ ln[tn[u][j].frame] = ln[u] - 1
    <3>1. CASE u = f
      <4>1. tn[f][j] = tb[k][j] /\ tb[k][j] # Absent
        BY <2>4, <3>1, <1>3
      <4>2. level[k] = 4
        BY <1>1, <1>5
      <4>3. tb[k][j].frame \in DOMAIN tb /\ level[tb[k][j].frame] = 3
        <5>1. IF level[k] = 1 THEN tb[k][j].frame \notin DOMAIN tb
              ELSE tb[k][j].frame \in DOMAIN tb /\ level[tb[k][j].frame] = level[k] - 1
          BY <1>1, <4>1 DEF Sound, Levels
        <5> QED BY <4>2, <5>1
      <4> QED BY <3>1, <4>1, <4>3, <1>5
    <3>2. CASE u \in DOMAIN tb
      <4>1. tn[u][j] = tb[u][j]
        BY <3>2
      <4>2. IF level[u] = 1 THEN tb[u][j].frame \notin DOMAIN tb
            ELSE tb[u][j].frame \in DOMAIN tb /\ level[tb[u][j].frame] = level[u] - 1
        BY <2>4, <3>2, <4>1 DEF Sound, Levels
      <4> QED BY <3>2, <4>1, <4>2, <2>3, <1>5
    <3> QED BY <3>1, <3>2
  <2> QED BY <1>5, <2>1, <2>4 DEF Levels
<1>8. \A u \in DOMAIN tn, j \in Index, g \in Frames :
        Refers(tn, sp \cup {f}, u, j, g) <=> Refers(tb, sp, u, j, g)
  BY <1>1, <1>2, <1>3 DEF Refers
<1>9. \A u, j, g : Refers(tb, sp, u, j, g) => u \in DOMAIN tb
  BY DEF Refers
<1>10. Unique(tn, sp \cup {f})
  BY <1>8, <1>9 DEF Sound, Unique
<1>11. Placed(tn, sp \cup {f}, spare \ {f})
  <2> SUFFICES ASSUME NEW g \in Frames
               PROVE  /\ g \in spare \ {f} =>
                           /\ g \notin DOMAIN tn
                           /\ \A u \in DOMAIN tn, j \in Index :
                                ~Refers(tn, sp \cup {f}, u, j, g)
                      /\ g \notin (spare \ {f}) \cup (sp \cup {f}) =>
                           \E u \in DOMAIN tn, j \in Index : Refers(tn, sp \cup {f}, u, j, g)
    BY DEF Placed
  <2>1. /\ g \in spare => /\ g \notin DOMAIN tb
                          /\ \A u \in DOMAIN tb, j \in Index : ~Refers(tb, sp, u, j, g)
        /\ g \notin spare \cup sp => \E u \in DOMAIN tb, j \in Index : Refers(tb, sp, u, j, g)
    BY DEF Sound, Placed
  <2> QED BY <2>1, <1>8, <1>9
<1>12. sp \cup {f} \subseteq DOMAIN tn /\ k \in sp \cup {f}
  BY <1>1
<1>13. ASSUME NEW s \in sp, NEW va \in VirtualPages
       PROVE  Leaf(tn, s, va) = Leaf(tb, s, va)
  <2>1. {s, Pdp(tb, s, va), Pd(tb, s, va), PageTable(tb, s, va)} \ {0} \subseteq DOMAIN tb
    BY WalkFacts
  <2>2. \A u \in {s, Pdp(tb, s, va), Pd(tb, s, va), PageTable(tb, s, va)} \ {0},
           j \in Index : tn[u][j] = tb[u][j]
    BY <2>1
  <2> QED BY <2>2, SameWalks
<1>14. ASSUME NEW va \in VirtualPages
       PROVE  Leaf(tn, f, va) = IF va[1] \in KernelHalf THEN Leaf(tb, k, va) ELSE Absent
  <2>1. va[1] \in Index /\ f # 0 /\ k # 0 /\ tn[k] = tb[k]
    BY <1>1, <1>2, PageFacts, AddressSpaceAssumption DEF Sound, IsTables
  <2>2. CASE va[1] \in KernelHalf
    <3>1. tn[f][va[1]] = tn[k][va[1]]
      BY <1>3, <2>1, <2>2
    <3>2. Leaf(tn, f, va) = Leaf(tn, k, va)
      BY <2>1, <3>1, SameTop
    <3> QED BY <1>1, <1>13, <2>2, <3>2
  <2>3. CASE va[1] \notin KernelHalf
    BY <1>3, <2>1, <2>3, EmptyTop
  <2> QED BY <2>2, <2>3
<1> QED BY <1>4, <1>6, <1>7, <1>10, <1>11, <1>12, <1>13, <1>14 DEF Sound, ln

(* The frames below a set of tables, entry by entry.                       *)
LEMMA BelowFacts ==
  ASSUME NEW T, NEW g
  PROVE  g \in Below(T) <=>
           \E t \in T, i \in Index : Present(tables, t, i) /\ tables[t][i].frame = g
<1> DEFINE entries == {x \in T \X Index : Present(tables, x[1], x[2])}
<1>1. g \in Below(T) <=> \E x \in entries : g = tables[x[1]][x[2]].frame
  BY DEF Below
<1>2. ASSUME NEW x \in entries, g = tables[x[1]][x[2]].frame
      PROVE  \E t \in T, i \in Index : Present(tables, t, i) /\ tables[t][i].frame = g
  <2>1. x[1] \in T /\ x[2] \in Index /\ Present(tables, x[1], x[2])
    OBVIOUS
  <2> QED BY <1>2, <2>1
<1>3. ASSUME NEW t \in T, NEW i \in Index, Present(tables, t, i), tables[t][i].frame = g
      PROVE  \E x \in entries : g = tables[x[1]][x[2]].frame
  <2>1. <<t, i>> \in entries /\ <<t, i>>[1] = t /\ <<t, i>>[2] = i
    BY <1>3
  <2> QED BY <1>3, <2>1
<1> QED BY <1>1, <1>2, <1>3

(* The last entries vmm_destroy_space visits, one by one.                  *)
LEMMA OwnLeavesFacts ==
  ASSUME NEW p, NEW e
  PROVE  e \in OwnLeaves(p) <=>
           \E t \in Below(Below(Pdps(p))), i \in Index :
             Present(tables, t, i) /\ tables[t][i] = e
<1> DEFINE T == Below(Below(Pdps(p)))
           entries == {x \in T \X Index : Present(tables, x[1], x[2])}
<1>1. e \in OwnLeaves(p) <=> \E x \in entries : e = tables[x[1]][x[2]]
  BY DEF OwnLeaves
<1> HIDE DEF T
<1>2. ASSUME NEW x \in entries, e = tables[x[1]][x[2]]
      PROVE  \E t \in T, i \in Index : Present(tables, t, i) /\ tables[t][i] = e
  <2>1. x[1] \in T /\ x[2] \in Index /\ Present(tables, x[1], x[2])
    OBVIOUS
  <2> QED BY <1>2, <2>1
<1>3. ASSUME NEW t \in T, NEW i \in Index, Present(tables, t, i), tables[t][i] = e
      PROVE  \E x \in entries : e = tables[x[1]][x[2]]
  <2>1. <<t, i>> \in entries /\ <<t, i>>[1] = t /\ <<t, i>>[2] = i
    BY <1>3
  <2> QED BY <1>3, <2>1
<1>4. e \in OwnLeaves(p) <=> \E t \in T, i \in Index : Present(tables, t, i) /\ tables[t][i] = e
  BY <1>1, <1>2, <1>3
<1> QED BY <1>4 DEF T

(* What vmm_destroy_space visits is closed under the references of its     *)
(* tables, and nothing else refers into it.                                *)
LEMMA OwnFacts ==
  ASSUME NEW spare, NEW level, Sound(tables, spaces, spare, level),
         NEW p \in spaces, p # Boot.pml4
  PROVE  /\ OwnTables(p) \subseteq DOMAIN tables
         /\ p \in OwnTables(p)
         /\ \A t \in OwnTables(p) : t \in spaces => t = p
         /\ \A t \in OwnTables(p), i \in Index, g \in Frames :
              Refers(tables, spaces, t, i, g) =>
                IF level[t] = 1 THEN tables[t][i] \in OwnLeaves(p) ELSE g \in OwnTables(p)
         /\ \A g \in OwnTables(p) \ {p} : \E t \in OwnTables(p), i \in Index :
              Refers(tables, spaces, t, i, g)
         /\ \A e \in OwnLeaves(p) : \E t \in OwnTables(p), i \in Index :
              level[t] = 1 /\ tables[t][i] = e /\ e # Absent
<1> DEFINE A == Pdps(p)
           B == Below(A)
           C == Below(B)
           O == OwnTables(p)
<1>0. O = {p} \cup A \cup B \cup C
  BY DEF OwnTables
<1>1. /\ p \in DOMAIN tables /\ p # 0 /\ level[p] = 4 /\ \A i \in Index : tables[p][i] \in Entries
      /\ \A t \in DOMAIN tables : t # 0 /\ level[t] \in 1 .. 4 /\ (level[t] = 4 <=> t \in spaces)
  BY AddressSpaceAssumption DEF Sound, Levels, IsTables
<1>2. \A t \in DOMAIN tables, i \in Index :
        Present(tables, t, i) =>
          IF level[t] = 1 THEN tables[t][i].frame \notin DOMAIN tables
          ELSE /\ tables[t][i].frame \in DOMAIN tables
               /\ level[tables[t][i].frame] = level[t] - 1
  BY DEF Sound, Levels, Present
<1>3. \A g : g \in A <=> \E i \in Index \ KernelHalf :
                           Present(tables, p, i) /\ tables[p][i].frame = g
  BY DEF Pdps
<1>4. \A T, g : g \in Below(T) <=>
        \E t \in T, i \in Index : Present(tables, t, i) /\ tables[t][i].frame = g
  BY BelowFacts
<1>5. \A e : e \in OwnLeaves(p) <=>
        \E t \in C, i \in Index : Present(tables, t, i) /\ tables[t][i] = e
  BY OwnLeavesFacts
<1> HIDE DEF A, O
<1>6. \A t \in A : t \in DOMAIN tables /\ level[t] = 3
  BY <1>1, <1>2, <1>3
<1>7. \A g : g \in B <=> \E t \in A, i \in Index : Present(tables, t, i) /\ tables[t][i].frame = g
  BY <1>4
<1> HIDE DEF B
<1>8. \A t \in B : t \in DOMAIN tables /\ level[t] = 2
  BY <1>2, <1>6, <1>7
<1>9. \A g : g \in C <=> \E t \in B, i \in Index : Present(tables, t, i) /\ tables[t][i].frame = g
  BY <1>4
<1> HIDE DEF C
<1>10. \A t \in C : t \in DOMAIN tables /\ level[t] = 1
  BY <1>2, <1>8, <1>9
<1>11. O \subseteq DOMAIN tables /\ p \in O /\ \A t \in O : t \in spaces => t = p
  BY <1>0, <1>1, <1>6, <1>8, <1>10
<1>12. ASSUME NEW t \in DOMAIN tables, NEW i \in Index, NEW g \in Frames,
              Refers(tables, spaces, t, i, g)
       PROVE  Present(tables, t, i) /\ tables[t][i].frame = g
  <2>1. Absent.frame = 0 /\ 0 \notin Frames
    BY AddressSpaceAssumption DEF Absent
  <2> QED BY <1>1, <1>12, <2>1 DEF Refers, Present
<1>13. ASSUME NEW t \in O, NEW i \in Index, NEW g \in Frames,
              Refers(tables, spaces, t, i, g)
       PROVE  IF level[t] = 1 THEN tables[t][i] \in OwnLeaves(p) ELSE g \in O
  <2>1. Present(tables, t, i) /\ tables[t][i].frame = g
    BY <1>11, <1>12, <1>13
  <2>2. CASE t = p
    <3>1. i \notin KernelHalf
      BY <1>13, <2>2 DEF Refers
    <3> QED BY <2>1, <2>2, <3>1, <1>0, <1>1, <1>3
  <2>3. CASE t \in A
    BY <2>1, <2>3, <1>0, <1>6, <1>7
  <2>4. CASE t \in B
    BY <2>1, <2>4, <1>0, <1>8, <1>9
  <2>5. CASE t \in C
    BY <2>1, <2>5, <1>5, <1>10
  <2> QED BY <1>0, <2>2, <2>3, <2>4, <2>5
<1>14. ASSUME NEW g \in O \ {p}
       PROVE  \E t \in O, i \in Index : Refers(tables, spaces, t, i, g)
  <2>1. CASE g \in A
    <3>1. PICK i \in Index \ KernelHalf : Present(tables, p, i) /\ tables[p][i].frame = g
      BY <2>1, <1>3
    <3> QED BY <3>1, <1>11 DEF Refers
  <2>2. CASE g \in B
    <3>1. PICK t \in A, i \in Index : Present(tables, t, i) /\ tables[t][i].frame = g
      BY <2>2, <1>7
    <3>2. t \in O /\ t \in DOMAIN tables /\ t \notin spaces
      BY <1>0, <1>1, <1>6
    <3> QED BY <3>1, <3>2 DEF Refers
  <2>3. CASE g \in C
    <3>1. PICK t \in B, i \in Index : Present(tables, t, i) /\ tables[t][i].frame = g
      BY <2>3, <1>9
    <3>2. t \in O /\ t \in DOMAIN tables /\ t \notin spaces
      BY <1>0, <1>1, <1>8
    <3> QED BY <3>1, <3>2 DEF Refers
  <2> QED BY <1>0, <2>1, <2>2, <2>3
<1>15. ASSUME NEW e \in OwnLeaves(p)
       PROVE  \E t \in O, i \in Index : level[t] = 1 /\ tables[t][i] = e /\ e # Absent
  <2>1. PICK t \in C, i \in Index : Present(tables, t, i) /\ tables[t][i] = e
    BY <1>5
  <2> QED BY <2>1, <1>0, <1>10 DEF Present
<1> QED BY <1>11, <1>13, <1>14, <1>15 DEF O

(* The frames behind some entries.                                         *)
FramesOf(leaves) == {e.frame : e \in leaves}

(* The tables tn are what is left when the space p is destroyed.           *)
Destroyed(tn, spare, p) ==
  LET back == OwnTables(p) \cup FramesOf(OwnLeaves(p))
  IN  /\ \E ln : Sound(tn, spaces \ {p}, spare \cup back, ln)
      /\ back \subseteq Frames \ spare
      /\ OwnTables(p) \cap FramesOf(OwnLeaves(p)) = {}
      /\ Returned(OwnLeaves(p)) \cap Forgotten(OwnLeaves(p)) = {}
      /\ FramesOf(OwnLeaves(p)) = Returned(OwnLeaves(p)) \cup Forgotten(OwnLeaves(p))
      /\ \A s \in spaces \ {p}, va \in VirtualPages : Leaf(tn, s, va) = Leaf(tables, s, va)

(* What is left keeps its trees, and what goes back was in one place each. *)
LEMMA DestroySound ==
  ASSUME NEW spare, NEW level, Sound(tables, spaces, spare, level),
         NEW p \in spaces, p # Boot.pml4, NEW tn,
         DOMAIN tn = DOMAIN tables \ OwnTables(p),
         \A t \in DOMAIN tn : tn[t] = tables[t]
  PROVE  Destroyed(tn, spare, p)
<1> DEFINE k == Boot.pml4
           O == OwnTables(p)
           L == OwnLeaves(p)
           F == FramesOf(L)
           back == O \cup F
           sn == spaces \ {p}
           ln == [t \in DOMAIN tn |-> level[t]]
<1>1. /\ O \subseteq DOMAIN tables /\ p \in O /\ \A t \in O : t \in spaces => t = p
      /\ \A t \in O, i \in Index, g \in Frames : Refers(tables, spaces, t, i, g) =>
           IF level[t] = 1 THEN tables[t][i] \in L ELSE g \in O
      /\ \A g \in O \ {p} : \E t \in O, i \in Index : Refers(tables, spaces, t, i, g)
      /\ \A e \in L : \E t \in O, i \in Index :
           level[t] = 1 /\ tables[t][i] = e /\ e # Absent
  BY OwnFacts
<1>2. Returned(L) \cup Forgotten(L) = F /\ \A e \in L : e.frame \in F
  BY DEF Returned, Forgotten, FramesOf
<1>3. DOMAIN tn = DOMAIN tables \ O /\ \A t \in DOMAIN tn : tn[t] = tables[t]
  OBVIOUS
<1>4. /\ k \in spaces /\ k \notin O /\ spaces \subseteq DOMAIN tables
      /\ DOMAIN tables \subseteq Frames
  BY <1>1 DEF Sound, IsTables
<1>5. \A g \in Frames, t, u \in DOMAIN tables, i, j \in Index :
        Refers(tables, spaces, t, i, g) /\ Refers(tables, spaces, u, j, g) => t = u /\ i = j
  BY DEF Sound, Unique
<1>6. \A g \in F : \E t \in O, i \in Index :
        /\ level[t] = 1 /\ tables[t][i] \in L /\ tables[t][i].frame = g
        /\ tables[t][i] # Absent /\ Refers(tables, spaces, t, i, g)
  <2> SUFFICES ASSUME NEW g \in F
               PROVE  \E t \in O, i \in Index :
                        /\ level[t] = 1 /\ tables[t][i] \in L /\ tables[t][i].frame = g
                        /\ tables[t][i] # Absent /\ Refers(tables, spaces, t, i, g)
    OBVIOUS
  <2>1. PICK e \in L : e.frame = g
    BY DEF FramesOf
  <2>2. PICK t \in O, i \in Index : level[t] = 1 /\ tables[t][i] = e /\ e # Absent
    BY <1>1
  <2>3. t \in DOMAIN tables /\ t \notin spaces
    BY <1>1, <2>2, TableEntry
  <2> QED BY <2>1, <2>2, <2>3 DEF Refers
<1> HIDE DEF O, L, F
<1>7. ASSUME NEW t \in DOMAIN tables, NEW i \in Index, NEW g \in O,
              Refers(tables, spaces, t, i, g)
       PROVE  t \in O
  <2>1. g \in Frames
    BY <1>1, <1>4
  <2>2. level[g] # 4
    <3>1. tables[t][i].frame = g /\ tables[t][i] # Absent
      <4>1. Absent.frame = 0 /\ 0 \notin Frames
        BY AddressSpaceAssumption DEF Absent
      <4> QED BY <1>7, <2>1, <4>1 DEF Refers
    <3>2. g \in DOMAIN tables
      BY <1>1
    <3> QED BY <3>1, <3>2, TableEntry DEF Sound, Levels
  <2>3. g # p
    BY <2>2, TableEntry DEF Sound, Levels
  <2>4. PICK u \in O, j \in Index : Refers(tables, spaces, u, j, g)
    BY <1>1, <2>3
  <2> QED BY <1>1, <1>5, <1>7, <2>1, <2>4
<1>8. \A g \in F, t \in DOMAIN tables, i \in Index :
        Refers(tables, spaces, t, i, g) => t \in O
  <2> SUFFICES ASSUME NEW g \in F, NEW t \in DOMAIN tables, NEW i \in Index,
                      Refers(tables, spaces, t, i, g)
               PROVE  t \in O
    OBVIOUS
  <2>1. PICK u \in O, j \in Index : /\ tables[u][j].frame = g /\ tables[u][j] # Absent
                                    /\ Refers(tables, spaces, u, j, g)
    BY <1>6
  <2>2. u \in DOMAIN tables /\ g \in Frames
    BY <1>1, <2>1, TableEntry
  <2> QED BY <1>5, <2>1, <2>2
<1>9. F \subseteq Frames /\ F \cap DOMAIN tables = {} /\ F \cap spare = {}
  <2> SUFFICES ASSUME NEW g \in F
               PROVE  g \in Frames /\ g \notin DOMAIN tables /\ g \notin spare
    OBVIOUS
  <2>1. PICK u \in O, j \in Index : /\ level[u] = 1 /\ tables[u][j].frame = g
                                    /\ tables[u][j] # Absent
                                    /\ Refers(tables, spaces, u, j, g)
    BY <1>6
  <2>2. u \in DOMAIN tables
    BY <1>1
  <2>3. g \in Frames
    BY <2>1, <2>2, TableEntry
  <2>4. g \notin DOMAIN tables
    BY <2>1, <2>2 DEF Sound, Levels
  <2> QED BY <2>1, <2>2, <2>3, <2>4 DEF Sound, Placed
<1>10. O \cap spare = {} /\ O \cap F = {} /\ O \subseteq Frames
  BY <1>1, <1>4, <1>9 DEF Sound, Placed
<1>11. Returned(L) \cap Forgotten(L) = {}
  <2> SUFFICES ASSUME NEW e \in L, NEW d \in L, ~e.nx, d.nx, e.frame = d.frame
               PROVE  FALSE
    BY DEF Returned, Forgotten
  <2>1. PICK t \in O, i \in Index : level[t] = 1 /\ tables[t][i] = e /\ e # Absent
    BY <1>1
  <2>2. PICK u \in O, j \in Index : level[u] = 1 /\ tables[u][j] = d /\ d # Absent
    BY <1>1
  <2>3. /\ t \in DOMAIN tables /\ u \in DOMAIN tables
        /\ t \notin spaces /\ u \notin spaces /\ e.frame \in Frames
    BY <1>1, <2>1, <2>2, TableEntry
  <2>4. Refers(tables, spaces, t, i, e.frame) /\ Refers(tables, spaces, u, j, e.frame)
    BY <2>1, <2>2, <2>3 DEF Refers
  <2>5. e = d
    BY <1>5, <2>1, <2>2, <2>3, <2>4
  <2> QED BY <2>5
<1>12. IsTables(tn) /\ sn \subseteq DOMAIN tn /\ k \in sn
  BY <1>1, <1>3, <1>4 DEF Sound, IsTables
<1>13. Shared(tn, sn)
  BY <1>3, <1>12 DEF Sound, Shared
<1>14. \A t \in DOMAIN tn, i \in Index : \A g :
         Refers(tn, sn, t, i, g) <=> Refers(tables, spaces, t, i, g)
  BY <1>1, <1>3 DEF Refers
<1>15. Unique(tn, sn)
  BY <1>3, <1>5, <1>14 DEF Unique
<1>16. Placed(tn, sn, spare \cup back)
  <2> SUFFICES ASSUME NEW g \in Frames
               PROVE  /\ g \in spare \cup back =>
                           /\ g \notin DOMAIN tn
                           /\ \A t \in DOMAIN tn, i \in Index : ~Refers(tn, sn, t, i, g)
                      /\ g \notin (spare \cup back) \cup sn =>
                           \E t \in DOMAIN tn, i \in Index : Refers(tn, sn, t, i, g)
    BY DEF Placed
  <2>1. CASE g \in spare
    <3>1. /\ g \notin DOMAIN tables
          /\ \A t \in DOMAIN tables, i \in Index : ~Refers(tables, spaces, t, i, g)
      BY <2>1 DEF Sound, Placed
    <3> QED BY <2>1, <3>1, <1>3, <1>14
  <2>2. CASE g \in O
    BY <2>2, <1>3, <1>7, <1>14
  <2>3. CASE g \in F
    BY <2>3, <1>3, <1>8, <1>9, <1>14
  <2>4. CASE g \notin (spare \cup back) \cup sn
    <3>1. g \notin spare \cup spaces
      BY <2>4, <1>1
    <3>2. PICK t \in DOMAIN tables, i \in Index : Refers(tables, spaces, t, i, g)
      BY <3>1 DEF Sound, Placed
    <3>3. t \notin O
      <4>1. Refers(tables, spaces, t, i, g) => tables[t][i].frame = g
        BY DEF Refers
      <4> QED BY <2>4, <3>2, <4>1, <1>1, <1>2
    <3> QED BY <2>4, <3>2, <3>3, <1>3, <1>14
  <2> QED BY <2>1, <2>2, <2>3, <2>4
<1>17. Levels(tn, sn, ln)
  <2>1. level \in [DOMAIN tables -> 1 .. 4] /\ \A t \in DOMAIN tables : level[t] = 4 <=> t \in spaces
    BY DEF Sound, Levels
  <2>2. ln \in [DOMAIN tn -> 1 .. 4] /\ \A t \in DOMAIN tn : ln[t] = level[t]
    BY <2>1, <1>3
  <2>3. \A t \in DOMAIN tn : ln[t] = 4 <=> t \in sn
    BY <2>1, <2>2, <1>1, <1>3
  <2> HIDE DEF ln
  <2>4. ASSUME NEW t \in DOMAIN tn, NEW i \in Index, tn[t][i] # Absent
        PROVE  IF ln[t] = 1 THEN tn[t][i].frame \notin DOMAIN tn
               ELSE tn[t][i].frame \in DOMAIN tn /\ ln[tn[t][i].frame] = ln[t] - 1
    <3> DEFINE g == tables[t][i].frame
    <3>1. t \in DOMAIN tables /\ t \notin O /\ tables[t][i] # Absent /\ tn[t][i] = tables[t][i]
      BY <2>4, <1>3
    <3>2. IF level[t] = 1 THEN g \notin DOMAIN tables
          ELSE g \in DOMAIN tables /\ level[g] = level[t] - 1
      BY <3>1 DEF Sound, Levels
    <3>3. g \notin O
      <4>1. CASE Refers(tables, spaces, t, i, g)
        BY <1>7, <3>1, <4>1
      <4>2. CASE ~Refers(tables, spaces, t, i, g)
        <5>1. t \in spaces /\ i \in KernelHalf
          BY <3>1, <4>2 DEF Refers
        <5>2. tables[k][i] = tables[t][i]
          BY <5>1, <1>4 DEF Sound, Shared
        <5>3. Refers(tables, spaces, k, i, g)
          BY <5>2, <1>4 DEF Refers
        <5> QED BY <1>4, <1>7, <5>3
      <4> QED BY <4>1, <4>2
    <3> QED BY <3>1, <3>2, <3>3, <2>2, <1>3
  <2> QED BY <2>2, <2>3, <2>4 DEF Levels
<1>18. ASSUME NEW s \in sn, NEW va \in VirtualPages
       PROVE  Leaf(tn, s, va) = Leaf(tables, s, va)
  <2> DEFINE a == Pdp(tables, s, va)
             b == Pd(tables, s, va)
             c == PageTable(tables, s, va)
  <2>0. va[1] \in Index /\ va[2] \in Index /\ va[3] \in Index
    BY PageFacts
  <2>1. /\ s \in DOMAIN tables
        /\ a # 0 => a \in DOMAIN tables /\ level[a] = 3 /\ tables[s][va[1]].frame = a
        /\ b # 0 => /\ b \in DOMAIN tables /\ level[b] = 2
                    /\ a # 0 /\ tables[a][va[2]].frame = b
        /\ c # 0 => c \in DOMAIN tables /\ b # 0 /\ tables[b][va[3]].frame = c
    BY WalkFacts
  <2> HIDE DEF a, b, c
  <2>2. s \notin O
    BY <1>1
  <2>3. a # 0 => a \notin O
    <3>1. \/ Refers(tables, spaces, k, va[1], tables[s][va[1]].frame)
          \/ Refers(tables, spaces, s, va[1], tables[s][va[1]].frame)
      BY <2>0, TopReference
    <3> QED BY <2>0, <2>1, <2>2, <3>1, <1>4, <1>7
  <2>4. b # 0 => b \notin O
    <3>1. a # 0 => a \notin spaces
      BY <2>1, <2>0, TableEntry
    <3>2. b # 0 => Refers(tables, spaces, a, va[2], b)
      BY <2>0, <2>1, <3>1 DEF Refers
    <3> QED BY <2>0, <2>1, <2>3, <3>2, <1>7
  <2>5. c # 0 => c \notin O
    <3>1. b # 0 => b \notin spaces
      BY <2>1, <2>0, TableEntry
    <3>2. c # 0 => Refers(tables, spaces, b, va[3], c)
      BY <2>0, <2>1, <3>1 DEF Refers
    <3> QED BY <2>0, <2>1, <2>4, <3>2, <1>7
  <2>6. \A u \in {s, a, b, c} \ {0}, j \in Index : tn[u][j] = tables[u][j]
    BY <2>1, <2>2, <2>3, <2>4, <2>5, <1>3
  <2>7. \A u \in {s, Pdp(tables, s, va), Pd(tables, s, va), PageTable(tables, s, va)} \ {0},
            j \in Index : tn[u][j] = tables[u][j]
    BY <2>6 DEF a, b, c
  <2>8. ASSUME NEW td,
               \A u \in {s, Pdp(tables, s, va), Pd(tables, s, va), PageTable(tables, s, va)} \ {0},
                  j \in Index : td[u][j] = tables[u][j]
        PROVE  Leaf(td, s, va) = Leaf(tables, s, va)
    BY <2>8, SameWalks
  <2> QED BY <2>7, <2>8
<1>19. Sound(tn, sn, spare \cup back, ln)
  BY <1>12, <1>13, <1>15, <1>16, <1>17 DEF Sound
<1> QED BY <1>2, <1>9, <1>10, <1>11, <1>18, <1>19 DEF Destroyed, O, L, F

-----------------------------------------------------------------------------
(* The boot space, and what an invariant state says of the variables.      *)

(* The boot loader's tables are one sound address space.                   *)
LEMMA BootSound ==
  \E level : Sound(Boot.tables, {Boot.pml4}, Frames \ DOMAIN Boot.tables, level)
<1> DEFINE tb == Boot.tables
           k == Boot.pml4
           entries == {ti \in (DOMAIN tb) \X Index : tb[ti[1]][ti[2]] # Absent}
<1>1. /\ k \in DOMAIN tb /\ DOMAIN tb \subseteq Frames
      /\ \A t \in DOMAIN tb : tb[t] \in [Index -> Entries]
  BY TablesAssumption
<1>2. PICK level \in [DOMAIN tb -> 1 .. 4] :
        /\ \A t \in DOMAIN tb : level[t] = 4 <=> t = k
        /\ \A ti \in entries : /\ tb[ti[1]][ti[2]].frame \in DOMAIN tb
                              /\ level[tb[ti[1]][ti[2]].frame] = level[ti[1]] - 1
  BY TablesAssumption
<1>3. \A t \in DOMAIN tb \ {k} :
        \E ti \in entries : \A uj \in entries : tb[uj[1]][uj[2]].frame = t <=> uj = ti
  BY TablesAssumption
<1>4. \A t \in DOMAIN tb, i \in Index : tb[t][i] # Absent => <<t, i>> \in entries
  OBVIOUS
<1>5. \A ti \in entries : /\ ti[1] \in DOMAIN tb /\ ti[2] \in Index
                          /\ tb[ti[1]][ti[2]] # Absent
  OBVIOUS
<1>5a. k = Boot.pml4 /\ tb = Boot.tables
  OBVIOUS
<1> HIDE DEF entries, tb, k
<1>6. ASSUME NEW t \in DOMAIN tb, NEW i \in Index, tb[t][i] # Absent
      PROVE  /\ tb[t][i].frame \in DOMAIN tb /\ tb[t][i].frame # k
             /\ level[t] # 1 /\ level[tb[t][i].frame] = level[t] - 1
  <2>1. <<t, i>> \in entries /\ <<t, i>>[1] = t /\ <<t, i>>[2] = i
    BY <1>4, <1>6
  <2>2. tb[t][i].frame \in DOMAIN tb /\ level[tb[t][i].frame] = level[t] - 1
    BY <1>2, <2>1
  <2>3. level[t] \in 1 .. 4 /\ level[tb[t][i].frame] \in 1 .. 4
    BY <1>2, <2>2
  <2> QED BY <1>1, <1>2, <2>2, <2>3
<1>7. \A t \in DOMAIN tb, i \in Index, f \in Frames :
        Refers(tb, {k}, t, i, f) <=> tb[t][i] # Absent /\ tb[t][i].frame = f
  <2>1. Absent.frame = 0 /\ 0 \notin Frames
    BY AddressSpaceAssumption DEF Absent
  <2> QED BY <1>5a, <2>1 DEF Refers
<1>8. Levels(tb, {k}, level)
  BY <1>2, <1>6 DEF Levels
<1>9. Unique(tb, {k})
  <2> SUFFICES ASSUME NEW f \in Frames, NEW t \in DOMAIN tb, NEW u \in DOMAIN tb,
                      NEW i \in Index, NEW j \in Index,
                      Refers(tb, {k}, t, i, f), Refers(tb, {k}, u, j, f)
               PROVE  t = u /\ i = j
    BY DEF Unique
  <2>1. /\ tb[t][i] # Absent /\ tb[t][i].frame = f
        /\ tb[u][j] # Absent /\ tb[u][j].frame = f
    BY <1>7
  <2>2. f \in DOMAIN tb \ {k}
    BY <2>1, <1>6
  <2>3. PICK vl \in entries : \A uj \in entries : tb[uj[1]][uj[2]].frame = f <=> uj = vl
    BY <1>3, <2>2
  <2>4. <<t, i>> \in entries /\ <<u, j>> \in entries
    BY <1>4, <2>1
  <2>5. <<t, i>> = vl /\ <<u, j>> = vl
    BY <2>1, <2>3, <2>4
  <2> QED BY <2>5
<1>10. Placed(tb, {k}, Frames \ DOMAIN tb)
  <2>1. ASSUME NEW f \in Frames \ DOMAIN tb, NEW t \in DOMAIN tb, NEW i \in Index
        PROVE  ~Refers(tb, {k}, t, i, f)
    <3> SUFFICES ASSUME Refers(tb, {k}, t, i, f) PROVE FALSE
      OBVIOUS
    <3>1. tb[t][i] # Absent /\ tb[t][i].frame = f
      BY <1>7
    <3>2. tb[t][i].frame \in DOMAIN tb
      BY <3>1, <1>6
    <3> QED BY <3>1, <3>2
  <2>2. ASSUME NEW f \in DOMAIN tb \ {k}
        PROVE  \E t \in DOMAIN tb, i \in Index : Refers(tb, {k}, t, i, f)
    <3>0. PICK ti \in entries : \A uj \in entries : tb[uj[1]][uj[2]].frame = f <=> uj = ti
      BY <1>3
    <3>1. tb[ti[1]][ti[2]].frame = f
      BY <3>0
    <3>2. ti[1] \in DOMAIN tb /\ ti[2] \in Index /\ tb[ti[1]][ti[2]] # Absent
      BY <1>5
    <3>3. f \in Frames
      BY <1>1
    <3>4. Refers(tb, {k}, ti[1], ti[2], f)
      BY <3>1, <3>2, <1>5a DEF Refers
    <3> QED BY <3>2, <3>4
  <2> QED BY <2>1, <2>2 DEF Placed
<1>11. Shared(tb, {k})
  BY <1>5a DEF Shared
<1> QED BY <1>5a, <1>1, <1>8, <1>9, <1>10, <1>11 DEF Sound, IsTables

(* The parts of the invariant that every action starts from.               *)
LEMMA StateFacts ==
  ASSUME IInv
  PROVE  /\ \E level : Sound(tables, spaces, Spare, level)
         /\ DOMAIN tables \subseteq Frames /\ spaces \subseteq DOMAIN tables
         /\ kernel_space = Boot.pml4 /\ Boot.pml4 \in spaces /\ cr3 \in spaces
         /\ tlb \subseteq VirtualPages \X Frames
         /\ free \subseteq Frames /\ held \subseteq Frames /\ lost \subseteq Frames
         /\ halted \in BOOLEAN
         /\ free \cap held = {} /\ lost \cap (free \cup held) = {}
         /\ \A e \in tlb : Leaf(tables, cr3, e[1]).frame = e[2]
<1>1. Spare \cup {} = Spare
  OBVIOUS
<1> QED BY <1>1 DEF IInv, Sane, TypeOK, TlbCoherent

(* The frames in spare hands, and the invariant, of a step's last state.   *)
LEMMA SaneStep ==
  ASSUME IInv, kernel_space' = kernel_space, cr3' \in spaces', NEW gone,
         NEW level, Sound(tables', spaces', (free \cup held \cup lost)' \cup gone, level),
         (free \cup held \cup lost)' \subseteq Frames,
         (free \cap held = {} /\ lost \cap (free \cup held) = {})',
         tlb' \subseteq VirtualPages \X Frames,
         \A e \in tlb' : Leaf(tables', cr3', e[1]).frame = e[2],
         halted' \in BOOLEAN
  PROVE  Sane(gone)'
<1>1. kernel_space' = Boot.pml4
  BY StateFacts
<1>2. IsTables(tables') /\ spaces' \subseteq DOMAIN tables' /\ Boot.pml4 \in spaces'
  BY DEF Sound
<1>3. level \in [DOMAIN tables' -> 1 .. 4]
  BY DEF Sound, Levels
<1>4. TypeOK'
  BY <1>1, <1>2 DEF TypeOK, IsTables
<1>5. TlbCoherent'
  BY DEF TlbCoherent
<1>6. (\E lev \in [DOMAIN tables -> 1 .. 4] : Sound(tables, spaces, Spare \cup gone, lev))'
  BY <1>3 DEF Spare
<1> QED BY <1>1, <1>4, <1>5, <1>6 DEF Sane

(* The same when no frame is gone.                                         *)
LEMMA StepFacts ==
  ASSUME IInv, kernel_space' = kernel_space, cr3' \in spaces',
         NEW level, Sound(tables', spaces', (free \cup held \cup lost)', level),
         (free \cup held \cup lost)' \subseteq Frames,
         (free \cap held = {} /\ lost \cap (free \cup held) = {})',
         tlb' \subseteq VirtualPages \X Frames,
         \A e \in tlb' : Leaf(tables', cr3', e[1]).frame = e[2],
         halted' \in BOOLEAN
  PROVE  IInv'
<1>1. (free \cup held \cup lost)' \cup {} = (free \cup held \cup lost)'
  OBVIOUS
<1>2. Sound(tables', spaces', (free \cup held \cup lost)' \cup {}, level)
  BY <1>1
<1>3. Sane({})'
  BY <1>2, SaneStep
<1> QED BY <1>3 DEF IInv

(* vmm_init establishes the invariant.                                     *)
LEMMA InitIInv == Init => IInv
<1> SUFFICES ASSUME Init PROVE IInv
  OBVIOUS
<1>1. /\ tables = Boot.tables /\ kernel_space = Boot.pml4 /\ spaces = {Boot.pml4}
      /\ cr3 = Boot.pml4 /\ tlb = {} /\ held = {} /\ lost = {} /\ halted = FALSE
      /\ free = Frames \ DOMAIN Boot.tables
  BY DEF Init
<1>2. Spare = Frames \ DOMAIN Boot.tables
  BY <1>1 DEF Spare
<1>3. PICK level : Sound(tables, spaces, Spare, level)
  BY <1>1, <1>2, BootSound
<1>4. IsTables(tables) /\ spaces \subseteq DOMAIN tables
  BY <1>3 DEF Sound
<1>5. level \in [DOMAIN tables -> 1 .. 4]
  BY <1>3 DEF Sound, Levels
<1>6. TypeOK
  BY <1>1, <1>4 DEF TypeOK, IsTables
<1>7. TlbCoherent
  BY <1>1 DEF TlbCoherent
<1>8. Spare \cup {} = Spare
  OBVIOUS
<1> QED BY <1>1, <1>3, <1>5, <1>6, <1>7, <1>8 DEF IInv, Sane

-----------------------------------------------------------------------------
(* The actions: each keeps the invariant, and does one thing to the pages. *)

(* What a step does to the pages that the spaces see.                      *)
SamePages ==
  \A u \in spaces \cap spaces', vb \in VirtualPages : Leaf(tables', u, vb) = Leaf(tables, u, vb)

(* Page va of space s, or of every space in the kernel's half, reads e.    *)
Reads(tn, s, va, e) ==
  \A u \in spaces, vb \in VirtualPages :
    Leaf(tn, u, vb) = IF vb = va /\ (u = s \/ va[1] \in KernelHalf) THEN e
                      ELSE Leaf(tables, u, vb)

Kept == spaces' = spaces /\ cr3' = cr3 /\ SamePages

Switched == spaces' = spaces /\ cr3' \in spaces /\ SamePages

Made(f) ==
  /\ spaces' = spaces \cup {f} /\ cr3' = cr3 /\ SamePages
  /\ \A va \in VirtualPages :
       Leaf(tables', f, va) = IF va[1] \in KernelHalf THEN Leaf(tables, Boot.pml4, va)
                              ELSE Absent

Ended(p) == spaces' = spaces \ {p} /\ cr3' = cr3 /\ SamePages

Mapped(s, va, f, nx) ==
  /\ Leaf(tables, s, va) = Absent
  /\ spaces' = spaces /\ cr3' = cr3 /\ Reads(tables', s, va, Entry(f, nx))

Withdrawn(va) ==
  /\ Leaf(tables, cr3, va) # Absent
  /\ spaces' = spaces /\ cr3' = cr3 /\ Reads(tables', cr3, va, Absent)

ViewStep ==
  \/ Kept
  \/ Switched
  \/ \E f \in Spare : Made(f)
  \/ \E p \in spaces \ {Boot.pml4, cr3} : Ended(p)
  \/ \E s \in spaces, va \in VirtualPages, f \in Spare, nx \in BOOLEAN : Mapped(s, va, f, nx)
  \/ \E va \in VirtualPages : Withdrawn(va)

(* A frame moves from the free ones to a caller.                           *)
LEMMA AllocStep == IInv /\ pmm_alloc_page => IInv' /\ ViewStep
<1> SUFFICES ASSUME IInv, pmm_alloc_page PROVE IInv' /\ ViewStep
  OBVIOUS
<1> DEFINE f == Lowest(free)
<1>1. PICK level : Sound(tables, spaces, Spare, level)
  BY StateFacts
<1>2. f \in free
  BY StateFacts, LowestIn DEF pmm_alloc_page
<1> HIDE DEF f
<1>3. /\ held' = held \cup {f} /\ free' = free \ {f} /\ lost' = lost
      /\ tables' = tables /\ spaces' = spaces /\ kernel_space' = kernel_space
      /\ cr3' = cr3 /\ tlb' = tlb /\ halted' = halted
  BY DEF pmm_alloc_page, f
<1>4. (free \cup held \cup lost)' = Spare
  BY <1>2, <1>3 DEF Spare
<1>5. (free \cap held = {} /\ lost \cap (free \cup held) = {})'
  BY <1>2, <1>3, StateFacts
<1>6. Sound(tables', spaces', (free \cup held \cup lost)', level)
  BY <1>1, <1>3, <1>4
<1>7. Spare \subseteq Frames
  BY StateFacts DEF Spare
<1>8. \A e \in tlb' : Leaf(tables', cr3', e[1]).frame = e[2]
  BY <1>3, StateFacts
<1>9. /\ cr3' \in spaces' /\ tlb' \subseteq VirtualPages \X Frames /\ halted' \in BOOLEAN
  BY <1>3, StateFacts
<1>10. IInv'
  BY <1>3, <1>4, <1>5, <1>6, <1>7, <1>8, <1>9, StepFacts
<1>11. ViewStep
  BY <1>3 DEF ViewStep, Kept, SamePages
<1> QED BY <1>10, <1>11

(* A caller gives a frame back that no table refers to.                    *)
LEMMA FreeStep ==
  ASSUME IInv, NEW f \in held, pmm_free_page(f)
  PROVE  IInv' /\ ViewStep
<1>1. PICK level : Sound(tables, spaces, Spare, level)
  BY StateFacts
<1>2. /\ held' = held \ {f} /\ free' = free \cup {f} /\ lost' = lost
      /\ tables' = tables /\ spaces' = spaces /\ kernel_space' = kernel_space
      /\ cr3' = cr3 /\ tlb' = tlb /\ halted' = halted
  BY DEF pmm_free_page
<1>3. (free \cup held \cup lost)' = Spare
  BY <1>2 DEF Spare
<1>4. (free \cap held = {} /\ lost \cap (free \cup held) = {})'
  BY <1>2, StateFacts
<1>5. Sound(tables', spaces', (free \cup held \cup lost)', level)
  BY <1>1, <1>2, <1>3
<1>6. Spare \subseteq Frames
  BY StateFacts DEF Spare
<1>7. \A e \in tlb' : Leaf(tables', cr3', e[1]).frame = e[2]
  BY <1>2, StateFacts
<1>8. /\ cr3' \in spaces' /\ tlb' \subseteq VirtualPages \X Frames /\ halted' \in BOOLEAN
  BY <1>2, StateFacts
<1>9. IInv'
  BY <1>2, <1>3, <1>4, <1>5, <1>6, <1>7, <1>8, StepFacts
<1>10. ViewStep
  BY <1>2 DEF ViewStep, Kept, SamePages
<1> QED BY <1>9, <1>10

(* vmm_create_space leaves the other spaces as they were.                  *)
LEMMA CreateStep == IInv /\ vmm_create_space => IInv' /\ ViewStep
<1> SUFFICES ASSUME IInv, vmm_create_space PROVE IInv' /\ ViewStep
  OBVIOUS
<1> DEFINE f == Lowest(free)
<1>1. PICK level : Sound(tables, spaces, Spare, level)
  BY StateFacts
<1>2. f \in free /\ f \in Spare /\ f \in Frames
  BY StateFacts, LowestIn DEF vmm_create_space, Spare
<1> HIDE DEF f
<1>3. /\ tables' = [t \in DOMAIN tables \cup {f} |->
                      IF t = f THEN vmm_map_kernel ELSE tables[t]]
      /\ spaces' = spaces \cup {f} /\ free' = free \ {f}
      /\ held' = held /\ lost' = lost /\ kernel_space' = kernel_space
      /\ cr3' = cr3 /\ tlb' = tlb /\ halted' = halted
  BY DEF vmm_create_space, f
<1>4. f \notin DOMAIN tables
  BY <1>1, <1>2 DEF Sound, Placed
<1>5. /\ DOMAIN tables' = DOMAIN tables \cup {f}
      /\ \A u \in DOMAIN tables : tables'[u] = tables[u]
  BY <1>3, <1>4
<1>6. tables'[f] = [j \in Index |-> IF j \in KernelHalf THEN tables[Boot.pml4][j] ELSE Absent]
  BY <1>3, StateFacts DEF vmm_map_kernel
<1>7. (free \cup held \cup lost)' = Spare \ {f}
  BY <1>2, <1>3, StateFacts DEF Spare
<1>8. /\ \E ln : Sound(tables', spaces \cup {f}, Spare \ {f}, ln)
      /\ \A s \in spaces, va \in VirtualPages : Leaf(tables', s, va) = Leaf(tables, s, va)
      /\ \A va \in VirtualPages :
           Leaf(tables', f, va) = IF va[1] \in KernelHalf THEN Leaf(tables, Boot.pml4, va)
                                  ELSE Absent
  <2>1. PICK tn : tn = tables'
    OBVIOUS
  <2>2. /\ DOMAIN tn = DOMAIN tables \cup {f}
        /\ \A u \in DOMAIN tables : tn[u] = tables[u]
        /\ tn[f] = [j \in Index |-> IF j \in KernelHalf THEN tables[Boot.pml4][j] ELSE Absent]
    BY <2>1, <1>5, <1>6
  <2>3. /\ \E ln : Sound(tn, spaces \cup {f}, Spare \ {f}, ln)
        /\ \A s \in spaces, va \in VirtualPages : Leaf(tn, s, va) = Leaf(tables, s, va)
        /\ \A va \in VirtualPages :
             Leaf(tn, f, va) = IF va[1] \in KernelHalf THEN Leaf(tables, Boot.pml4, va)
                               ELSE Absent
    BY <1>1, <1>2, <2>2, CreateSound
  <2> QED BY <2>1, <2>3
<1>9. PICK ln : Sound(tables', spaces', (free \cup held \cup lost)', ln)
  BY <1>3, <1>7, <1>8
<1>10. (free \cap held = {} /\ lost \cap (free \cup held) = {})'
  BY <1>3, StateFacts
<1>11. Spare \ {f} \subseteq Frames
  BY StateFacts DEF Spare
<1>12. \A e \in tlb' : Leaf(tables', cr3', e[1]).frame = e[2]
  BY <1>3, <1>8, StateFacts
<1>13. /\ cr3' \in spaces' /\ tlb' \subseteq VirtualPages \X Frames /\ halted' \in BOOLEAN
  BY <1>3, StateFacts
<1>14. IInv'
  BY <1>3, <1>7, <1>9, <1>10, <1>11, <1>12, <1>13, StepFacts
<1>15. Made(f)
  BY <1>3, <1>8 DEF Made, SamePages
<1>16. ViewStep
  BY <1>2, <1>15 DEF ViewStep
<1> QED BY <1>14, <1>16

(* vmm_destroy_space does too, and gives back what only its space used.    *)
LEMMA DestroyStep ==
  ASSUME IInv, NEW p \in spaces, vmm_destroy_space(p)
  PROVE  IInv' /\ ViewStep
<1> DEFINE O == OwnTables(p)
           L == OwnLeaves(p)
<1>1. PICK level : Sound(tables, spaces, Spare, level)
  BY StateFacts
<1>2. /\ free' = free \cup O \cup Returned(L) /\ lost' = lost \cup Forgotten(L)
      /\ spaces' = spaces \ {p} /\ held' = held /\ kernel_space' = kernel_space
      /\ cr3' = cr3 /\ tlb' = tlb /\ halted' = halted
      /\ p # kernel_space /\ p # cr3
      /\ tables' = [t \in DOMAIN tables \ O |-> tables[t]]
  BY DEF vmm_destroy_space
<1>3. p # Boot.pml4
  BY <1>2, StateFacts
<1>4. /\ \E ln : Sound(tables', spaces \ {p}, Spare \cup (O \cup FramesOf(L)), ln)
      /\ O \cup FramesOf(L) \subseteq Frames \ Spare
      /\ O \cap FramesOf(L) = {}
      /\ Returned(L) \cap Forgotten(L) = {}
      /\ FramesOf(L) = Returned(L) \cup Forgotten(L)
      /\ \A s \in spaces \ {p}, va \in VirtualPages :
           Leaf(tables', s, va) = Leaf(tables, s, va)
  <2>1. PICK tn : tn = tables'
    OBVIOUS
  <2>2. /\ DOMAIN tn = DOMAIN tables \ OwnTables(p)
        /\ \A t \in DOMAIN tn : tn[t] = tables[t]
    BY <2>1, <1>2
  <2>3. Destroyed(tn, Spare, p)
    BY <1>1, <1>3, <2>2, DestroySound
  <2> QED BY <2>1, <2>3 DEF Destroyed
<1> HIDE DEF O, L
<1>5. (free \cup held \cup lost)' = Spare \cup (O \cup FramesOf(L))
  BY <1>2, <1>4 DEF Spare
<1>6. PICK ln : Sound(tables', spaces', (free \cup held \cup lost)', ln)
  BY <1>2, <1>4, <1>5
<1>7. (free \cap held = {} /\ lost \cap (free \cup held) = {})'
  BY <1>2, <1>4, StateFacts DEF Spare
<1>8. (free \cup held \cup lost)' \subseteq Frames
  BY <1>4, <1>5, StateFacts DEF Spare
<1>9. \A e \in tlb' : Leaf(tables', cr3', e[1]).frame = e[2]
  BY <1>2, <1>4, StateFacts
<1>10. /\ cr3' \in spaces' /\ tlb' \subseteq VirtualPages \X Frames /\ halted' \in BOOLEAN
  BY <1>2, StateFacts
<1>11. IInv'
  BY <1>2, <1>6, <1>7, <1>8, <1>9, <1>10, StepFacts
<1>12. Ended(p)
  BY <1>2, <1>4 DEF Ended, SamePages
<1>13. ViewStep
  BY <1>2, <1>3, <1>12 DEF ViewStep
<1> QED BY <1>11, <1>13

(* Loading cr3 empties the translations.                                   *)
LEMMA SwitchStep ==
  ASSUME IInv, NEW p \in spaces, vmm_switch_space(p)
  PROVE  IInv' /\ ViewStep
<1>1. PICK level : Sound(tables, spaces, Spare, level)
  BY StateFacts
<1>2. /\ held' = held /\ free' = free /\ lost' = lost
      /\ tables' = tables /\ spaces' = spaces /\ kernel_space' = kernel_space
      /\ cr3' = p /\ tlb' = {} /\ halted' = halted
  BY DEF vmm_switch_space
<1>3. (free \cup held \cup lost)' = Spare
  BY <1>2 DEF Spare
<1>4. Sound(tables', spaces', (free \cup held \cup lost)', level)
  BY <1>1, <1>2, <1>3
<1>5. (free \cap held = {} /\ lost \cap (free \cup held) = {})'
  BY <1>2, StateFacts
<1>6. Spare \subseteq Frames
  BY StateFacts DEF Spare
<1>7. /\ cr3' \in spaces' /\ tlb' \subseteq VirtualPages \X Frames /\ halted' \in BOOLEAN
      /\ \A e \in tlb' : Leaf(tables', cr3', e[1]).frame = e[2]
  BY <1>2, StateFacts
<1>8. IInv'
  BY <1>2, <1>3, <1>4, <1>5, <1>6, <1>7, StepFacts
<1>9. ViewStep
  BY <1>2 DEF ViewStep, Switched, SamePages
<1> QED BY <1>8, <1>9

(* A translation is cached as the tables have it.                          *)
LEMMA TranslateStep ==
  ASSUME IInv, NEW va \in VirtualPages, Translate(va)
  PROVE  IInv' /\ ViewStep
<1> DEFINE e == Leaf(tables, cr3, va)
<1>1. PICK level : Sound(tables, spaces, Spare, level)
  BY StateFacts
<1>2. /\ held' = held /\ free' = free /\ lost' = lost
      /\ tables' = tables /\ spaces' = spaces /\ kernel_space' = kernel_space
      /\ cr3' = cr3 /\ tlb' = tlb \cup {<<va, e.frame>>} /\ halted' = halted /\ e # Absent
  BY DEF Translate
<1>3. e.frame \in Frames
  <2>1. e = tables[PageTable(tables, cr3, va)][va[4]] /\ PageTable(tables, cr3, va) # 0
    BY <1>2 DEF Leaf, Present
  <2>2. PageTable(tables, cr3, va) \in DOMAIN tables
    BY <1>1, <2>1, StateFacts, WalkFacts
  <2> QED BY <1>1, <1>2, <2>1, <2>2, PageFacts, TableEntry
<1> HIDE DEF e
<1>4. (free \cup held \cup lost)' = Spare
  BY <1>2 DEF Spare
<1>5. Sound(tables', spaces', (free \cup held \cup lost)', level)
  BY <1>1, <1>2, <1>4
<1>6. (free \cap held = {} /\ lost \cap (free \cup held) = {})'
  BY <1>2, StateFacts
<1>7. Spare \subseteq Frames
  BY StateFacts DEF Spare
<1>8. ASSUME NEW d \in tlb' PROVE Leaf(tables', cr3', d[1]).frame = d[2]
  <2>1. CASE d \in tlb
    BY <2>1, <1>2, StateFacts
  <2>2. CASE d = <<va, e.frame>>
    <3>1. d[1] = va /\ d[2] = e.frame
      BY <2>2
    <3> QED BY <3>1, <1>2 DEF e
  <2> QED BY <2>1, <2>2, <1>2
<1>9. cr3' \in spaces' /\ tlb' \subseteq VirtualPages \X Frames /\ halted' \in BOOLEAN
  BY <1>2, <1>3, StateFacts
<1>10. IInv'
  BY <1>2, <1>4, <1>5, <1>6, <1>7, <1>8, <1>9, StepFacts
<1>11. ViewStep
  BY <1>2 DEF ViewStep, Kept, SamePages
<1> QED BY <1>10, <1>11

(* The tables tn map what the tables did, and page va besides.             *)
MapsOne(tn, pml4, va) ==
  \A u \in spaces, vb \in VirtualPages :
    \/ Leaf(tn, u, vb) = Leaf(tables, u, vb)
    \/ /\ Leaf(tables, u, vb) = Absent
       /\ vb = va /\ (u = pml4 \/ va[1] \in KernelHalf)

(* Once the walk has come to a page table, the page is mapped there.       *)
LEMMA MapFacts ==
  ASSUME NEW spare, NEW level, Sound(tables, spaces, spare, level),
         NEW pml4 \in spaces, NEW va \in VirtualPages, Leaf(tables, pml4, va) = Absent,
         NEW frames \in SUBSET Frames, frames \subseteq spare,
         NEW f \in Frames, f \in spare, f \notin frames, NEW nx \in BOOLEAN,
         NEW w, w = Path(pml4, frames, va), w.at # 0,
         NEW tn, tn = SetLeaf(w, va, Entry(f, nx))
  PROVE  /\ \E ln : Sound(tn, spaces, (spare \ (frames \ w.free)) \ {f}, ln)
         /\ MapsOne(tn, pml4, va)
         /\ Reads(tn, pml4, va, Entry(f, nx))
<1> DEFINE sf == spare \ (frames \ w.free)
<1>1. /\ w.free \subseteq frames
      /\ \E ln : WalkSound(w, spaces, sf, ln, 1)
      /\ w.at = PageTable(w.tb, pml4, va)
      /\ \A s \in spaces, vb \in VirtualPages : Leaf(w.tb, s, vb) = Leaf(tables, s, vb)
  <2>1. PathMade(w, pml4, va, frames, spare)
    BY PathFacts
  <2> QED BY <2>1 DEF PathMade
<1>2. PICK ln : WalkSound(w, spaces, sf, ln, 1)
  BY <1>1
<1>3. f \in sf
  OBVIOUS
<1> HIDE DEF sf
<1>4. Sound(w.tb, spaces, sf, ln) /\ w.at \in DOMAIN w.tb /\ ln[w.at] = 1
  BY <1>2 DEF WalkSound
<1>5. va[4] \in Index /\ va = <<va[1], va[2], va[3], va[4]>>
  BY PageFacts
<1>6. w.tb[w.at][va[4]] = Absent
  <2>1. Leaf(w.tb, pml4, va) = Absent
    BY <1>1
  <2> QED BY <2>1, <1>1 DEF Leaf, Present
<1>7. tn = [w.tb EXCEPT ![w.at][va[4]] = Entry(f, nx)]
  BY DEF SetLeaf
<1>8. Sound(tn, spaces, sf \ {f}, ln)
  BY <1>3, <1>4, <1>5, <1>6, <1>7, MapSound
<1>9. ASSUME NEW u \in spaces, NEW vb \in VirtualPages
      PROVE  /\ Leaf(tn, u, vb) = IF vb = va /\ (u = pml4 \/ va[1] \in KernelHalf)
                                  THEN Entry(f, nx) ELSE Leaf(tables, u, vb)
             /\ vb = va /\ (u = pml4 \/ va[1] \in KernelHalf) => Leaf(tables, u, vb) = Absent
  <2>1. Leaf(tn, u, vb) = IF PageTable(w.tb, u, vb) = w.at /\ vb[4] = va[4]
                            THEN Entry(f, nx) ELSE Leaf(w.tb, u, vb)
    BY <1>4, <1>5, <1>7, NewEntry, EntryChangeWalks
  <2>2. CASE vb = va /\ (u = pml4 \/ va[1] \in KernelHalf)
    <3>1. PageTable(w.tb, u, va) = w.at /\ Leaf(w.tb, u, va) = Leaf(w.tb, pml4, va)
      BY <1>1, <1>4, <2>2, KernelWalks
    <3> QED BY <1>1, <2>1, <2>2, <3>1
  <2>3. CASE ~(vb = va /\ (u = pml4 \/ va[1] \in KernelHalf))
    <3>1. ~(PageTable(w.tb, u, vb) = w.at /\ vb[4] = va[4])
      <4> SUFFICES ASSUME PageTable(w.tb, u, vb) = w.at, vb[4] = va[4] PROVE FALSE
        OBVIOUS
      <4>1. /\ va[1] = vb[1] /\ va[2] = vb[2] /\ va[3] = vb[3]
            /\ pml4 = u \/ va[1] \in KernelHalf
        BY <1>1, <1>4, SameTable
      <4>2. vb = va
        BY <4>1, <1>5, PageFacts
      <4> QED BY <2>3, <4>1, <4>2
    <3> QED BY <1>1, <2>1, <2>3, <3>1
  <2> QED BY <2>2, <2>3
<1>10. MapsOne(tn, pml4, va)
  BY <1>9 DEF MapsOne
<1>11. Reads(tn, pml4, va, Entry(f, nx))
  BY <1>9 DEF Reads
<1> QED BY <1>8, <1>10, <1>11 DEF sf

(* The processor's translations when a page is mapped.                     *)
LEMMA MapsOneFacts ==
  ASSUME IInv, NEW pml4 \in spaces, NEW va \in VirtualPages,
         MapsOne(tables', pml4, va), spaces' = spaces, cr3' = cr3, tlb' \subseteq tlb
  PROVE  /\ \A e \in tlb' : Leaf(tables', cr3', e[1]).frame = e[2]
         /\ cr3' \in spaces' /\ tlb' \subseteq VirtualPages \X Frames
<1>1. cr3 \in spaces /\ tlb \subseteq VirtualPages \X Frames
      /\ \A e \in tlb : Leaf(tables, cr3, e[1]).frame = e[2]
  BY StateFacts
<1>2. ASSUME NEW e \in tlb'
      PROVE  Leaf(tables', cr3', e[1]).frame = e[2]
  <2>1. e \in VirtualPages \X Frames /\ Leaf(tables, cr3, e[1]).frame = e[2]
    BY <1>1
  <2>2. e[1] \in VirtualPages /\ e[2] \in Frames /\ e[2] # 0
    BY <2>1, AddressSpaceAssumption
  <2>3. Leaf(tables, cr3, e[1]) # Absent
    BY <2>1, <2>2 DEF Absent
  <2> QED BY <2>1, <2>2, <2>3, <1>1 DEF MapsOne
<1> QED BY <1>1, <1>2

(* A step that mapped va to f with tables from "frames", or stopped.       *)
LEMMA MapStep ==
  ASSUME IInv, NEW pml4 \in spaces, NEW va \in VirtualPages,
         Leaf(tables, pml4, va) = Absent,
         NEW frames \in SUBSET free, NEW f \in Spare, f \notin frames,
         NEW nx \in BOOLEAN, NEW w, w = Path(pml4, frames, va),
         \/ /\ w.at # 0 /\ tables' = SetLeaf(w, va, Entry(f, nx))
            /\ (free \cup held \cup lost)' = (Spare \ (frames \ w.free)) \ {f}
         \/ /\ tables' = w.tb
            /\ (free \cup held \cup lost)' = Spare \ (frames \ w.free),
         (free \cap held = {} /\ lost \cap (free \cup held) = {})',
         spaces' = spaces, cr3' = cr3, kernel_space' = kernel_space,
         tlb' \subseteq tlb, halted' \in BOOLEAN
  PROVE  IInv' /\ ViewStep
<1>1. PICK level : Sound(tables, spaces, Spare, level)
  BY StateFacts
<1>2. /\ frames \in SUBSET Frames /\ frames \subseteq Spare /\ f \in Frames
      /\ Spare \subseteq Frames
  BY StateFacts DEF Spare
<1>3. PICK tn : tn = tables'
  OBVIOUS
<1>4. /\ \E ln : Sound(tables', spaces', (free \cup held \cup lost)', ln)
      /\ MapsOne(tables', pml4, va)
      /\ ViewStep
  <2>1. CASE /\ w.at # 0 /\ tables' = SetLeaf(w, va, Entry(f, nx))
             /\ (free \cup held \cup lost)' = (Spare \ (frames \ w.free)) \ {f}
    <3>1. tn = SetLeaf(w, va, Entry(f, nx)) /\ w.at # 0
      BY <1>3, <2>1
    <3>2. /\ \E ln : Sound(tn, spaces, (Spare \ (frames \ w.free)) \ {f}, ln)
          /\ MapsOne(tn, pml4, va)
          /\ Reads(tn, pml4, va, Entry(f, nx))
      BY <1>1, <1>2, <3>1, MapFacts
    <3>3. Mapped(pml4, va, f, nx)
      BY <1>3, <3>2 DEF Mapped
    <3>4. ViewStep
      BY <3>3 DEF ViewStep
    <3> QED BY <1>3, <2>1, <3>2, <3>4
  <2>2. CASE /\ tables' = w.tb
             /\ (free \cup held \cup lost)' = Spare \ (frames \ w.free)
    <3>0. PathMade(w, pml4, va, frames, Spare)
      BY <1>1, <1>2, PathFacts
    <3>1. /\ \E ln : Sound(w.tb, spaces, Spare \ (frames \ w.free), ln)
          /\ MapsOne(w.tb, pml4, va)
      BY <3>0 DEF PathMade, WalkSound, MapsOne
    <3>2. \A s \in spaces, vb \in VirtualPages : Leaf(w.tb, s, vb) = Leaf(tables, s, vb)
      BY <3>0 DEF PathMade
    <3>3. ViewStep
      BY <2>2, <3>2 DEF ViewStep, Kept, SamePages
    <3> QED BY <2>2, <3>1, <3>3
  <2> QED BY <2>1, <2>2
<1>5. PICK ln : Sound(tables', spaces', (free \cup held \cup lost)', ln)
  BY <1>4
<1>6. (free \cup held \cup lost)' \subseteq Frames
  BY <1>2
<1>7. /\ \A e \in tlb' : Leaf(tables', cr3', e[1]).frame = e[2]
      /\ cr3' \in spaces' /\ tlb' \subseteq VirtualPages \X Frames
  BY <1>4, MapsOneFacts
<1>8. IInv'
  BY <1>5, <1>6, <1>7, StepFacts
<1> QED BY <1>4, <1>8

(* Walks only take free frames.                                            *)
LEMMA FreeLeft ==
  ASSUME IInv, NEW pml4 \in spaces, NEW va \in VirtualPages, NEW frames \in SUBSET free
  PROVE  Path(pml4, frames, va).free \subseteq frames
<1>1. PICK level : Sound(tables, spaces, Spare, level)
  BY StateFacts
<1>2. frames \in SUBSET Frames /\ frames \subseteq Spare
  BY StateFacts DEF Spare
<1>3. PathMade(Path(pml4, frames, va), pml4, va, frames, Spare)
  BY <1>1, <1>2, PathFacts
<1> QED BY <1>3 DEF PathMade

(* Both mapping functions, with the frame of a caller.                     *)
LEMMA FinishStep ==
  ASSUME IInv, NEW pml4 \in spaces, NEW va \in VirtualPages,
         Leaf(tables, pml4, va) = Absent, NEW f \in held, NEW nx \in BOOLEAN,
         Finish(Path(pml4, free, va), va, f, nx), tlb' \subseteq tlb
  PROVE  IInv' /\ ViewStep
<1>1. PICK w : w = Path(pml4, free, va)
  OBVIOUS
<1>2. w.free \subseteq free
  BY <1>1, FreeLeft
<1>3. /\ free' = w.free /\ spaces' = spaces /\ cr3' = cr3 /\ kernel_space' = kernel_space
      /\ lost' = lost /\ halted' = halted
      /\ \/ w.at # 0 /\ tables' = SetLeaf(w, va, Entry(f, nx)) /\ held' = held \ {f}
         \/ tables' = w.tb /\ held' = held
  BY <1>1 DEF Finish
<1>4. f \in Spare /\ f \notin free
  BY StateFacts DEF Spare
<1>5. (free \cap held = {} /\ lost \cap (free \cup held) = {})'
  BY <1>2, <1>3, StateFacts
<1>6. halted' \in BOOLEAN
  BY <1>3, StateFacts
<1>7. CASE w.at # 0 /\ tables' = SetLeaf(w, va, Entry(f, nx)) /\ held' = held \ {f}
  <2>1. (free \cup held \cup lost)' = (Spare \ (free \ w.free)) \ {f}
    BY <1>2, <1>3, <1>7, StateFacts DEF Spare
  <2> QED BY <1>1, <1>3, <1>4, <1>5, <1>6, <1>7, <2>1, MapStep
<1>8. CASE tables' = w.tb /\ held' = held
  <2>1. (free \cup held \cup lost)' = Spare \ (free \ w.free)
    BY <1>2, <1>3, <1>8, StateFacts DEF Spare
  <2> QED BY <1>1, <1>3, <1>4, <1>5, <1>6, <1>8, <2>1, MapStep
<1> QED BY <1>3, <1>7, <1>8

(* invlpg only removes translations.                                       *)
LEMMA InvalidateFacts == \A va : paging_invalidate_tlb(va) \subseteq tlb
BY DEF paging_invalidate_tlb

(* A fault on a heap page, in its three outcomes.                          *)
LEMMA FaultStep ==
  ASSUME IInv, NEW va \in HeapPages, handle_page_fault(va)
  PROVE  Inv' /\ ViewStep
<1>1. PICK f, frames, w, nx : /\ f = Lowest(free) /\ frames = free \ {f}
                              /\ w = Path(cr3, frames, va) /\ nx = FALSE
  OBVIOUS
<1>2. va \in VirtualPages /\ Leaf(tables, cr3, va) = Absent
  BY AddressSpaceAssumption DEF handle_page_fault
<1>3. /\ kernel_space' = kernel_space /\ spaces' = spaces /\ cr3' = cr3
      /\ held' = held /\ lost' = lost
      /\ \/ /\ free # {} /\ w.at # 0 /\ free' = w.free
            /\ tables' = SetLeaf(w, va, Entry(f, nx))
            /\ tlb' = paging_invalidate_tlb(va) /\ halted' = halted
         \/ /\ free # {} /\ free' = w.free /\ tables' = w.tb
            /\ halted' = TRUE /\ tlb' = tlb
         \/ /\ free' = free /\ tables' = tables /\ tlb' = tlb
            /\ halted' = TRUE
  BY <1>1 DEF handle_page_fault
<1>4. free # {} => f \in free
  BY <1>1, StateFacts, LowestIn
<1>5. w.free \subseteq frames /\ frames \in SUBSET free
  BY <1>1, <1>2, StateFacts, FreeLeft
<1>6. tlb' \subseteq tlb /\ halted' \in BOOLEAN
  BY <1>3, StateFacts, InvalidateFacts
<1>7. (free \cap held = {} /\ lost \cap (free \cup held) = {})'
  BY <1>1, <1>3, <1>4, <1>5, StateFacts
<1>7a. /\ kernel_space' = kernel_space /\ spaces' = spaces /\ cr3' = cr3
       /\ w = Path(cr3, frames, va)
  BY <1>1, <1>3
<1>8. CASE /\ free # {} /\ w.at # 0 /\ free' = w.free
           /\ tables' = SetLeaf(w, va, Entry(f, nx))
  <2>1. (free \cup held \cup lost)' = (Spare \ (frames \ w.free)) \ {f}
    BY <1>1, <1>3, <1>4, <1>5, <1>8, StateFacts DEF Spare
  <2>2. f \in Spare /\ f \notin frames /\ cr3 \in spaces /\ nx \in BOOLEAN
    BY <1>1, <1>4, <1>8, StateFacts DEF Spare
  <2>3. IInv' /\ ViewStep
    BY <1>2, <1>5, <1>6, <1>7, <1>7a, <1>8, <2>1, <2>2, MapStep
  <2> QED BY <2>3 DEF Inv
<1>9. CASE free # {} /\ free' = w.free /\ tables' = w.tb /\ halted' = TRUE
  <2>1. (free \cup held \cup lost)' \cup {f} = Spare \ (frames \ w.free)
    BY <1>1, <1>3, <1>4, <1>5, <1>9, StateFacts DEF Spare
  <2>2. f \in Frames /\ cr3 \in spaces /\ frames \in SUBSET Frames /\ frames \subseteq Spare
        /\ Spare \subseteq Frames
    BY <1>1, <1>4, <1>5, <1>9, StateFacts DEF Spare
  <2>3. PICK level : Sound(tables, spaces, Spare, level)
    BY StateFacts
  <2>4. PathMade(w, cr3, va, frames, Spare)
    BY <1>2, <1>7a, <2>2, <2>3, PathFacts
  <2>5. /\ \E ln : Sound(w.tb, spaces, Spare \ (frames \ w.free), ln)
        /\ MapsOne(w.tb, cr3, va)
        /\ \A s \in spaces, vb \in VirtualPages : Leaf(w.tb, s, vb) = Leaf(tables, s, vb)
    BY <2>4 DEF PathMade, WalkSound, MapsOne
  <2>6. ViewStep
    BY <1>7a, <1>9, <2>5 DEF ViewStep, Kept, SamePages
  <2>7. PICK ln : Sound(tables', spaces', (free \cup held \cup lost)' \cup {f}, ln)
    BY <1>7a, <1>9, <2>1, <2>5
  <2>8. (free \cup held \cup lost)' \subseteq Frames
    BY <2>1, <2>2
  <2>9. MapsOne(tables', cr3, va)
    BY <1>9, <2>5
  <2>10. /\ \A e \in tlb' : Leaf(tables', cr3', e[1]).frame = e[2]
         /\ cr3' \in spaces' /\ tlb' \subseteq VirtualPages \X Frames
    BY <1>2, <1>6, <1>7a, <2>2, <2>9, MapsOneFacts
  <2>11. Sane({f})'
    BY <1>6, <1>7, <1>7a, <2>7, <2>8, <2>10, SaneStep
  <2> QED BY <1>9, <2>2, <2>6, <2>11 DEF Inv
<1>10. CASE free' = free /\ tables' = tables /\ tlb' = tlb
  <2>1. PICK level : Sound(tables, spaces, Spare, level)
    BY StateFacts
  <2>2. (free \cup held \cup lost)' = Spare
    BY <1>3, <1>10 DEF Spare
  <2>3. Sound(tables', spaces', (free \cup held \cup lost)', level)
    BY <1>3, <1>10, <2>1, <2>2
  <2>4. (free \cup held \cup lost)' \subseteq Frames
    BY <2>2, StateFacts DEF Spare
  <2>5. /\ cr3' \in spaces' /\ tlb' \subseteq VirtualPages \X Frames
        /\ \A e \in tlb' : Leaf(tables', cr3', e[1]).frame = e[2]
    BY <1>3, <1>10, StateFacts
  <2>6. IInv'
    BY <1>3, <1>6, <1>7, <2>3, <2>4, <2>5, StepFacts
  <2>7. ViewStep
    BY <1>3, <1>10 DEF ViewStep, Kept, SamePages
  <2> QED BY <2>6, <2>7 DEF Inv
<1> QED BY <1>3, <1>8, <1>9, <1>10

(* A round of heap_init, in its two outcomes.                              *)
LEMMA HeapInitStep ==
  ASSUME IInv, NEW va \in HeapPages, heap_init(va)
  PROVE  IInv' /\ ViewStep
<1> DEFINE f == Lowest(free)
<1>1. PICK frames, w, nx : frames = free \ {f} /\ w = Path(cr3, frames, va) /\ nx = FALSE
  OBVIOUS
<1>2. /\ va \in VirtualPages /\ Leaf(tables, cr3, va) = Absent /\ free # {}
      /\ nx \in BOOLEAN
  BY <1>1, AddressSpaceAssumption DEF heap_init
<1>3. /\ kernel_space' = kernel_space /\ spaces' = spaces /\ cr3' = cr3 /\ held' = held
      /\ lost' = lost /\ halted' = halted
      /\ \/ /\ w.at # 0 /\ free' = w.free
            /\ tables' = SetLeaf(w, va, Entry(f, nx))
            /\ tlb' = paging_invalidate_tlb(va)
         \/ /\ free' = w.free \cup {f} /\ tables' = w.tb /\ tlb' = tlb
  BY <1>1 DEF heap_init
<1>4. f \in free
  BY <1>2, StateFacts, LowestIn
<1> HIDE DEF f
<1>5. w.free \subseteq frames /\ frames \in SUBSET free /\ cr3 \in spaces
  BY <1>1, <1>2, StateFacts, FreeLeft
<1>6. tlb' \subseteq tlb /\ halted' \in BOOLEAN
  BY <1>3, StateFacts, InvalidateFacts
<1>7. (free \cap held = {} /\ lost \cap (free \cup held) = {})'
  BY <1>1, <1>3, <1>4, <1>5, StateFacts
<1>8. f \in Spare /\ f \notin frames
  BY <1>1, <1>4 DEF Spare
<1>8a. /\ kernel_space' = kernel_space /\ spaces' = spaces /\ cr3' = cr3
       /\ w = Path(cr3, frames, va)
  BY <1>1, <1>3
<1>9. CASE w.at # 0 /\ free' = w.free /\ tables' = SetLeaf(w, va, Entry(f, nx))
  <2>1. (free \cup held \cup lost)' = (Spare \ (frames \ w.free)) \ {f}
    BY <1>1, <1>3, <1>4, <1>5, <1>9, StateFacts DEF Spare
  <2> QED BY <1>2, <1>5, <1>6, <1>7, <1>8, <1>8a, <1>9, <2>1, MapStep
<1>10. CASE free' = w.free \cup {f} /\ tables' = w.tb
  <2>1. (free \cup held \cup lost)' = Spare \ (frames \ w.free)
    BY <1>1, <1>3, <1>4, <1>5, <1>10, StateFacts DEF Spare
  <2> QED BY <1>2, <1>5, <1>6, <1>7, <1>8, <1>8a, <1>10, <2>1, MapStep
<1> QED BY <1>3, <1>9, <1>10

(* The frame of one entry goes back, or is forgotten.                      *)
LEMMA ReturnedOne ==
  ASSUME NEW e \in Entries, e # Absent
  PROVE  /\ Returned({e}) \cup Forgotten({e}) = {e.frame}
         /\ Returned({e}) \cap Forgotten({e}) = {}
<1>1. e.nx \in BOOLEAN
  BY DEF Entries
<1>2. CASE e.nx
  <2>1. Returned({e}) = {} /\ Forgotten({e}) = {e.frame}
    BY <1>2 DEF Returned, Forgotten
  <2> QED BY <2>1
<1>3. CASE ~e.nx
  <2>1. Returned({e}) = {e.frame} /\ Forgotten({e}) = {}
    BY <1>3 DEF Returned, Forgotten
  <2> QED BY <2>1
<1> QED BY <1>2, <1>3

(* paging_unmap_page withdraws one page and its translations.              *)
LEMMA UnmapStep ==
  ASSUME IInv, NEW va \in VirtualPages, paging_unmap_page(va)
  PROVE  IInv' /\ ViewStep
<1>1. PICK level : Sound(tables, spaces, Spare, level)
  BY StateFacts
<1>2. PICK p, e : p = PageTable(tables, cr3, va) /\ e = Leaf(tables, cr3, va)
  OBVIOUS
<1>3. /\ e # Absent
      /\ tables' = [tables EXCEPT ![p][va[4]] = Absent]
      /\ free' = free \cup Returned({e}) /\ lost' = lost \cup Forgotten({e})
      /\ tlb' = {d \in tlb : d[1] # va}
      /\ kernel_space' = kernel_space /\ spaces' = spaces /\ cr3' = cr3
      /\ held' = held /\ halted' = halted
  BY <1>2 DEF paging_unmap_page, ClearLeaf, paging_invalidate_tlb
<1>4. cr3 \in spaces /\ va[4] \in Index /\ va = <<va[1], va[2], va[3], va[4]>>
  BY StateFacts, PageFacts
<1>5. p # 0 /\ tables[p][va[4]] = e
  BY <1>2, <1>3 DEF Leaf, Present
<1>6. p \in DOMAIN tables /\ level[p] = 1
  BY <1>1, <1>2, <1>4, <1>5, WalkFacts
<1>7. /\ Sound([tables EXCEPT ![p][va[4]] = Absent], spaces, Spare \cup {e.frame}, level)
      /\ e.frame \in Frames \ Spare
  <2>1. PICK tb, sp, spare, i : tb = tables /\ sp = spaces /\ spare = Spare /\ i = va[4]
    OBVIOUS
  <2>2. /\ Sound(tb, sp, spare, level) /\ p \in DOMAIN tb /\ level[p] = 1
        /\ i \in Index /\ tb[p][i] # Absent
    BY <2>1, <1>1, <1>3, <1>4, <1>5, <1>6
  <2>3. /\ Sound([tb EXCEPT ![p][i] = Absent], sp, spare \cup {tb[p][i].frame}, level)
        /\ tb[p][i].frame \in Frames \ spare
    BY <2>2, UnmapSound
  <2> QED BY <2>1, <2>3, <1>5
<1>8. e \in Entries
  BY <1>1, <1>4, <1>5, <1>6, TableEntry
<1>9. /\ Returned({e}) \cup Forgotten({e}) = {e.frame}
      /\ Returned({e}) \cap Forgotten({e}) = {}
  BY <1>3, <1>8, ReturnedOne
<1>10. (free \cup held \cup lost)' = Spare \cup {e.frame}
  BY <1>3, <1>9 DEF Spare
<1>11. Sound(tables', spaces', (free \cup held \cup lost)', level)
  BY <1>3, <1>7, <1>10
<1>12. (free \cap held = {} /\ lost \cap (free \cup held) = {})'
  BY <1>3, <1>7, <1>9, StateFacts DEF Spare
<1>13. (free \cup held \cup lost)' \subseteq Frames
  BY <1>7, <1>10, StateFacts DEF Spare
<1>14. ASSUME NEW u \in spaces, NEW vb \in VirtualPages
       PROVE  Leaf(tables', u, vb) = IF vb = va /\ (u = cr3 \/ va[1] \in KernelHalf)
                                     THEN Absent ELSE Leaf(tables, u, vb)
  <2>0. Absent \in Entries
    BY DEF Entries
  <2>1. PICK tn : tn = tables'
    OBVIOUS
  <2>2. Leaf(tn, u, vb) = IF PageTable(tables, u, vb) = p /\ vb[4] = va[4]
                            THEN Absent ELSE Leaf(tables, u, vb)
    <3>1. PICK tb, sp, spare, i : tb = tables /\ sp = spaces /\ spare = Spare /\ i = va[4]
      OBVIOUS
    <3>2. /\ Sound(tb, sp, spare, level) /\ p \in DOMAIN tb /\ level[p] = 1
          /\ i \in Index /\ u \in sp
      BY <3>1, <1>1, <1>4, <1>6
    <3>3. Leaf([tb EXCEPT ![p][i] = Absent], u, vb) =
            IF PageTable(tb, u, vb) = p /\ vb[4] = i THEN Absent ELSE Leaf(tb, u, vb)
      BY <2>0, <3>2, EntryChangeWalks
    <3> QED BY <2>1, <3>1, <3>3, <1>3
  <2>3. CASE vb = va /\ (u = cr3 \/ va[1] \in KernelHalf)
    <3>1. PageTable(tables, u, va) = p
      BY <1>1, <1>2, <1>4, <2>3, KernelWalks
    <3> QED BY <2>1, <2>2, <2>3, <3>1
  <2>4. CASE ~(vb = va /\ (u = cr3 \/ va[1] \in KernelHalf))
    <3>1. ~(PageTable(tables, u, vb) = p /\ vb[4] = va[4])
      <4> SUFFICES ASSUME PageTable(tables, u, vb) = p, vb[4] = va[4] PROVE FALSE
        OBVIOUS
      <4>1. /\ va[1] = vb[1] /\ va[2] = vb[2] /\ va[3] = vb[3]
            /\ cr3 = u \/ va[1] \in KernelHalf
        BY <1>1, <1>2, <1>4, <1>5, SameTable
      <4>2. vb = va
        BY <4>1, <1>4, PageFacts
      <4> QED BY <2>4, <4>1, <4>2
    <3> QED BY <2>1, <2>2, <2>4, <3>1
  <2> QED BY <2>3, <2>4
<1>15. ASSUME NEW d \in tlb' PROVE Leaf(tables', cr3', d[1]).frame = d[2]
  <2>1. d \in tlb /\ d[1] # va
    BY <1>3
  <2>2. d[1] \in VirtualPages /\ Leaf(tables, cr3, d[1]).frame = d[2]
    BY <2>1, StateFacts
  <2> QED BY <2>1, <2>2, <1>3, <1>4, <1>14
<1>16. cr3' \in spaces' /\ tlb' \subseteq VirtualPages \X Frames /\ halted' \in BOOLEAN
  BY <1>3, StateFacts
<1>17. kernel_space' = kernel_space
  BY <1>3
<1>18. IInv'
  BY <1>11, <1>12, <1>13, <1>15, <1>16, <1>17, StepFacts
<1>19. Withdrawn(va)
  BY <1>2, <1>3, <1>14 DEF Withdrawn, Reads
<1>20. ViewStep
  BY <1>19 DEF ViewStep
<1> QED BY <1>18, <1>20

(* vmm_map_page invalidates nothing: what it maps was not mapped, so not   *)
(* cached.                                                                 *)
LEMMA MapPageStep ==
  ASSUME IInv, NEW pml4 \in spaces, NEW va \in VirtualPages,
         NEW f \in held, NEW nx \in BOOLEAN, vmm_map_page(pml4, va, f, nx)
  PROVE  IInv' /\ ViewStep
<1>1. /\ Leaf(tables, pml4, va) = Absent /\ tlb' \subseteq tlb
      /\ Finish(Path(pml4, free, va), va, f, nx)
  BY DEF vmm_map_page
<1> QED BY <1>1, FinishStep

(* paging_map_page, in the space the processor runs on.                    *)
LEMMA PagingMapStep ==
  ASSUME IInv, NEW va \in VirtualPages,
         NEW f \in held, NEW nx \in BOOLEAN, paging_map_page(va, f, nx)
  PROVE  IInv' /\ ViewStep
<1>1. /\ Leaf(tables, cr3, va) = Absent /\ tlb' \subseteq tlb
      /\ Finish(Path(cr3, free, va), va, f, nx)
  BY InvalidateFacts DEF paging_map_page
<1>2. cr3 \in spaces
  BY StateFacts
<1> QED BY <1>1, <1>2, FinishStep

(* Every step of the running processor keeps the invariant, and does one   *)
(* thing to the pages.                                                     *)
LEMMA NextStep == IInv /\ Next => Inv' /\ ViewStep
<1> SUFFICES ASSUME IInv, Next PROVE Inv' /\ ViewStep
  OBVIOUS
<1>1. CASE pmm_alloc_page
  BY <1>1, AllocStep DEF Inv
<1>2. ASSUME NEW f \in held, pmm_free_page(f)
      PROVE  Inv' /\ ViewStep
  BY <1>2, FreeStep DEF Inv
<1>3. CASE vmm_create_space
  BY <1>3, CreateStep DEF Inv
<1>4. ASSUME NEW pml4 \in spaces, vmm_destroy_space(pml4)
      PROVE  Inv' /\ ViewStep
  BY <1>4, DestroyStep DEF Inv
<1>5. ASSUME NEW pml4 \in spaces, vmm_switch_space(pml4)
      PROVE  Inv' /\ ViewStep
  BY <1>5, SwitchStep DEF Inv
<1>6. ASSUME NEW va \in VirtualPages, NEW f \in held, NEW nx \in BOOLEAN,
             NEW pml4 \in spaces, vmm_map_page(pml4, va, f, nx)
      PROVE  Inv' /\ ViewStep
  BY <1>6, MapPageStep DEF Inv
<1>7. ASSUME NEW va \in VirtualPages, NEW f \in held, NEW nx \in BOOLEAN,
             paging_map_page(va, f, nx)
      PROVE  Inv' /\ ViewStep
  BY <1>7, PagingMapStep DEF Inv
<1>8. ASSUME NEW va \in VirtualPages, paging_unmap_page(va)
      PROVE  Inv' /\ ViewStep
  BY <1>8, UnmapStep DEF Inv
<1>9. ASSUME NEW va \in VirtualPages, Translate(va)
      PROVE  Inv' /\ ViewStep
  BY <1>9, TranslateStep DEF Inv
<1>10. ASSUME NEW va \in HeapPages, handle_page_fault(va)
       PROVE  Inv' /\ ViewStep
  BY <1>10, FaultStep
<1>11. ASSUME NEW va \in HeapPages, heap_init(va)
       PROVE  Inv' /\ ViewStep
  BY <1>11, HeapInitStep DEF Inv
<1> QED BY <1>1, <1>2, <1>3, <1>4, <1>5, <1>6, <1>7, <1>8, <1>9, <1>10, <1>11
        DEF Next

(* A step that changes nothing keeps the invariant.                        *)
LEMMA StutterStep == Inv /\ UNCHANGED vars => Inv'
<1> SUFFICES ASSUME Inv, UNCHANGED vars PROVE Inv'
  OBVIOUS
<1>1. /\ tables' = tables /\ kernel_space' = kernel_space /\ spaces' = spaces
      /\ cr3' = cr3 /\ tlb' = tlb /\ free' = free /\ held' = held /\ lost' = lost
      /\ halted' = halted
  BY DEF vars
<1>2. ASSUME NEW gone, Sane(gone) PROVE Sane(gone)'
  BY <1>1, <1>2 DEF Sane, TypeOK, Spare, TlbCoherent
<1>3. CASE IInv
  <2>1. Sane({})'
    BY <1>2, <1>3 DEF IInv
  <2> QED BY <2>1 DEF IInv, Inv
<1>4. CASE halted /\ \E f \in Frames : Sane({f})
  <2>1. PICK f \in Frames : Sane({f})
    BY <1>4
  <2>2. Sane({f})'
    BY <1>2, <2>1
  <2> QED BY <1>1, <1>4, <2>2 DEF Inv
<1> QED BY <1>3, <1>4 DEF Inv

(* The processor that has lost a frame has halted: it makes no step.       *)
LEMMA RunningStep == Inv /\ Next => IInv
BY DEF Inv, Next

-----------------------------------------------------------------------------
(* What the invariant says.                                                *)

(* OneRole's references are the invariant's, as the boot space is          *)
(* kernel_space.                                                           *)
LEMMA ReferencesFacts ==
  ASSUME kernel_space = Boot.pml4, NEW f
  PROVE  \A ti : ti \in References(f) <=>
           /\ ti \in (DOMAIN tables) \X Index
           /\ Refers(tables, spaces, ti[1], ti[2], f)
BY DEF References, Refers

(* One entry each, by Unique and Placed.                                   *)
LEMMA RolesFromSane ==
  ASSUME NEW gone, Sane(gone)
  PROVE  OneRole /\ Gone \subseteq gone
<1>1. PICK level : Sound(tables, spaces, Spare \cup gone, level)
  BY DEF Sane
<1>1a. /\ spaces \subseteq DOMAIN tables /\ DOMAIN tables \subseteq Frames
       /\ free \subseteq Frames /\ held \subseteq Frames /\ lost \subseteq Frames
       /\ free \cap held = {} /\ lost \cap (free \cup held) = {}
       /\ kernel_space = Boot.pml4
  BY DEF Sane, TypeOK
<1>2. ASSUME NEW f \in Frames PROVE Cardinality(References(f)) <= 1
  <2>1. CASE References(f) = {}
    <3>1. Cardinality(References(f)) = 0
      BY <2>1, FS_EmptySet
    <3> QED BY <3>1
  <2>2. CASE References(f) # {}
    <3>1. PICK ti : ti \in References(f)
      BY <2>2
    <3>2. ASSUME NEW uj \in References(f) PROVE uj = ti
      <4>1. /\ ti \in (DOMAIN tables) \X Index /\ uj \in (DOMAIN tables) \X Index
            /\ Refers(tables, spaces, ti[1], ti[2], f)
            /\ Refers(tables, spaces, uj[1], uj[2], f)
        BY <1>1a, <3>1, <3>2, ReferencesFacts
      <4>2. uj[1] = ti[1] /\ uj[2] = ti[2]
        BY <1>1, <4>1 DEF Sound, Unique
      <4> QED BY <4>1, <4>2
    <3>3. References(f) = {ti}
      BY <3>1, <3>2
    <3>4. Cardinality({ti}) = 1
      BY FS_Singleton
    <3> QED BY <3>3, <3>4
  <2> QED BY <2>1, <2>2
<1>3. ASSUME NEW f \in free \cup held \cup lost
      PROVE  References(f) = {} /\ f \notin DOMAIN tables
  <2>1. f \in Spare /\ f \in Frames
    BY <1>1a DEF Spare
  <2>2. f \notin DOMAIN tables /\ \A t \in DOMAIN tables, i \in Index :
                                     ~Refers(tables, spaces, t, i, f)
    BY <1>1, <2>1 DEF Sound, Placed
  <2> QED BY <1>1a, <2>2, ReferencesFacts
<1>4. ASSUME NEW f \in spaces PROVE References(f) = {}
  <2> SUFFICES ASSUME NEW ti \in References(f) PROVE FALSE
    OBVIOUS
  <2>1. /\ ti[1] \in DOMAIN tables /\ ti[2] \in Index /\ tables[ti[1]][ti[2]].frame = f
    BY <1>1a, ReferencesFacts DEF Refers
  <2>2. f \in DOMAIN tables /\ f \in Frames /\ f # 0 /\ level[f] = 4
    BY <1>1, <1>1a, AddressSpaceAssumption DEF Sound, Levels
  <2>3. tables[ti[1]][ti[2]] # Absent
    BY <2>1, <2>2 DEF Absent
  <2>4. level[ti[1]] \in 1 .. 4
    BY <1>1, <2>1, TableEntry
  <2>5. level[ti[1]] # 1 /\ level[f] = level[ti[1]] - 1
    BY <1>1, <2>1, <2>2, <2>3 DEF Sound, Levels
  <2> QED BY <2>2, <2>4, <2>5
<1>5. OneRole
  BY <1>1a, <1>2, <1>3, <1>4 DEF OneRole
<1>6. ASSUME NEW f \in Frames \ (free \cup held \cup lost \cup spaces), f \notin gone
      PROVE  References(f) # {}
  <2>1. PICK t \in DOMAIN tables, i \in Index : Refers(tables, spaces, t, i, f)
    BY <1>1, <1>6 DEF Sound, Placed, Spare
  <2>2. <<t, i>> \in (DOMAIN tables) \X Index /\ <<t, i>>[1] = t /\ <<t, i>>[2] = i
    OBVIOUS
  <2>3. <<t, i>> \in References(f)
    BY <1>1a, <2>1, <2>2, ReferencesFacts
  <2> QED BY <2>3
<1>7. Gone \subseteq gone
  BY <1>6 DEF Gone
<1> QED BY <1>5, <1>7

(* The kernel half of every pml4 is the boot one: the walks join at once.  *)
LEMMA KernelFromSane ==
  ASSUME NEW gone, Sane(gone)
  PROVE  KernelViewAgrees
<1>1. PICK level : Sound(tables, spaces, Spare \cup gone, level)
  BY DEF Sane
<1>2. kernel_space \in spaces
  BY DEF Sane, TypeOK
<1> QED BY <1>1, <1>2, KernelWalks DEF KernelViewAgrees

(* Running or halted, the state is sound but for at most one frame.        *)
LEMMA InvFacts ==
  Inv => TypeOK /\ OneRole /\ NoLeak /\ KernelViewAgrees /\ TlbCoherent
<1> SUFFICES ASSUME Inv
             PROVE  TypeOK /\ OneRole /\ NoLeak /\ KernelViewAgrees /\ TlbCoherent
  OBVIOUS
<1>1. ASSUME NEW gone, Sane(gone)
      PROVE  /\ TypeOK /\ OneRole /\ KernelViewAgrees /\ TlbCoherent
             /\ Gone \subseteq gone
  <2>1. TypeOK /\ TlbCoherent
    BY <1>1 DEF Sane
  <2> QED BY <1>1, <2>1, RolesFromSane, KernelFromSane
<1>2. CASE IInv
  <2>1. /\ TypeOK /\ OneRole /\ KernelViewAgrees /\ TlbCoherent
        /\ Gone \subseteq {}
    BY <1>1, <1>2 DEF IInv
  <2> QED BY <2>1 DEF NoLeak
<1>3. CASE halted /\ \E f \in Frames : Sane({f})
  <2>1. PICK f \in Frames : Sane({f})
    BY <1>3
  <2>2. /\ TypeOK /\ OneRole /\ KernelViewAgrees /\ TlbCoherent
        /\ Gone \subseteq {f}
    BY <1>1, <2>1
  <2>3. Cardinality({f}) = 1
    BY FS_Singleton
  <2>4. Gone = {} \/ Gone = {f}
    BY <2>2
  <2> QED BY <1>3, <2>2, <2>3, <2>4 DEF NoLeak
<1> QED BY <1>2, <1>3 DEF Inv

(* The tables of every space are trees of four levels whose frames have    *)
(* one place each, and the kernel's half is the boot space's: this holds   *)
(* initially and every operation of paging.c, vmm.c and their callers      *)
(* keeps it.                                                               *)
THEOREM AddressSpaceInvariant == Spec => []Inv
<1>1. Init => Inv
  BY InitIInv DEF Inv
<1>2. Inv /\ [Next]_vars => Inv'
  BY NextStep, RunningStep, StutterStep
<1> QED BY <1>1, <1>2, PTL DEF Spec

(* The tables, the spaces and the cached translations have their types:    *)
(* the spaces are tables in use, and the processor walks one of them.      *)
THEOREM AddressSpaceTypes == Spec => []TypeOK
<1>1. Inv => TypeOK
  BY InvFacts
<1> QED BY AddressSpaceInvariant, <1>1, PTL

(* A frame of the arena has one role: free, held by a caller, the top of a *)
(* space or behind one entry of one table.  So no frame is granted while a *)
(* table refers to it, and vmm_destroy_space gives none back twice.        *)
THEOREM FramesHaveOneRole == Spec => []OneRole
<1>1. Inv => OneRole
  BY InvFacts
<1> QED BY AddressSpaceInvariant, <1>1, PTL

(* A frame that is not free, held or a space's top is behind an entry, so  *)
(* a later vmm_destroy_space or paging_unmap_page finds it.  The frames    *)
(* lost are those of no-execute pages that were unmapped and, once the     *)
(* processor has halted, the one of the heap fault that halted it.         *)
THEOREM FramesAreNotLost == Spec => []NoLeak
<1>1. Inv => NoLeak
  BY InvFacts
<1> QED BY AddressSpaceInvariant, <1>1, PTL

(* Every space translates the kernel's half as the boot space does: what   *)
(* vmm_map_kernel copied is never out of date.                             *)
THEOREM KernelViewsAgree == Spec => []KernelViewAgrees
<1>1. Inv => KernelViewAgrees
  BY InvFacts
<1> QED BY AddressSpaceInvariant, <1>1, PTL

(* The processor holds no translation that the tables it walks have        *)
(* withdrawn: every change of a cached page invalidates it.                *)
THEOREM TranslationsAreCurrent == Spec => []TlbCoherent
<1>1. Inv => TlbCoherent
  BY InvFacts
<1> QED BY AddressSpaceInvariant, <1>1, PTL

-----------------------------------------------------------------------------
(* The spaces as their users see them.                                     *)

(* A spare frame has no role in the pages: it is the top of no space, and  *)
(* behind no page, as page tables hold no copies of kernel entries.        *)
LEMMA SparesUnused ==
  ASSUME IInv, NEW f \in Spare
  PROVE  f \in Frames \ Paging!InUse
<1>1. PICK level : Sound(tables, spaces, Spare, level)
  BY StateFacts
<1>2. f \in Frames /\ f # 0
  BY StateFacts, AddressSpaceAssumption DEF Spare
<1>3. f \notin DOMAIN tables
      /\ \A t \in DOMAIN tables, i \in Index : ~Refers(tables, spaces, t, i, f)
  BY <1>1, <1>2 DEF Sound, Placed
<1>4. f \notin spaces
  BY <1>3, StateFacts
<1>5. ASSUME NEW s \in spaces, NEW va \in VirtualPages
      PROVE  Leaf(tables, s, va).frame # f
  <2>1. CASE Leaf(tables, s, va) = Absent
    BY <1>2, <2>1 DEF Absent
  <2>2. CASE Leaf(tables, s, va) # Absent
    <3>1. PICK t : t = PageTable(tables, s, va)
      OBVIOUS
    <3>2. t # 0 /\ Leaf(tables, s, va) = tables[t][va[4]]
      BY <2>2, <3>1 DEF Leaf, Present
    <3>3. t \in DOMAIN tables /\ level[t] = 1 /\ va[4] \in Index
      BY <1>1, <3>1, <3>2, WalkFacts, PageFacts
    <3>4. t \notin spaces
      BY <1>1, <3>3 DEF Sound, Levels
    <3>5. ~Refers(tables, spaces, t, va[4], f)
      BY <1>3, <3>3
    <3> QED BY <3>2, <3>3, <3>4, <3>5 DEF Refers
  <2> QED BY <2>1, <2>2
<1>6. f \notin DOMAIN View
  BY <1>4 DEF View
<1>7. f \notin Paging!FramesBehind(View)
  <2> SUFFICES ASSUME f \in Paging!FramesBehind(View) PROVE FALSE
    OBVIOUS
  <2>1. PICK pages \in Paging!Range(View) : \E e \in Paging!Range(pages) : e.frame = f
    BY DEF Paging!FramesBehind
  <2>2. PICK s \in spaces : pages = [va \in VirtualPages |-> Leaf(tables, s, va)]
    BY <2>1 DEF Paging!Range, View
  <2>3. PICK va \in VirtualPages : Leaf(tables, s, va).frame = f
    BY <2>1, <2>2 DEF Paging!Range
  <2> QED BY <1>5, <2>3
<1> QED BY <1>2, <1>6, <1>7 DEF Paging!InUse

(* At boot no page is mapped: a table the boot loader leaves refers to     *)
(* tables only, and a page table to none.                                  *)
LEMMA InitView == Init => Paging!MemoryInit
<1> SUFFICES ASSUME Init PROVE Paging!MemoryInit
  OBVIOUS
<1>1. tables = Boot.tables /\ spaces = {Boot.pml4} /\ cr3 = Boot.pml4
  BY DEF Init
<1>2. PICK level : Sound(tables, spaces, Spare, level)
  BY InitIInv, StateFacts
<1>3. ASSUME NEW t \in DOMAIN tables, NEW i \in Index, tables[t][i] # Absent
      PROVE  tables[t][i].frame \in DOMAIN tables
  <2>1. \A f \in Frames \ DOMAIN tables : ~Refers(tables, spaces, t, i, f)
    BY <1>1, <1>2 DEF Sound, Placed, Spare, Init
  <2>2. tables[t][i].frame \in Frames /\ Refers(tables, spaces, t, i, tables[t][i].frame)
    BY <1>1, <1>2, <1>3, TableEntry DEF Refers
  <2> QED BY <2>1, <2>2
<1>4. ASSUME NEW s \in spaces, NEW va \in VirtualPages PROVE Leaf(tables, s, va) = Absent
  <2> SUFFICES ASSUME Leaf(tables, s, va) # Absent PROVE FALSE
    OBVIOUS
  <2>1. PICK t : t = PageTable(tables, s, va)
    OBVIOUS
  <2>2. t # 0 /\ tables[t][va[4]] # Absent
    BY <2>1 DEF Leaf, Present
  <2>3. t \in DOMAIN tables /\ level[t] = 1 /\ va[4] \in Index
    BY <1>2, <2>1, <2>2, WalkFacts, PageFacts
  <2>4. tables[t][va[4]].frame \notin DOMAIN tables
    BY <1>2, <2>2, <2>3 DEF Sound, Levels
  <2> QED BY <1>3, <2>2, <2>3, <2>4
<1>5. View = [s \in {Boot.pml4} |-> [va \in VirtualPages |-> Absent]]
  BY <1>1, <1>4 DEF View
<1> QED BY <1>1, <1>5 DEF Paging!MemoryInit, Paging!Unmapped, Absent

(* Each kind of step is an action of the abstract specification.           *)
LEMMA ViewSteps == IInv /\ ViewStep => Paging!MemoryNext
<1> SUFFICES ASSUME IInv, ViewStep PROVE Paging!MemoryNext
  OBVIOUS
<1>0. DOMAIN View = spaces /\ DOMAIN View' = spaces' /\ cr3 \in spaces /\ Boot.pml4 \in spaces
  BY StateFacts DEF View
<1>1. /\ \A s \in spaces, va \in VirtualPages : View[s][va] = Leaf(tables, s, va)
      /\ View = [s \in spaces |-> [va \in VirtualPages |-> View[s][va]]]
      /\ View' = [s \in spaces' |-> [va \in VirtualPages |-> Leaf(tables', s, va)]]
      /\ \A s \in spaces : DOMAIN View[s] = VirtualPages
  BY DEF View
<1>2. CASE Kept
  <2>1. View' = View
    BY <1>1, <1>2 DEF Kept, SamePages, View
  <2> QED BY <1>2, <2>1 DEF Kept, Paging!MemoryNext, Paging!Keep, Paging!memoryVars
<1>3. CASE Switched
  <2>1. View' = View
    BY <1>1, <1>3 DEF Switched, SamePages, View
  <2>2. cr3' \in DOMAIN View /\ Paging!Switch(cr3')
    BY <1>0, <1>3, <2>1 DEF Switched, Paging!Switch
  <2> QED BY <2>2 DEF Paging!MemoryNext
<1>4. ASSUME NEW f \in Spare, Made(f) PROVE Paging!MemoryNext
  <2>1. f \in Frames /\ f \notin Paging!InUse
    BY SparesUnused
  <2>2. f \notin spaces
    BY <1>0, <2>1 DEF Paging!InUse
  <2>3. View' = [u \in DOMAIN View \cup {f} |->
                   IF u # f THEN View[u]
                   ELSE [va \in VirtualPages |->
                           IF va \in {vb \in VirtualPages : vb[1] \in KernelHalf}
                             THEN View[Boot.pml4][va] ELSE Paging!Unmapped]]
    <3>1. \A u \in spaces, va \in VirtualPages : Leaf(tables', u, va) = Leaf(tables, u, va)
      BY <1>4 DEF Made, SamePages
    <3>2. \A va \in VirtualPages :
            Leaf(tables', f, va) = IF va \in {vb \in VirtualPages : vb[1] \in KernelHalf}
                                     THEN View[Boot.pml4][va] ELSE Paging!Unmapped
      BY <1>0, <1>1, <1>4 DEF Made, Paging!Unmapped, Absent
    <3>3. spaces' = spaces \cup {f}
      BY <1>4 DEF Made
    <3>4. PICK new : new = [u \in spaces \cup {f} |->
                              IF u # f THEN View[u]
                              ELSE [va \in VirtualPages |->
                                      IF va \in {vb \in VirtualPages : vb[1] \in KernelHalf}
                                        THEN View[Boot.pml4][va] ELSE Paging!Unmapped]]
      OBVIOUS
    <3>5. ASSUME NEW u \in spaces \cup {f}
          PROVE  new[u] = [va \in VirtualPages |-> Leaf(tables', u, va)]
      <4>1. CASE u = f
        BY <3>2, <3>4, <4>1
      <4>2. CASE u # f
        <5>1. new[u] = [va \in VirtualPages |-> View[u][va]]
          BY <1>1, <3>4, <4>2
        <5>2. \A va \in VirtualPages : View[u][va] = Leaf(tables', u, va)
          BY <1>1, <3>1, <4>2
        <5> QED BY <5>1, <5>2
      <4> QED BY <4>1, <4>2
    <3>6. new = [u \in spaces' |-> [va \in VirtualPages |-> Leaf(tables', u, va)]]
      BY <3>3, <3>4, <3>5
    <3> QED BY <1>0, <1>1, <3>4, <3>6
  <2>4. Paging!Create(f)
    BY <1>4, <2>1, <2>3 DEF Made, Paging!Create
  <2> QED BY <2>1, <2>4 DEF Paging!MemoryNext
<1>5. ASSUME NEW p \in spaces \ {Boot.pml4, cr3}, Ended(p) PROVE Paging!MemoryNext
  <2>1. View' = [u \in DOMAIN View \ {p} |-> View[u]]
    BY <1>0, <1>5 DEF Ended, SamePages, View
  <2>2. p \in DOMAIN View /\ Paging!Destroy(p)
    BY <1>0, <1>5, <2>1 DEF Ended, Paging!Destroy
  <2> QED BY <2>2 DEF Paging!MemoryNext
<1>6. ASSUME NEW s \in spaces, NEW va \in VirtualPages, NEW e,
             spaces' = spaces, Reads(tables', s, va, e)
      PROVE  View' = Paging!With(View, s, va, e)
  <2>0. PICK new : new = Paging!With(View, s, va, e)
    OBVIOUS
  <2>1. new = [u \in spaces |->
                 IF u = s \/ va \in {vb \in VirtualPages : vb[1] \in KernelHalf}
                   THEN [View[u] EXCEPT ![va] = e] ELSE View[u]]
    BY <1>0, <2>0 DEF Paging!With
  <2>2. ASSUME NEW u \in spaces
        PROVE  new[u] = [vb \in VirtualPages |-> Leaf(tables', u, vb)]
    <3>1. \A vb \in VirtualPages :
            Leaf(tables', u, vb) = IF vb = va /\ (u = s \/ va[1] \in KernelHalf) THEN e
                                   ELSE View[u][vb]
      BY <1>1, <1>6 DEF Reads
    <3>2. View[u] = [vb \in VirtualPages |-> View[u][vb]]
      BY DEF View
    <3>3. CASE u = s \/ va[1] \in KernelHalf
      <4>1. new[u] = [vb \in VirtualPages |-> IF vb = va THEN e ELSE View[u][vb]]
        BY <2>1, <3>2, <3>3
      <4> QED BY <3>1, <3>3, <4>1
    <3>4. CASE ~(u = s \/ va[1] \in KernelHalf)
      <4>1. new[u] = [vb \in VirtualPages |-> View[u][vb]]
        BY <2>1, <3>2, <3>4
      <4> QED BY <3>1, <3>4, <4>1
    <3> QED BY <3>3, <3>4
  <2>3. new = [u \in spaces' |-> [vb \in VirtualPages |-> Leaf(tables', u, vb)]]
    BY <1>6, <2>1, <2>2
  <2> QED BY <1>1, <2>0, <2>3
<1>7. ASSUME NEW s \in spaces, NEW va \in VirtualPages, NEW f \in Spare, NEW nx \in BOOLEAN,
             Mapped(s, va, f, nx)
      PROVE  Paging!MemoryNext
  <2>1. f \in Frames \ Paging!InUse
    BY SparesUnused
  <2>2. PICK e : e = Entry(f, nx)
    OBVIOUS
  <2>3. e \in [frame : Frames \ Paging!InUse, nx : BOOLEAN]
    BY <2>1, <2>2 DEF Entry
  <2>4. Reads(tables', s, va, e) /\ spaces' = spaces /\ cr3' = cr3
        /\ View[s][va] = Paging!Unmapped
    BY <1>1, <1>7, <2>2 DEF Mapped, Paging!Unmapped, Absent
  <2>5. View' = Paging!With(View, s, va, e)
    BY <1>6, <2>4
  <2>6. Leaf(tables', s, va) = e
    BY <2>4 DEF Reads
  <2>7. View'[s][va] = e
    BY <1>1, <2>4, <2>6
  <2>8. Paging!Map(s, va)
    BY <2>3, <2>4, <2>5, <2>7 DEF Paging!Map
  <2> QED BY <1>0, <2>8 DEF Paging!MemoryNext
<1>8. ASSUME NEW va \in VirtualPages, Withdrawn(va) PROVE Paging!MemoryNext
  <2>1. View[cr3][va] # Paging!Unmapped /\ spaces' = spaces /\ cr3' = cr3
        /\ Reads(tables', cr3, va, Paging!Unmapped)
    BY <1>0, <1>1, <1>8 DEF Withdrawn, Paging!Unmapped, Absent
  <2>2. View' = Paging!With(View, cr3, va, Paging!Unmapped)
    BY <1>0, <1>6, <2>1
  <2>3. Paging!Unmap(va)
    BY <2>1, <2>2 DEF Paging!Unmap
  <2> QED BY <2>3 DEF Paging!MemoryNext
<1> QED BY <1>2, <1>3, <1>4, <1>5, <1>7, <1>8 DEF ViewStep

(* paging.c and vmm.c implement address spaces of pages: whatever tables   *)
(* an operation makes, fills or gives back, and wherever it stops, it      *)
(* changes no page but its own, in its own space or, of the kernel, in     *)
(* all; it creates or ends one space; and it maps only frames without role.*)
THEOREM PagingRefines == Spec => RefinesVirtualMemory
<1>1. Inv /\ Next => Paging!MemoryNext
  BY RunningStep, NextStep, ViewSteps
<1>2. UNCHANGED vars => UNCHANGED Paging!memoryVars
  BY DEF vars, Paging!memoryVars, View
<1>3. Inv /\ [Next]_vars => [Paging!MemoryNext]_Paging!memoryVars
  BY <1>1, <1>2
<1> QED BY InitView, AddressSpaceInvariant, <1>3, PTL
        DEF Spec, RefinesVirtualMemory, Paging!MemorySpec
=============================================================================
