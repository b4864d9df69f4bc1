------------------------------ MODULE SmpProofs ------------------------------
(* What is proved of SmpStartup, for any number of processors and pages.   *)
EXTENDS SmpStartup, TLAPS, FiniteSetTheorems

-----------------------------------------------------------------------------
(* The inductive invariant.                                                *)

Searching(c) == ap[c].pc \in {"find", "load", "store"}

(* Where an application processor is in ap_entry tells what it has.        *)
HasStack(c) ==
  /\ ap[c].pc \notin {"parked", "returned"}
  /\ ~(Searching(c) /\ ap[c].for = "stack")

Stage(c) ==
  /\ ap[c].pc # "parked" => c \in goto_address
  /\ state[c] = IF ap[c].pc \in {"count", "hlt"} THEN "RUNNING"
                ELSE IF ap[c].pc = "returned" THEN "HALTED" ELSE "UNUSED"
  /\ kernel_stack[c] # 0 <=> HasStack(c)
  /\ gs_base[c] = IF ap[c].pc \in {"gdt", "announce", "count", "hlt"} THEN c ELSE 0
  /\ ap[c].gs = IF ap[c].pc = "gdt" THEN c ELSE 0

(* The registers it has loaded are of pages that were free at the start.   *)
Chosen(c) ==
  /\ ap[c].pc = "find" => ap[c].page >= 1
  /\ ap[c].pc \in {"load", "store"} => ap[c].page \in Pages \ in_use
  /\ ap[c].pc = "store" => in_use \subseteq ap[c].byte
  /\ ap[c].pc \in {"link", "leaf"} => ap[c].table \in Pages \ in_use

ApInv == \A c \in Aps : Stage(c) /\ Chosen(c)

(* What a processor knows of the shared memory while it sets up alone.     *)
Knows(c) ==
  /\ ap[c].pc = "find" => \A p \in Pages : p < ap[c].page => p \in bitmap
  /\ ap[c].pc \in {"load", "store"} => ap[c].page \notin bitmap
  /\ ap[c].pc = "store" => ap[c].byte = bitmap
  /\ (Searching(c) /\ ap[c].for = "table") \/ ap[c].pc = "link" => pt = 0
  /\ ap[c].pc = "link" => /\ ap[c].table \in bitmap
                          /\ \A d \in Aps : kernel_stack[d] # ap[c].table
  /\ ap[c].pc = "leaf" => ap[c].table = pt
  /\ ap[c].pc \in {"gs", "gdt", "announce", "count", "hlt"} =>
       <<pt, kernel_stack[c]>> \in leaves \/ bitmap = Pages
  /\ ap[c].pc = "returned" => bitmap = Pages

(* The stacks and the table are pages of different owners.                 *)
Apart ==
  /\ \A c, d \in Aps : c # d /\ kernel_stack[c] # 0 => kernel_stack[c] # kernel_stack[d]
  /\ \A c \in Aps : kernel_stack[c] # 0 =>
       kernel_stack[c] \in bitmap \ in_use /\ kernel_stack[c] # pt
  /\ pt # 0 => pt \in bitmap

OneAtATime == \A c, d \in Aps : SettingUp(c) /\ SettingUp(d) => c = d

AloneInv == ~overlapped => OneAtATime /\ Apart /\ \A c \in Aps : Knows(c)

(* The loops of the boot processor: it has seen no more processors than    *)
(* there are, nor more than are RUNNING; and when it has not timed out it  *)
(* counts them all.                                                        *)
Running == {c \in Aps : state[c] = "RUNNING"}
Before(i) == IF i > Bsp THEN i - 2 ELSE i - 1

Counting ==
  /\ bsp.pc \in {"release", "poll", "tally"} => bsp.i \in 1 .. N
  /\ bsp.pc \in {"poll", "tally"} =>
       /\ bsp.running <= Before(bsp.i)
       /\ bsp.running <= Cardinality({c \in Running : c < bsp.i})
  /\ bsp.pc \in {"release", "poll"} => bsp.polls = 0 \/ bsp.polls < Timeout
  /\ bsp.pc = "release" => bsp.running = 0
  /\ bsp.pc = "tally" => \/ bsp.polls >= Timeout
                         \/ Running = Aps /\ bsp.running = Before(bsp.i)

(* Each processor adds one to started_count, once.                         *)
Counted == started_count <= N + Cardinality({c \in Aps : ap[c].pc = "hlt"})

IInv ==
  /\ TypeOK /\ ApInv /\ OldPagesSafe /\ AloneInv /\ Counting /\ ReportTrue
  /\ Counted

-----------------------------------------------------------------------------
(* Counting processors.                                                    *)

(* The assumption, in the form the proofs use.                             *)
LEMMA SmpConstants ==
  /\ N \in Nat /\ N >= 1 /\ Bsp \in 1 .. N /\ LastPage \in Nat
  /\ Layouts \subseteq SUBSET Pages /\ Timeout \in Nat /\ MaxCalls \in Nat
  /\ Cpus = 1 .. N /\ Aps = (1 .. N) \ {Bsp} /\ Pages = 1 .. LastPage
  BY SmpAssumption DEF Cpus, Aps, Pages

(* There is one processor fewer to start than there are.                   *)
LEMMA ApCount == IsFiniteSet(Aps) /\ Cardinality(Aps) = N - 1
<1>1. IsFiniteSet(1 .. N) /\ Cardinality(1 .. N) = N
  BY SmpConstants, FS_Interval
<1>2. N \in Nat /\ Bsp \in 1 .. N /\ Aps = (1 .. N) \ {Bsp}
  BY SmpConstants
<1> QED BY <1>1, <1>2, FS_RemoveElement

(* Some of them are at most all.                                           *)
LEMMA SomeAps ==
  ASSUME NEW S, S \subseteq Aps
  PROVE  /\ IsFiniteSet(S) /\ Cardinality(S) \in Nat /\ Cardinality(S) <= N - 1
         /\ Cardinality(S) = N - 1 => S = Aps
<1>1. IsFiniteSet(S) /\ Cardinality(S) <= Cardinality(Aps)
  BY ApCount, FS_Subset
<1>2. Cardinality(S) = Cardinality(Aps) => S = Aps
  BY ApCount, FS_Subset
<1>3. Cardinality(S) \in Nat
  BY <1>1, FS_CardinalityType
<1> QED BY <1>1, <1>2, <1>3, ApCount

-----------------------------------------------------------------------------
(* The steps of an application processor.                                  *)

Registers == [pc : ApSteps, for : {"stack", "table"}, page : 0 .. LastPage + 1,
              byte : SUBSET Pages, table : {0} \cup Pages, gs : {0} \cup Cpus]

(* The registers of a processor in ap_entry.                               *)
LEMMA ApTypes ==
  ASSUME TypeOK, NEW c \in Aps
  PROVE  /\ ap[c] \in Registers /\ c \in Cpus /\ c # Bsp
         /\ ap[c].pc \in ApSteps /\ ap[c].for \in {"stack", "table"}
         /\ ap[c].page \in 0 .. LastPage + 1 /\ ap[c].byte \subseteq Pages
         /\ ap[c].table \in {0} \cup Pages
<1>1. ap[c] \in Registers
  BY DEF TypeOK, Registers
<1> QED BY <1>1, SmpConstants DEF Registers

After(c, pc, for, page, byte, table, gs) ==
  /\ ap' \in [Aps -> Registers]
  /\ ap'[c].pc = pc /\ ap'[c].for = for /\ ap'[c].page = page
  /\ ap'[c].byte = byte /\ ap'[c].table = table /\ ap'[c].gs = gs
  /\ \A d \in Aps \ {c} : ap'[d] = ap[d]

(* A step moves one processor, and its registers keep their types.         *)
LEMMA OneStep ==
  ASSUME TypeOK, NEW c \in Aps, NEW pc \in ApSteps, NEW r \in Registers,
         Step(c, pc, r)
  PROVE  After(c, pc, r.for, r.page, r.byte, r.table, r.gs)
<1>1. ap \in [Aps -> Registers]
  BY DEF TypeOK, Registers
<1>2. [r EXCEPT !.pc = pc] \in Registers
  BY DEF Registers
<1>3. ap'[c] = [r EXCEPT !.pc = pc] /\ \A d \in Aps \ {c} : ap'[d] = ap[d]
  BY <1>1 DEF Step
<1>4. ap' \in [Aps -> Registers]
  BY <1>1, <1>2 DEF Step
<1>5. /\ ap'[c].pc = pc /\ ap'[c].for = r.for /\ ap'[c].page = r.page
      /\ ap'[c].byte = r.byte /\ ap'[c].table = r.table
  BY <1>3 DEF Registers
<1> QED BY <1>3, <1>4, <1>5 DEF After

(* Every processor counts at most once.                                    *)
LEMMA CountedOnce ==
  ASSUME IInv, NEW c \in Aps, fetch_and_add(c)
  PROVE  Counted' /\ started_count' \in 1 .. 2 * N - 1
<1> DEFINE H == {d \in Aps : ap[d].pc = "hlt"}
<1>1. IsFiniteSet(H) /\ Cardinality(H) \in Nat
  BY SomeAps
<1>2. c \notin H
  BY DEF fetch_and_add
<1>3. {d \in Aps : ap'[d].pc = "hlt"} = H \cup {c}
  <2>1. ap' = [ap EXCEPT ![c] = [ap[c] EXCEPT !.pc = "hlt"]]
    BY DEF fetch_and_add, Step
  <2>2. ap'[c].pc = "hlt" /\ \A d \in Aps \ {c} : ap'[d] = ap[d]
    BY <2>1, ApTypes DEF IInv, TypeOK
  <2> QED BY <2>2
<1>4. Cardinality(H \cup {c}) = Cardinality(H) + 1
  BY <1>1, <1>2, FS_AddElement
<1>5. Cardinality(H \cup {c}) <= N - 1
  BY SomeAps
<1>6. started_count' = started_count + 1 /\ started_count \in Nat /\ started_count >= 1
      /\ started_count <= N + Cardinality(H)
  BY SmpConstants DEF fetch_and_add, IInv, Counted, TypeOK
<1>7. started_count' \in 1 .. 2 * N - 1
  BY <1>1, <1>4, <1>5, <1>6, SmpConstants
<1>8. started_count' <= N + Cardinality(H \cup {c})
  BY <1>1, <1>4, <1>6, SmpConstants
<1> HIDE DEF H
<1> QED BY <1>3, <1>7, <1>8 DEF Counted

Same(c, pc) == After(c, pc, ap[c].for, ap[c].page, ap[c].byte, ap[c].table, ap[c].gs)

(* A step that loads no register.                                          *)
LEMMA PlainStep ==
  ASSUME TypeOK, NEW c \in Aps, NEW pc \in ApSteps, Step(c, pc, ap[c])
  PROVE  Same(c, pc)
  BY ApTypes, OneStep DEF Same

(* A call of the page allocator starts a search at page 1.                 *)
LEMMA FindStep ==
  ASSUME TypeOK, NEW c \in Aps, NEW for \in {"stack", "table"}, Find(c, for)
  PROVE  After(c, "find", for, 1, ap[c].byte, ap[c].table, ap[c].gs)
<1> DEFINE r == [ap[c] EXCEPT !.for = for, !.page = 1]
<1>1. r \in Registers /\ r.for = for /\ r.page = 1
      /\ r.byte = ap[c].byte /\ r.table = ap[c].table /\ r.gs = ap[c].gs
  <2>1. ap[c] \in Registers /\ 1 \in 0 .. LastPage + 1
    BY ApTypes, SmpConstants
  <2> QED BY <2>1 DEF Registers
<1>2. Step(c, "find", r)
  BY DEF Find
<1> HIDE DEF r
<1> QED BY <1>1, <1>2, OneStep DEF ApSteps

(* A round of the search goes to another page.                             *)
LEMMA PageStep ==
  ASSUME TypeOK, NEW c \in Aps, NEW page \in 0 .. LastPage + 1,
         Step(c, "find", [ap[c] EXCEPT !.page = page])
  PROVE  After(c, "find", ap[c].for, page, ap[c].byte, ap[c].table, ap[c].gs)
<1> DEFINE r == [ap[c] EXCEPT !.page = page]
<1>1. r \in Registers /\ r.for = ap[c].for /\ r.page = page
      /\ r.byte = ap[c].byte /\ r.table = ap[c].table /\ r.gs = ap[c].gs
  BY ApTypes, SmpConstants DEF Registers
<1>2. Step(c, "find", r)
  OBVIOUS
<1> HIDE DEF r
<1> QED BY <1>1, <1>2, OneStep DEF ApSteps

(* bitmap_set loads the byte it will store.                                *)
LEMMA ByteStep ==
  ASSUME TypeOK, NEW c \in Aps, bitmap_load(c)
  PROVE  After(c, "store", ap[c].for, ap[c].page, bitmap, ap[c].table, ap[c].gs)
<1> DEFINE r == [ap[c] EXCEPT !.byte = bitmap]
<1>1. r \in Registers /\ r.for = ap[c].for /\ r.page = ap[c].page
      /\ r.byte = bitmap /\ r.table = ap[c].table /\ r.gs = ap[c].gs
  BY ApTypes DEF Registers, TypeOK
<1>2. Step(c, "store", r)
  BY DEF bitmap_load
<1> HIDE DEF r
<1> QED BY <1>1, <1>2, OneStep DEF ApSteps

(* The walk comes to a table, or to a new one.                             *)
LEMMA TableStep ==
  ASSUME TypeOK, NEW c \in Aps, NEW pc \in ApSteps, NEW table \in {0} \cup Pages,
         Step(c, pc, [ap[c] EXCEPT !.table = table])
  PROVE  After(c, pc, ap[c].for, ap[c].page, ap[c].byte, table, ap[c].gs)
<1> DEFINE r == [ap[c] EXCEPT !.table = table]
<1>1. r \in Registers /\ r.for = ap[c].for /\ r.page = ap[c].page
      /\ r.byte = ap[c].byte /\ r.table = table /\ r.gs = ap[c].gs
  BY ApTypes, SmpConstants DEF Registers
<1>2. Step(c, pc, r)
  OBVIOUS
<1> HIDE DEF r
<1> QED BY <1>1, <1>2, OneStep

(* The register GS is loaded: by wrmsr, and by the selector of a segment.  *)
LEMMA GsStep ==
  ASSUME TypeOK, NEW c \in Aps, NEW pc \in ApSteps, NEW gs \in {0} \cup Cpus,
         Step(c, pc, [ap[c] EXCEPT !.gs = gs])
  PROVE  After(c, pc, ap[c].for, ap[c].page, ap[c].byte, ap[c].table, gs)
<1> DEFINE r == [ap[c] EXCEPT !.gs = gs]
<1>1. r \in Registers /\ r.for = ap[c].for /\ r.page = ap[c].page
      /\ r.byte = ap[c].byte /\ r.table = ap[c].table /\ r.gs = gs
  BY ApTypes, SmpConstants DEF Registers
<1>2. Step(c, pc, r)
  OBVIOUS
<1> HIDE DEF r
<1> QED BY <1>1, <1>2, OneStep

(* The two steps that load it.                                             *)
LEMMA GsSteps ==
  ASSUME TypeOK, NEW c \in Aps
  PROVE  /\ set_gs_base(c) =>
              After(c, "gdt", ap[c].for, ap[c].page, ap[c].byte, ap[c].table, c)
         /\ gdt_load(c) =>
              After(c, "announce", ap[c].for, ap[c].page, ap[c].byte, ap[c].table, 0)
<1>1. c \in {0} \cup Cpus
  BY ApTypes
<1> QED BY <1>1, GsStep DEF set_gs_base, gdt_load, ApSteps

(* The four things find_free_pages does, and their effects.                *)
LookedAt(c) ==
  \/ /\ ap[c].page \in Pages \ bitmap
     /\ Same(c, "load") /\ UNCHANGED state
  \/ /\ ap[c].page \in bitmap
     /\ After(c, "find", ap[c].for, ap[c].page + 1, ap[c].byte, ap[c].table, ap[c].gs)
     /\ UNCHANGED state
  \/ /\ ap[c].page \notin Pages /\ ap[c].for = "stack"
     /\ Same(c, "returned") /\ state' = [state EXCEPT ![c] = "HALTED"]
  \/ /\ ap[c].page \notin Pages /\ ap[c].for = "table"
     /\ Same(c, "gs") /\ UNCHANGED state

(* One round of find_free_pages, in its three outcomes.                    *)
LEMMA LookedAtStep ==
  ASSUME TypeOK, NEW c \in Aps, find_free_pages(c)
  PROVE  LookedAt(c)
<1>1. \A pc \in {"load", "returned", "gs"} : Step(c, pc, ap[c]) => Same(c, pc)
  BY PlainStep DEF ApSteps
<1>2. ASSUME ap[c].page \in bitmap,
             Step(c, "find", [ap[c] EXCEPT !.page = NextPage(c)])
      PROVE  After(c, "find", ap[c].for, ap[c].page + 1, ap[c].byte, ap[c].table, ap[c].gs)
  <2>1. ap[c].page \in Pages
    BY <1>2 DEF TypeOK
  <2>2. ap[c].page + 1 \in 0 .. LastPage + 1
    BY <2>1, SmpConstants
  <2> QED BY <1>2, <2>2, PageStep DEF NextPage
<1> QED BY <1>1, <1>2 DEF find_free_pages, LookedAt

(* The walk finds the page table, or has to make it.                       *)
LEMMA WalkStep ==
  ASSUME TypeOK, NEW c \in Aps, walk(c)
  PROVE  \/ pt # 0 /\ After(c, "leaf", ap[c].for, ap[c].page, ap[c].byte, pt, ap[c].gs)
         \/ pt = 0 /\ After(c, "find", "table", 1, ap[c].byte, ap[c].table, ap[c].gs)
  BY FindStep, TableStep DEF walk, TypeOK, ApSteps

(* The types, for a step of an application processor.                      *)
LEMMA ApStepTypes ==
  ASSUME IInv, NEW c \in Aps, Ap(c)
  PROVE  TypeOK'
<1> USE DEF ApSteps
<1>1. TypeOK /\ Stage(c) /\ Chosen(c) /\ c \in Cpus /\ ap[c] \in Registers
  BY ApTypes DEF IInv, ApInv
<1>1a. in_use' = in_use
  BY DEF Ap
<1>2. CASE ap_entry(c)
  <2>1. ap' \in [Aps -> Registers]
    BY <1>1, <1>2, FindStep DEF ap_entry, After
  <2> QED BY <1>1, <1>1a, <1>2, <2>1 DEF TypeOK, Registers, ap_entry, smp_state, memory
<1>3. CASE find_free_pages(c)
  <2>1. /\ ap' \in [Aps -> Registers]
        /\ UNCHANGED state \/ state' = [state EXCEPT ![c] = "HALTED"]
    BY <1>1, <1>3, LookedAtStep DEF LookedAt, Same, After
  <2> QED BY <1>1, <1>1a, <1>3, <2>1 DEF TypeOK, Registers, find_free_pages, memory
<1>4. CASE bitmap_load(c)
  <2>1. ap' \in [Aps -> Registers]
    BY <1>1, <1>4, ByteStep DEF After
  <2> QED BY <1>1, <1>1a, <1>4, <2>1 DEF TypeOK, Registers, bitmap_load, smp_state, memory
<1>5. CASE bitmap_store(c)
  <2>1. ap[c].page \in Pages /\ ap[c].byte \subseteq Pages
    BY <1>1, <1>5, ApTypes DEF Chosen, bitmap_store
  <2>2. ap' \in [Aps -> Registers]
    BY <1>1, <1>5, <2>1, PlainStep, TableStep DEF bitmap_store, Same, After
  <2>3. kernel_stack' \in [Cpus -> {0} \cup Pages] /\ bitmap' \subseteq Pages
    BY <1>1, <1>5, <2>1 DEF TypeOK, bitmap_store, ByteWritten
  <2> QED BY <1>1, <1>1a, <1>5, <2>2, <2>3 DEF TypeOK, Registers, bitmap_store
<1>6. CASE walk(c)
  <2>1. ap' \in [Aps -> Registers]
    BY <1>1, <1>6, WalkStep DEF After
  <2> QED BY <1>1, <1>1a, <1>6, <2>1 DEF TypeOK, Registers, walk, smp_state, memory
<1>7. CASE link(c)
  <2>1. ap' \in [Aps -> Registers]
    BY <1>1, <1>7, PlainStep DEF link, Same, After
  <2>2. ap[c].table \in {0} \cup Pages
    BY <1>1, ApTypes
  <2> QED BY <1>1, <1>1a, <1>7, <2>1, <2>2 DEF TypeOK, Registers, link, smp_state
<1>8. CASE write_leaf(c)
  <2>1. ap' \in [Aps -> Registers]
    BY <1>1, <1>8, PlainStep DEF write_leaf, Same, After
  <2>2. ap[c].table \in Pages
    BY <1>1, <1>8 DEF write_leaf, Chosen
  <2>3. kernel_stack[c] \in Pages
    BY <1>1, <1>8 DEF write_leaf, Stage, HasStack, Searching, TypeOK
  <2>4. leaves' \subseteq Pages \X Pages
    BY <1>1, <1>8, <2>2, <2>3 DEF write_leaf, TypeOK
  <2> QED BY <1>1, <1>1a, <1>8, <2>1, <2>4 DEF TypeOK, Registers, write_leaf, smp_state
<1>9. CASE set_gs_base(c)
  <2>1. ap' \in [Aps -> Registers]
    BY <1>1, <1>9, GsSteps DEF After
  <2> QED BY <1>1, <1>1a, <1>9, <2>1 DEF TypeOK, Registers, set_gs_base, memory
<1>9a. CASE gdt_load(c)
  <2>1. ap' \in [Aps -> Registers]
    BY <1>1, <1>9a, GsSteps DEF After
  <2> QED BY <1>1, <1>1a, <1>9a, <2>1 DEF TypeOK, Registers, gdt_load, smp_state, memory
<1>10. CASE announce(c)
  <2>1. ap' \in [Aps -> Registers]
    BY <1>1, <1>10, PlainStep DEF announce, Same, After
  <2> QED BY <1>1, <1>1a, <1>10, <2>1 DEF TypeOK, Registers, announce, memory
<1>11. CASE fetch_and_add(c)
  <2>1. ap' \in [Aps -> Registers]
    BY <1>1, <1>11, PlainStep DEF fetch_and_add, Same, After
  <2>2. started_count' \in 1 .. 2 * N - 1
    BY <1>11, CountedOnce
  <2> QED BY <1>1, <1>1a, <1>11, <2>1, <2>2 DEF TypeOK, Registers, fetch_and_add, memory
<1> QED
  BY <1>2, <1>3, <1>4, <1>5, <1>6, <1>7, <1>8, <1>9, <1>9a, <1>10, <1>11 DEF Ap

(* It touches no entry of smp_state.cpus but its own.                      *)
LEMMA OthersKept ==
  ASSUME TypeOK, NEW c \in Aps, Ap(c), NEW d \in Aps \ {c}
  PROVE  /\ ap'[d] = ap[d] /\ state'[d] = state[d] /\ gs_base'[d] = gs_base[d]
         /\ kernel_stack'[d] = kernel_stack[d] /\ goto_address' = goto_address
         /\ in_use' = in_use
<1>1. ap'[d] = ap[d]
  <2>1. \A pc, r : Step(c, pc, r) => ap'[d] = ap[d]
    BY DEF Step, TypeOK
  <2> QED BY <2>1 DEF Ap, ap_entry, find_free_pages, bitmap_load, bitmap_store,
             walk, link, write_leaf, set_gs_base, gdt_load, announce, fetch_and_add, Find
<1>2. goto_address' = goto_address
  BY DEF Ap, ap_entry, find_free_pages, bitmap_load, bitmap_store, walk, link,
         write_leaf, set_gs_base, gdt_load, announce, fetch_and_add
<1>3. state'[d] = state[d]
  <2>1. \/ state' = state
        \/ \E s \in {"RUNNING", "HALTED"} : state' = [state EXCEPT ![c] = s]
    BY DEF Ap, ap_entry, find_free_pages, bitmap_load, bitmap_store, walk, link,
           write_leaf, set_gs_base, gdt_load, announce, fetch_and_add, smp_state
  <2> QED BY <2>1, ApTypes DEF TypeOK
<1>4. gs_base'[d] = gs_base[d]
  <2>1. gs_base' = gs_base \/ gs_base' = [gs_base EXCEPT ![c] = c]
    BY DEF Ap, ap_entry, find_free_pages, bitmap_load, bitmap_store, walk, link,
           write_leaf, set_gs_base, gdt_load, announce, fetch_and_add, smp_state
  <2> QED BY <2>1, ApTypes DEF TypeOK
<1>5. kernel_stack'[d] = kernel_stack[d]
  <2>1. \/ kernel_stack' = kernel_stack
        \/ kernel_stack' = [kernel_stack EXCEPT ![c] = ap[c].page]
    BY DEF Ap, ap_entry, find_free_pages, bitmap_load, bitmap_store, walk, link,
           write_leaf, set_gs_base, gdt_load, announce, fetch_and_add, smp_state
  <2> QED BY <2>1, ApTypes DEF TypeOK
<1>6. in_use' = in_use
  BY DEF Ap
<1> QED BY <1>1, <1>2, <1>3, <1>4, <1>5, <1>6

(* Where a processor is still tells what it has.                           *)
LEMMA ApInvKept ==
  ASSUME IInv, NEW c \in Aps, Ap(c)
  PROVE  ApInv'
<1> USE DEF Stage, Chosen, HasStack, Searching, After, Same
<1>1. TypeOK /\ Stage(c) /\ Chosen(c) /\ c \in Cpus /\ in_use \subseteq bitmap /\ pt \notin in_use
  BY ApTypes DEF IInv, ApInv, OldPagesSafe
<1>1a. in_use' = in_use
  BY DEF Ap
<1>2. \A d \in Aps \ {c} : Stage(d)' /\ Chosen(d)'
  <2> TAKE d \in Aps \ {c}
  <2>1. Stage(d) /\ Chosen(d)
    BY DEF IInv, ApInv
  <2> QED BY <1>1, <2>1, OthersKept
<1>3. CASE ap_entry(c)
  BY <1>1, <1>1a, <1>2, <1>3, FindStep DEF ApInv, ap_entry, smp_state
<1>4. CASE find_free_pages(c)
  <2>1. LookedAt(c) /\ ap[c].page \in 0 .. LastPage + 1 /\ ap[c].page >= 1
        /\ ap[c].for \in {"stack", "table"}
    BY <1>1, <1>4, LookedAtStep, ApTypes DEF find_free_pages
  <2>2. Stage(c)'
    BY <1>1, <1>1a, <1>4, <2>1 DEF find_free_pages, LookedAt, TypeOK
  <2>3. Chosen(c)'
    BY <1>1, <1>1a, <1>4, <2>1, SmpConstants DEF find_free_pages, LookedAt
  <2> QED BY <1>2, <2>2, <2>3 DEF ApInv
<1>5. CASE bitmap_load(c)
  BY <1>1, <1>1a, <1>2, <1>5, ByteStep DEF ApInv, bitmap_load, smp_state
<1>6. CASE bitmap_store(c)
  <2>1. ap[c].page \in Pages \ in_use /\ ap[c].page # 0
    BY <1>1, <1>6, SmpConstants DEF bitmap_store
  <2>2. CASE ap[c].for = "stack"
    <3>1. Same(c, "walk") /\ kernel_stack'[c] = ap[c].page
      BY <1>1, <1>6, <2>2, PlainStep DEF bitmap_store, ApSteps, TypeOK
    <3> QED BY <1>1, <1>1a, <1>2, <1>6, <2>1, <3>1 DEF ApInv, bitmap_store
  <2>3. CASE ap[c].for = "table"
    <3>1. After(c, "link", ap[c].for, ap[c].page, ap[c].byte, ap[c].page, ap[c].gs)
          /\ UNCHANGED kernel_stack
      BY <1>1, <1>6, <2>1, <2>3, TableStep DEF bitmap_store, ApSteps, TypeOK
    <3> QED BY <1>1, <1>1a, <1>2, <1>6, <2>1, <2>3, <3>1 DEF ApInv, bitmap_store
  <2> QED BY <1>6, <2>2, <2>3 DEF bitmap_store
<1>7. CASE walk(c)
  <2>1. pt # 0 => pt \in Pages \ in_use
    BY <1>1 DEF TypeOK
  <2> QED BY <1>1, <1>1a, <1>2, <1>7, <2>1, WalkStep DEF ApInv, walk, smp_state
<1>8. CASE link(c)
  BY <1>1, <1>1a, <1>2, <1>8, PlainStep DEF ApInv, link, smp_state, ApSteps
<1>9. CASE write_leaf(c)
  BY <1>1, <1>1a, <1>2, <1>9, PlainStep DEF ApInv, write_leaf, smp_state, ApSteps
<1>10. CASE set_gs_base(c)
  <2>1. gs_base'[c] = c
    BY <1>1, <1>10 DEF set_gs_base, TypeOK
  <2>2. After(c, "gdt", ap[c].for, ap[c].page, ap[c].byte, ap[c].table, c)
    BY <1>1, <1>10, GsSteps
  <2>3. state' = state /\ kernel_stack' = kernel_stack /\ goto_address' = goto_address
        /\ ap[c].pc = "gs"
    BY <1>10 DEF set_gs_base
  <2>4. Stage(c)' /\ Chosen(c)'
    BY <1>1, <1>1a, <2>1, <2>2, <2>3
  <2> QED BY <1>2, <2>4 DEF ApInv
<1>10a. CASE gdt_load(c)
  BY <1>1, <1>1a, <1>2, <1>10a, GsSteps DEF ApInv, gdt_load, smp_state
<1>11. CASE announce(c)
  <2>1. state'[c] = "RUNNING"
    BY <1>1, <1>11 DEF announce, TypeOK
  <2> QED BY <1>1, <1>1a, <1>2, <1>11, <2>1, PlainStep DEF ApInv, announce, ApSteps
<1>12. CASE fetch_and_add(c)
  BY <1>1, <1>1a, <1>2, <1>12, PlainStep DEF ApInv, fetch_and_add, ApSteps
<1> QED
  BY <1>3, <1>4, <1>5, <1>6, <1>7, <1>8, <1>9, <1>10, <1>10a, <1>11, <1>12 DEF Ap

(* A processor takes only pages that were free at the start.               *)
LEMMA OldPagesKept ==
  ASSUME IInv, NEW c \in Aps, Ap(c)
  PROVE  OldPagesSafe'
<1>1. TypeOK /\ OldPagesSafe /\ Chosen(c) /\ c \in Cpus
  BY ApTypes DEF IInv, ApInv
<1>2. in_use \subseteq bitmap'
  BY <1>1 DEF OldPagesSafe, Chosen, Ap, ap_entry, find_free_pages, bitmap_load, ByteWritten,
              bitmap_store, walk, link, write_leaf, set_gs_base, gdt_load, announce, fetch_and_add, memory
<1>3. pt' \notin in_use
  BY <1>1 DEF OldPagesSafe, Chosen, Ap, ap_entry, find_free_pages, bitmap_load,
              bitmap_store, walk, link, write_leaf, set_gs_base, gdt_load, announce, fetch_and_add, memory
<1>4. kernel_stack' = kernel_stack \/ kernel_stack'[c] \notin in_use
  BY <1>1 DEF TypeOK, Chosen, Ap, ap_entry, find_free_pages, bitmap_load, bitmap_store, walk, link,
              write_leaf, set_gs_base, gdt_load, announce, fetch_and_add, smp_state
<1>5. \A d \in Aps : kernel_stack'[d] \in {kernel_stack[d]} \/ kernel_stack'[d] \notin in_use
  BY <1>1, <1>4, OthersKept
<1>6. in_use' = in_use
  BY DEF Ap
<1> QED BY <1>1, <1>2, <1>3, <1>5, <1>6 DEF OldPagesSafe, Taken

(* More processors RUNNING spoil nothing that the boot processor counted.  *)
LEMMA RunningGrows ==
  ASSUME IInv, NEW c \in Aps, Ap(c)
  PROVE  /\ Running \subseteq Running' /\ bsp' = bsp
         /\ ap[c].pc # "hlt"
<1>1. TypeOK /\ Stage(c) /\ c \in Cpus
  BY ApTypes DEF IInv, ApInv
<1>2. bsp' = bsp /\ ap[c].pc # "hlt"
  BY DEF Ap, ap_entry, find_free_pages, bitmap_load, bitmap_store, walk, link,
         write_leaf, set_gs_base, gdt_load, announce, fetch_and_add
<1>3. state[c] = "RUNNING" => state'[c] = "RUNNING"
  <2> SUFFICES ASSUME state[c] = "RUNNING" PROVE state'[c] = "RUNNING"
    OBVIOUS
  <2>1. ap[c].pc = "count"
    BY <1>1, <1>2 DEF Stage
  <2> QED BY <2>1 DEF Ap, ap_entry, find_free_pages, bitmap_load, bitmap_store, walk, link,
             write_leaf, set_gs_base, gdt_load, announce, fetch_and_add
<1>4. \A d \in Aps : state[d] = "RUNNING" => state'[d] = "RUNNING"
  BY <1>1, <1>3, OthersKept
<1> QED BY <1>2, <1>4 DEF Running

(* One that becomes RUNNING only adds to what the boot processor has seen. *)
LEMMA CountingKept ==
  ASSUME IInv, NEW c \in Aps, Ap(c)
  PROVE  Counting' /\ ReportTrue' /\ Counted'
<1>1. TypeOK /\ Counting /\ ReportTrue /\ Counted
  BY DEF IInv
<1>2. Running \subseteq Running' /\ Running' \subseteq Aps /\ bsp' = bsp
  BY RunningGrows DEF Running
<1>3. ASSUME NEW S, NEW T, S \subseteq T, T \subseteq Aps, NEW n \in Int, n <= Cardinality(S)
      PROVE  n <= Cardinality(T)
  <2>1. IsFiniteSet(T) /\ Cardinality(S) <= Cardinality(T)
    BY <1>3, SomeAps, FS_Subset
  <2>2. Cardinality(S) \in Nat /\ Cardinality(T) \in Nat
    BY <1>3, SomeAps
  <2> QED BY <1>3, <2>1, <2>2
<1>4. bsp.running \in Int /\ bsp.i \in Int /\ started_count - N \in Int
  BY <1>1, SmpConstants DEF TypeOK
<1>5. Counting'
  <2>1. bsp.pc \in {"poll", "tally"} => bsp.running <= Cardinality({d \in Running' : d < bsp.i})
    <3>1. {d \in Running : d < bsp.i} \subseteq {d \in Running' : d < bsp.i}
          /\ {d \in Running' : d < bsp.i} \subseteq Aps
      BY <1>2
    <3> QED BY <1>1, <1>3, <1>4, <3>1 DEF Counting
  <2>2. Running = Aps => Running' = Aps
    BY <1>2
  <2> QED BY <1>1, <1>2, <2>1, <2>2 DEF Counting, Before
<1>6. ReportTrue'
  BY <1>1, <1>2, <1>3, <1>4 DEF ReportTrue, Running
<1>7. Counted'
  <2>1. CASE fetch_and_add(c)
    BY <2>1, CountedOnce
  <2>2. CASE ~fetch_and_add(c)
    <3> DEFINE H == {d \in Aps : ap[d].pc = "hlt"}
    <3> DEFINE G == {d \in Aps : ap'[d].pc = "hlt"}
    <3>1. H \subseteq G /\ G \subseteq Aps
      BY <1>1, RunningGrows, OthersKept
    <3>2. started_count' = started_count
      BY <2>2 DEF Ap, ap_entry, find_free_pages, bitmap_load, bitmap_store, walk, link,
                  write_leaf, set_gs_base, gdt_load, announce, smp_state
    <3>3. started_count - N <= Cardinality(H)
      <4>1. Cardinality(H) \in Nat
        BY SomeAps
      <4> QED BY <1>1, <4>1, SmpConstants DEF Counted, TypeOK
    <3>4. started_count - N <= Cardinality(G) /\ Cardinality(G) \in Nat
      BY <1>3, <1>4, <3>1, <3>3, SomeAps
    <3>5. started_count <= N + Cardinality(G)
      BY <1>1, <3>4, SmpConstants DEF TypeOK
    <3> HIDE DEF H
    <3> QED BY <3>2, <3>5 DEF Counted
  <2> QED BY <2>1, <2>2
<1> QED BY <1>5, <1>6, <1>7

-----------------------------------------------------------------------------
(* One processor at a time.                                                *)

(* Two processors set up at once only if the history variable says so.     *)
LEMMA OneAtATimeKept ==
  ASSUME IInv, NEW c \in Aps, Ap(c), ~overlapped'
  PROVE  /\ ~overlapped /\ OneAtATime'
         /\ ~ap_entry(c) => SettingUp(c) \/ ap[c].pc \in {"gs", "gdt", "announce", "count"}
<1>1. TypeOK /\ (~overlapped => OneAtATime)
  BY DEF IInv, AloneInv
<1>2. CASE ap_entry(c)
  <2>1. ~overlapped /\ \A d \in Aps \ {c} : ~SettingUp(d)
    BY <1>1, <1>2 DEF ap_entry, TypeOK
  <2>2. \A d \in Aps \ {c} : ap'[d] = ap[d]
    BY <1>1, OthersKept
  <2> QED BY <1>2, <2>1, <2>2 DEF OneAtATime, SettingUp
<1>3. CASE ~ap_entry(c)
  <2>1. ~overlapped /\ (SettingUp(c) \/ ap[c].pc \in {"gs", "gdt", "announce", "count"})
    BY <1>3 DEF SettingUp, Ap, find_free_pages, bitmap_load, bitmap_store, walk, link,
                write_leaf, set_gs_base, gdt_load, announce, fetch_and_add
  <2>2. SettingUp(c)' => SettingUp(c)
    <3> SUFFICES ASSUME ~SettingUp(c) PROVE ~SettingUp(c)'
      OBVIOUS
    <3>1. set_gs_base(c) \/ gdt_load(c) \/ announce(c) \/ fetch_and_add(c)
      BY <1>3 DEF SettingUp, Ap, find_free_pages, bitmap_load, bitmap_store, walk, link,
                  write_leaf
    <3> QED BY <1>1, <3>1, GsSteps, PlainStep DEF announce, fetch_and_add, ApSteps,
               Same, After, SettingUp
  <2>3. \A d \in Aps \ {c} : SettingUp(d)' => SettingUp(d)
    BY <1>1, OthersKept DEF SettingUp
  <2> QED BY <1>1, <1>3, <2>1, <2>2, <2>3 DEF OneAtATime
<1> QED BY <1>2, <1>3

(* What the others know, while c sets up, is not undone by what c stores.  *)
LEMMA OthersKnow ==
  ASSUME IInv, NEW c \in Aps, Ap(c), ~overlapped', ~ap_entry(c), NEW d \in Aps \ {c},
         TypeOK'
  PROVE  Knows(d)'
<1> USE DEF Knows, Searching
<1>1. TypeOK /\ OneAtATime /\ Knows(d) /\ Knows(c) /\ Stage(c) /\ Stage(d) /\ Chosen(c)
  BY OneAtATimeKept DEF IInv, AloneInv, ApInv
<1>2. ap'[d] = ap[d] /\ kernel_stack'[d] = kernel_stack[d]
  BY <1>1, OthersKept
<1>3. CASE ~SettingUp(c)
  <2>1. kernel_stack' = kernel_stack /\ memory' = memory
    BY <1>3 DEF SettingUp, Ap, ap_entry, find_free_pages, bitmap_load, bitmap_store, walk, link,
                write_leaf, set_gs_base, gdt_load, announce, fetch_and_add, smp_state
  <2> QED BY <1>1, <1>2, <2>1 DEF memory
<1>4. CASE SettingUp(c)
  <2>1. ap[d].pc \notin {"find", "load", "store", "walk", "link", "leaf"}
    BY <1>1, <1>4 DEF OneAtATime, SettingUp
  <2>2. bitmap \subseteq bitmap' /\ (bitmap = Pages => bitmap' = Pages)
    <3>1. bitmap' = bitmap \/ (ap[c].pc = "store" /\ bitmap' = ap[c].byte \cup {ap[c].page})
      BY <1>4 DEF SettingUp, Ap, ap_entry, find_free_pages, bitmap_load, bitmap_store, walk, link,
                  write_leaf, set_gs_base, gdt_load, announce, fetch_and_add, memory, ByteWritten
    <3>2. bitmap \subseteq bitmap'
      BY <1>1, <3>1
    <3>3. bitmap' \subseteq Pages
      BY DEF TypeOK
    <3> QED BY <3>2, <3>3
  <2>3. leaves \subseteq leaves'
    BY <1>4 DEF SettingUp, Ap, ap_entry, find_free_pages, bitmap_load, bitmap_store, walk, link,
                write_leaf, set_gs_base, gdt_load, announce, fetch_and_add, memory
  <2>4. pt' = pt \/ pt = 0
    BY <1>1, <1>4 DEF SettingUp, Ap, ap_entry, find_free_pages, bitmap_load, bitmap_store, walk,
                link, write_leaf, set_gs_base, gdt_load, announce, fetch_and_add, memory
  <2>5. pt = 0 => <<pt, kernel_stack[d]>> \notin leaves
    BY <1>1, SmpConstants DEF TypeOK
  <2> QED BY <1>1, <1>2, <2>1, <2>2, <2>3, <2>4, <2>5
<1> QED BY <1>3, <1>4

(* Alone, a processor takes a page that is nobody else's.                  *)
LEMMA ApartKept ==
  ASSUME IInv, NEW c \in Aps, Ap(c), ~overlapped'
  PROVE  Apart'
<1>1. TypeOK /\ Apart /\ Knows(c) /\ Stage(c) /\ Chosen(c) /\ c \in Cpus
  BY OneAtATimeKept, ApTypes DEF IInv, AloneInv, ApInv
<1>1a. in_use' = in_use
  BY DEF Ap
<1>2. CASE bitmap_store(c)
  <2>1. /\ bitmap' = bitmap \cup {ap[c].page} /\ pt' = pt
        /\ ap[c].page \in Pages \ (bitmap \cup in_use) /\ ap[c].page # 0
    BY <1>1, <1>2, SmpConstants DEF bitmap_store, ByteWritten, Knows, Chosen
  <2>2. \A d \in Aps : kernel_stack'[d] = kernel_stack[d]
                       \/ (d = c /\ kernel_stack'[d] = ap[c].page)
    BY <1>1, <1>2, OthersKept DEF bitmap_store, TypeOK
  <2>3. /\ \A d \in Aps : kernel_stack[d] # ap[c].page
        /\ pt # ap[c].page
    BY <1>1, <2>1 DEF Apart
  <2> QED BY <1>1, <1>1a, <2>1, <2>2, <2>3 DEF Apart
<1>3. CASE link(c)
  <2>1. /\ pt' = ap[c].table /\ pt' \in bitmap /\ UNCHANGED <<bitmap, kernel_stack>>
        /\ \A d \in Aps : kernel_stack[d] # pt'
    BY <1>1, <1>3 DEF link, Knows, smp_state
  <2> QED BY <1>1, <1>1a, <2>1 DEF Apart
<1>4. CASE ~(bitmap_store(c) \/ link(c))
  <2>1. UNCHANGED <<bitmap, kernel_stack, pt>>
    BY <1>4 DEF Ap, ap_entry, find_free_pages, bitmap_load, walk,
                write_leaf, set_gs_base, gdt_load, announce, fetch_and_add, memory, smp_state
  <2> QED BY <1>1, <1>1a, <2>1 DEF Apart
<1> QED BY <1>2, <1>3, <1>4

(* Alone, what it has read is still true.                                  *)
LEMMA OwnKnows ==
  ASSUME IInv, NEW c \in Aps, Ap(c), ~overlapped', TypeOK'
  PROVE  Knows(c)'
<1> USE DEF Knows, Searching, After, Same
<1>1. TypeOK /\ Apart /\ Knows(c) /\ Stage(c) /\ Chosen(c) /\ c \in Cpus
  BY OneAtATimeKept, ApTypes DEF IInv, AloneInv, ApInv
<1>2. ap[c].for \in {"stack", "table"} /\ ap[c].page \in 0 .. LastPage + 1
      /\ \A p \in Pages : p \in Nat /\ p >= 1
  BY <1>1, ApTypes, SmpConstants
<1>3. CASE ap_entry(c)
  BY <1>1, <1>2, <1>3, FindStep DEF ap_entry, memory
<1>4. CASE find_free_pages(c)
  <2>1. /\ LookedAt(c) /\ UNCHANGED <<memory, kernel_stack>>
        /\ ap[c].pc = "find" /\ ap[c].page >= 1
        /\ \A p \in Pages : p < ap[c].page => p \in bitmap
    BY <1>1, <1>4, LookedAtStep DEF find_free_pages, Chosen
  <2>2. ap[c].page \notin Pages => bitmap = Pages
    <3>1. ap[c].page \notin Pages => \A p \in Pages : p < ap[c].page
      BY <1>2, <2>1, SmpConstants
    <3> QED BY <1>1, <2>1, <3>1 DEF TypeOK
  <2>3. ap[c].page \in bitmap => \A p \in Pages : p < ap[c].page + 1 => p \in bitmap
    BY <1>2, <2>1
  <2> QED BY <1>1, <1>2, <2>1, <2>2, <2>3 DEF LookedAt, memory
<1>5. CASE bitmap_load(c)
  BY <1>1, <1>5, ByteStep DEF bitmap_load, memory
<1>6. CASE bitmap_store(c)
  <2>1. ap[c].page \in Pages \ bitmap /\ ap[c].page # 0 /\ ap[c].page \in bitmap'
    BY <1>1, <1>2, <1>6 DEF bitmap_store, Chosen, ByteWritten
  <2>2. CASE ap[c].for = "stack"
    <3>1. Same(c, "walk")
      BY <1>1, <1>6, <2>2, PlainStep DEF bitmap_store, ApSteps, TypeOK
    <3> QED BY <3>1
  <2>3. CASE ap[c].for = "table"
    <3>1. After(c, "link", ap[c].for, ap[c].page, ap[c].byte, ap[c].page, ap[c].gs)
          /\ kernel_stack' = kernel_stack /\ pt' = pt /\ pt = 0
      BY <1>1, <1>6, <2>1, <2>3, TableStep DEF bitmap_store, ApSteps, TypeOK
    <3>2. \A d \in Aps : kernel_stack[d] # ap[c].page
      BY <1>1, <2>1 DEF Apart
    <3> QED BY <2>1, <3>1, <3>2
  <2> QED BY <1>6, <2>2, <2>3 DEF bitmap_store
<1>7. CASE walk(c)
  BY <1>1, <1>2, <1>7, WalkStep DEF walk, memory, smp_state
<1>8. CASE link(c)
  BY <1>1, <1>8, PlainStep DEF link, ApSteps
<1>9. CASE write_leaf(c)
  BY <1>1, <1>9, PlainStep DEF write_leaf, smp_state, ApSteps
<1>10. CASE set_gs_base(c)
  BY <1>1, <1>10, GsSteps DEF set_gs_base, memory
<1>10a. CASE gdt_load(c)
  BY <1>1, <1>10a, GsSteps DEF gdt_load, memory, smp_state
<1>11. CASE announce(c)
  BY <1>1, <1>11, PlainStep DEF announce, memory, ApSteps
<1>12. CASE fetch_and_add(c)
  BY <1>1, <1>12, PlainStep DEF fetch_and_add, memory, ApSteps
<1> QED
  BY <1>3, <1>4, <1>5, <1>6, <1>7, <1>8, <1>9, <1>10, <1>10a, <1>11, <1>12 DEF Ap

(* So the invariant of the calls one at a time is kept.                    *)
LEMMA AloneKept ==
  ASSUME IInv, NEW c \in Aps, Ap(c), TypeOK'
  PROVE  AloneInv'
<1> SUFFICES ASSUME ~overlapped' PROVE (OneAtATime /\ Apart /\ \A d \in Aps : Knows(d))'
  BY DEF AloneInv
<1>1. \A d \in Aps : Knows(d)'
  <2>1. CASE ap_entry(c)
    <3>1. UNCHANGED <<memory, kernel_stack>> /\ \A d \in Aps \ {c} : ap'[d] = ap[d] /\ Knows(d)
      BY <2>1, OthersKept, OneAtATimeKept DEF ap_entry, smp_state, IInv, AloneInv
    <3>2. \A d \in Aps \ {c} : Knows(d)'
      BY <3>1 DEF Knows, memory, Searching
    <3> QED BY <3>2, OwnKnows
  <2>2. CASE ~ap_entry(c)
    BY <2>2, OwnKnows, OthersKnow
  <2> QED BY <2>1, <2>2
<1> QED BY <1>1, OneAtATimeKept, ApartKept

-----------------------------------------------------------------------------
(* The steps of the boot processor.                                        *)

BspRegisters == [pc : {"idle", "release", "poll", "tally", "report", "done"},
                 i : 0 .. N, running : 0 .. N - 1, polls : 0 .. Timeout + 1,
                 calls : 0 .. MaxCalls]

BspAfter(pc, i, running, polls) ==
  /\ bsp' \in BspRegisters
  /\ bsp'.pc = pc /\ bsp'.i = i /\ bsp'.running = running /\ bsp'.polls = polls

(* The registers of the boot processor.                                    *)
LEMMA BspTypes ==
  ASSUME TypeOK
  PROVE  /\ bsp \in BspRegisters /\ bsp.i \in 0 .. N /\ bsp.running \in 0 .. N - 1
         /\ bsp.polls \in 0 .. Timeout + 1 /\ bsp.calls \in 0 .. MaxCalls
<1>1. bsp \in BspRegisters
  BY DEF TypeOK, BspRegisters
<1> QED BY <1>1 DEF BspRegisters

(* One more look: the sum stays below the number of processors passed, and *)
(* below the number of those that are RUNNING.                             *)
LEMMA SeenBounds ==
  ASSUME IInv, bsp.pc \in {"poll", "tally"}
  PROVE  /\ Seen \in 0 .. N - 1
         /\ Seen <= Before(bsp.i + 1)
         /\ Seen <= Cardinality({c \in Running : c < bsp.i + 1})
         /\ Running = Aps /\ bsp.running = Before(bsp.i) => Seen = Before(bsp.i + 1)
         /\ bsp.i = N => Before(bsp.i + 1) = N - 1 /\ {c \in Running : c < bsp.i + 1} = Running
<1> DEFINE S == {c \in Running : c < bsp.i}
<1> DEFINE T == {c \in Running : c < bsp.i + 1}
<1>1. /\ bsp.i \in 1 .. N /\ bsp.running \in Nat /\ bsp.running <= Before(bsp.i)
      /\ bsp.running <= Cardinality(S)
  BY BspTypes, SmpConstants DEF IInv, Counting
<1>2. N \in Nat /\ N >= 1 /\ Bsp \in 1 .. N /\ (bsp.i \in Aps <=> bsp.i # Bsp)
      /\ (\A c \in Running : c \in 1 .. N)
  BY <1>1, SmpConstants DEF Running
<1>3. bsp.i \in Running <=> bsp.i \in Aps /\ state[bsp.i] = "RUNNING"
  BY DEF Running
<1>4. Seen = bsp.running + (IF bsp.i \in Running THEN 1 ELSE 0)
  BY <1>3 DEF Seen
<1>5. Seen \in Nat /\ Seen <= Before(bsp.i + 1)
  <2>1. bsp.i \in Running => bsp.i # Bsp
    BY <1>2, <1>3
  <2> QED BY <1>1, <1>2, <1>4, <2>1 DEF Before
<1>6. Before(bsp.i + 1) \in 0 .. N - 1 /\ (bsp.i = N => Before(bsp.i + 1) = N - 1)
  BY <1>1, <1>2 DEF Before
<1>7. IsFiniteSet(S) /\ IsFiniteSet(T) /\ Cardinality(S) \in Nat /\ Cardinality(T) \in Nat
  BY SomeAps DEF Running
<1>8. Seen <= Cardinality(T)
  <2>1. CASE bsp.i \in Running
    <3>1. T = S \cup {bsp.i} /\ bsp.i \notin S
      BY <1>1, <1>2, <2>1
    <3>2. Cardinality(S \cup {bsp.i}) = Cardinality(S) + 1
      BY <1>7, <3>1, FS_AddElement
    <3>3. Cardinality(T) = Cardinality(S) + 1
      BY <3>1, <3>2
    <3> HIDE DEF S, T
    <3> QED BY <1>1, <1>4, <1>7, <2>1, <3>3
  <2>2. CASE bsp.i \notin Running
    <3>1. T = S
      BY <1>1, <1>2, <2>2
    <3> QED BY <1>1, <1>4, <1>7, <2>2, <3>1
  <2> QED BY <2>1, <2>2
<1>9. Running = Aps /\ bsp.running = Before(bsp.i) => Seen = Before(bsp.i + 1)
  BY <1>1, <1>2, <1>4 DEF Before
<1>10. bsp.i = N => T = Running
  BY <1>2
<1>11. Seen \in 0 .. N - 1
  BY <1>2, <1>5, <1>6
<1> QED BY <1>5, <1>6, <1>8, <1>9, <1>10, <1>11

(* One round of its counting loops.                                        *)
LEMMA LookStep ==
  ASSUME TypeOK, Seen \in 0 .. N - 1, bsp.i \in 1 .. N, bsp.i < N, bsp' = Look
  PROVE  BspAfter(bsp.pc, bsp.i + 1, Seen, bsp.polls)
<1>1. bsp \in BspRegisters /\ bsp.i + 1 \in 0 .. N
  BY BspTypes, SmpConstants
<1>2. bsp' = [bsp EXCEPT !.i = bsp.i + 1, !.running = Seen]
  BY DEF Look
<1> HIDE DEF Seen
<1> QED BY <1>1, <1>2 DEF BspRegisters, BspAfter

(* And their start.                                                        *)
LEMMA RestartStep ==
  ASSUME TypeOK, NEW pc \in {"poll", "tally"}, NEW polls \in 0 .. Timeout + 1,
         bsp' = Restart(pc, polls)
  PROVE  BspAfter(pc, 1, 0, polls)
<1>1. bsp \in BspRegisters /\ 1 \in 0 .. N /\ 0 \in 0 .. N - 1
  BY BspTypes, SmpConstants
<1>2. bsp' = [bsp EXCEPT !.pc = pc, !.i = 1, !.running = 0, !.polls = polls]
  BY DEF Restart
<1> QED BY <1>1, <1>2 DEF BspRegisters, BspAfter

(* What Counting says where a pass over the processors begins.             *)
LEMMA PassBegins ==
  /\ 1 \in 1 .. N /\ Before(1) = 0
  /\ 0 <= Cardinality({c \in Running : c < 1})
<1>1. Cardinality({c \in Running : c < 1}) \in Nat
  BY SomeAps DEF Running
<1> QED BY <1>1, SmpConstants DEF Before

(* smp_start_aps keeps what it has counted true.                           *)
LEMMA BspInv ==
  ASSUME IInv, smp_start_aps \/ BspStep
  PROVE  /\ bsp' \in BspRegisters /\ goto_address' \subseteq Aps
         /\ Counting' /\ ReportTrue' /\ started_count' \in {started_count} \cup 1 .. N
<1> USE DEF BspAfter
<1>1. /\ TypeOK /\ Counting /\ bsp \in BspRegisters /\ bsp.i \in 0 .. N
      /\ bsp.running \in 0 .. N - 1 /\ bsp.polls \in 0 .. Timeout + 1
      /\ bsp.calls \in 0 .. MaxCalls /\ goto_address \subseteq Aps
      /\ N \in Nat /\ N >= 1 /\ Timeout \in Nat /\ MaxCalls \in Nat
  BY BspTypes, SmpConstants DEF IInv, TypeOK
<1>2. Running' = Running /\ state' = state
  BY DEF smp_start_aps, BspStep, release, poll, tally, report, BspOnly, Running
<1>3. CASE smp_start_aps
  <2>1. bsp' = [pc |-> "release", i |-> 1, running |-> 0, polls |-> 0, calls |-> bsp.calls + 1]
        /\ bsp.calls + 1 \in 0 .. MaxCalls /\ 1 \in 0 .. N /\ 0 \in 0 .. N - 1
        /\ 0 \in 0 .. Timeout + 1
    BY <1>1, <1>3 DEF smp_start_aps
  <2>2. BspAfter("release", 1, 0, 0)
    BY <2>1 DEF BspRegisters
  <2> QED BY <1>1, <1>3, <2>2, PassBegins DEF smp_start_aps, Counting, ReportTrue
<1>4. CASE release
  <2>1. bsp.i \in 1 .. N /\ bsp.running = 0 /\ (bsp.polls = 0 \/ bsp.polls < Timeout)
        /\ started_count' = started_count /\ goto_address' \subseteq Aps
    BY <1>1, <1>4, SmpConstants DEF release, Counting
  <2>2. CASE bsp.i < N
    <3>1. bsp' = [bsp EXCEPT !.i = bsp.i + 1] /\ bsp.i + 1 \in 1 .. N
      BY <1>1, <1>4, <2>1, <2>2 DEF release
    <3>2. BspAfter("release", bsp.i + 1, 0, bsp.polls)
      BY <1>1, <1>4, <2>1, <3>1 DEF BspRegisters, release
    <3> QED BY <2>1, <3>1, <3>2 DEF Counting, ReportTrue
  <2>3. CASE ~(bsp.i < N)
    <3>1. bsp' = [bsp EXCEPT !.i = 1, !.pc = "poll"] /\ 1 \in 0 .. N
      BY <1>1, <1>4, <2>3 DEF release
    <3>2. BspAfter("poll", 1, 0, bsp.polls)
      BY <1>1, <2>1, <3>1 DEF BspRegisters
    <3> QED BY <1>2, <2>1, <3>2, PassBegins DEF Counting, ReportTrue, Before
  <2> QED BY <2>2, <2>3
<1>5. CASE poll
  <2>1. /\ bsp.i \in 1 .. N /\ (bsp.polls = 0 \/ bsp.polls < Timeout) /\ bsp.pc = "poll"
        /\ started_count' = started_count /\ goto_address' = goto_address
    BY <1>1, <1>5 DEF poll, Counting
  <2>2. CASE bsp.i < N /\ bsp' = Look
    <3>1. BspAfter("poll", bsp.i + 1, Seen, bsp.polls) /\ bsp.i + 1 \in 1 .. N
      BY <1>1, <2>1, <2>2, LookStep, SeenBounds
    <3> HIDE DEF Seen
    <3> QED BY <1>1, <1>2, <2>1, <3>1, SeenBounds DEF Counting, ReportTrue, Before
  <2>3. CASE bsp.i = N /\ Enough /\ bsp' = Restart("tally", bsp.polls)
    <3>1. BspAfter("tally", 1, 0, bsp.polls)
      BY <1>1, <2>3, RestartStep
    <3>2. Seen \in Nat /\ Seen >= N - 1 /\ Seen <= Cardinality(Running)
      BY <1>1, <2>1, <2>3, SeenBounds DEF Enough
    <3>3. Cardinality(Running) \in Nat /\ Cardinality(Running) <= N - 1
      BY SomeAps DEF Running
    <3>4. Cardinality(Running) = N - 1
      BY <1>1, <3>2, <3>3
    <3>5. Running = Aps
      BY <3>4, SomeAps DEF Running
    <3> QED BY <1>1, <1>2, <2>1, <3>1, <3>5, PassBegins DEF Counting, ReportTrue, Before
  <2>4. CASE /\ bsp.i = N /\ ~Enough
             /\ bsp' = Restart(IF NextPoll < Timeout THEN "poll" ELSE "tally", NextPoll)
    <3>1. NextPoll \in 0 .. Timeout + 1 /\ NextPoll = bsp.polls + 1
      BY <1>1, <2>1 DEF NextPoll
    <3>2. BspAfter(IF NextPoll < Timeout THEN "poll" ELSE "tally", 1, 0, NextPoll)
      BY <1>1, <2>4, <3>1, RestartStep
    <3> HIDE DEF NextPoll
    <3>3. CASE NextPoll < Timeout
      BY <1>1, <1>2, <2>1, <3>1, <3>2, <3>3, PassBegins DEF Counting, ReportTrue, Before
    <3>4. CASE ~(NextPoll < Timeout)
      BY <1>1, <1>2, <2>1, <3>1, <3>2, <3>4, PassBegins DEF Counting, ReportTrue, Before
    <3> QED BY <3>3, <3>4
  <2> QED BY <1>5, <2>2, <2>3, <2>4 DEF poll
<1>6. CASE tally
  <2>1. /\ bsp.i \in 1 .. N /\ bsp.pc = "tally"
        /\ bsp.polls >= Timeout \/ (Running = Aps /\ bsp.running = Before(bsp.i))
        /\ started_count' = started_count /\ goto_address' = goto_address
    BY <1>1, <1>6 DEF tally, Counting
  <2>2. CASE bsp.i < N
    <3>1. BspAfter("tally", bsp.i + 1, Seen, bsp.polls) /\ bsp.i + 1 \in 1 .. N
      BY <1>1, <1>6, <2>1, <2>2, LookStep, SeenBounds DEF tally
    <3> HIDE DEF Seen
    <3> QED BY <1>1, <1>2, <2>1, <3>1, SeenBounds DEF Counting, ReportTrue, Before
  <2>3. CASE ~(bsp.i < N)
    <3>1. bsp' = [bsp EXCEPT !.pc = "report", !.running = Seen] /\ bsp.i = N
      BY <1>1, <1>6, <2>1, <2>3 DEF tally
    <3>2. Seen \in 0 .. N - 1 /\ Seen <= Cardinality(Running)
          /\ (Seen = N - 1 \/ bsp.polls >= Timeout)
      BY <2>1, <3>1, SeenBounds
    <3> HIDE DEF Seen
    <3>3. BspAfter("report", bsp.i, Seen, bsp.polls)
      BY <1>1, <3>1, <3>2 DEF BspRegisters
    <3>4. Counting'
      BY <3>3 DEF Counting
    <3>5. {c \in Aps : state'[c] = "RUNNING"} = Running
      BY <1>2 DEF Running
    <3>6. ReportTrue'
      BY <3>2, <3>3, <3>5 DEF ReportTrue
    <3> QED BY <1>1, <2>1, <3>3, <3>4, <3>6
  <2> QED BY <2>2, <2>3
<1>7. CASE report
  <2>1. bsp' = [bsp EXCEPT !.pc = "done"] /\ bsp.pc = "report" /\ goto_address' = goto_address
        /\ started_count' \in 1 .. N
    BY <1>1, <1>7 DEF report, Total
  <2>2. BspAfter("done", bsp.i, bsp.running, bsp.polls)
    BY <1>1, <2>1 DEF BspRegisters
  <2>3. ReportTrue
    BY DEF IInv
  <2> QED BY <1>1, <1>2, <2>1, <2>2, <2>3 DEF Counting, ReportTrue
<1> QED BY <1>3, <1>4, <1>5, <1>6, <1>7 DEF BspStep

-----------------------------------------------------------------------------
(* The invariant and what follows from it.                                 *)

(* After smp_init no processor has been started.                           *)
LEMMA InvHoldsInitially == Init => IInv
<1> SUFFICES ASSUME Init PROVE IInv
  OBVIOUS
<1> USE SmpConstants DEF Init
<1>1. \A c \in Aps : ap[c].pc = "parked"
  OBVIOUS
<1>2. TypeOK
  <2>1. [pc |-> "parked", for |-> "stack", page |-> 0, byte |-> {}, table |-> 0, gs |-> 0] \in Registers
    BY DEF Registers, ApSteps
  <2>2. [pc |-> "idle", i |-> 0, running |-> 0, polls |-> 0, calls |-> 0] \in BspRegisters
    BY DEF BspRegisters
  <2>3. ap \in [Aps -> Registers] /\ bsp \in BspRegisters
    BY <2>1, <2>2
  <2> HIDE DEF Init
  <2>4. started_count \in 1 .. 2 * N - 1
    BY DEF Init
  <2>5. state \in [Cpus -> {"UNUSED", "RUNNING", "HALTED"}]
        /\ kernel_stack \in [Cpus -> {0} \cup Pages] /\ gs_base \in [Cpus -> {0} \cup Cpus]
    BY DEF Init
  <2> QED BY <2>3, <2>4, <2>5 DEF TypeOK, Registers, BspRegisters, Init
<1>3. ApInv
  BY <1>1 DEF ApInv, Stage, Chosen, HasStack, Searching
<1>4. OldPagesSafe
  BY DEF OldPagesSafe, Taken
<1>5. AloneInv
  BY <1>1 DEF AloneInv, OneAtATime, SettingUp, Apart, Knows, Searching
<1>6. Counting /\ ReportTrue
  BY DEF Counting, ReportTrue
<1>7. Counted
  <2>1. Cardinality({c \in Aps : ap[c].pc = "hlt"}) \in Nat
    BY SomeAps
  <2> QED BY <2>1 DEF Counted
<1> QED BY <1>2, <1>3, <1>4, <1>5, <1>6, <1>7 DEF IInv

(* Every step of every processor keeps the invariant.                      *)
LEMMA InvHoldsAfter == IInv /\ [Next]_vars => IInv'
<1> SUFFICES ASSUME IInv, [Next]_vars PROVE IInv'
  OBVIOUS
<1>1. CASE \E c \in Aps : Ap(c)
  BY <1>1, ApStepTypes, ApInvKept, OldPagesKept, AloneKept, CountingKept DEF IInv
<1>2. CASE smp_start_aps \/ BspStep
  <2>1. /\ bsp' \in BspRegisters /\ goto_address' \subseteq Aps
        /\ Counting' /\ ReportTrue' /\ started_count' \in {started_count} \cup 1 .. N
    BY <1>2, BspInv
  <2>2. /\ UNCHANGED <<state, kernel_stack, gs_base, bitmap, pt, leaves, ap, overlapped, in_use>>
        /\ goto_address \subseteq goto_address'
    BY <1>2 DEF smp_start_aps, BspStep, release, poll, tally, report, BspOnly, memory
  <2>3. started_count' \in 1 .. 2 * N - 1
    BY <2>1, SmpConstants DEF IInv, TypeOK
  <2>4. TypeOK'
    BY <2>1, <2>2, <2>3 DEF IInv, TypeOK, BspRegisters
  <2>5. ApInv'
    BY <2>2 DEF IInv, ApInv, Stage, Chosen, HasStack, Searching
  <2>6. OldPagesSafe'
    BY <2>2 DEF IInv, OldPagesSafe, Taken
  <2>7. AloneInv'
    BY <2>2 DEF IInv, AloneInv, OneAtATime, SettingUp, Apart, Knows, Searching
  <2>8. Counted'
    <3>1. Cardinality({c \in Aps : ap[c].pc = "hlt"}) \in Nat
      BY SomeAps
    <3> QED BY <2>1, <2>2, <3>1, SmpConstants DEF IInv, Counted
  <2> QED BY <2>1, <2>4, <2>5, <2>6, <2>7, <2>8 DEF IInv
<1>3. CASE UNCHANGED vars
  BY <1>3 DEF vars, smp_state, memory, IInv, TypeOK, ApInv, Stage, Chosen, HasStack, Searching,
       OldPagesSafe, Taken, AloneInv, OneAtATime, SettingUp, Apart, Knows, Counting, Before,
       Running, ReportTrue, Counted
<1> QED BY <1>1, <1>2, <1>3 DEF Next

(* Every processor is where its state and its entry point say, and what it *)
(* has taken from the bitmap is its own, as smp_start_aps and ap_entry go. *)
THEOREM SmpInvariant == Spec => []IInv
<1> QED BY InvHoldsInitially, InvHoldsAfter, PTL DEF Spec

(* Every variable keeps its type, for any number of processors and pages:  *)
(* in particular started_count never passes 2 * N - 1, although each       *)
(* processor adds to it and smp_start_aps overwrites it.                   *)
THEOREM SmpTypes == Spec => []TypeOK
<1>1. IInv => TypeOK
  BY DEF IInv
<1> QED BY <1>1, SmpInvariant, PTL

(* RUNNING is announced by a processor that was told to start and has its  *)
(* stack and its gs_base; one that ran out of memory has neither.          *)
THEOREM ProcessorsAreSetUp == Spec => []RunningIsSetUp
<1>1. IInv => RunningIsSetUp
  BY DEF IInv, ApInv, RunningIsSetUp, Stage, HasStack, Searching
<1> QED BY <1>1, SmpInvariant, PTL

(* While the processors are in pmm.c and paging.c one at a time, no page   *)
(* is given out twice, every stack is marked and mapped unless memory ran  *)
(* out, and a processor halts only when no page is left.                   *)
THEOREM StacksAreExclusive == Spec => []StacksExclusive
<1>1. IInv => StacksExclusive
  <2> SUFFICES ASSUME IInv, ~overlapped PROVE StacksExclusive
    BY DEF StacksExclusive
  <2>1. TypeOK /\ ApInv /\ Apart /\ \A c \in Aps : Knows(c)
    BY DEF IInv, AloneInv
  <2>2. \A c, d \in Aps : c # d => Taken(c) \cap Taken(d) = {}
    BY <2>1 DEF Apart, Taken
  <2>3. \A c \in Aps : Taken(c) \subseteq bitmap \ (in_use \cup {pt})
    BY <2>1 DEF Apart, Taken
  <2>4. \A c \in Aps :
          /\ state[c] = "RUNNING" => <<pt, kernel_stack[c]>> \in leaves \/ bitmap = Pages
          /\ state[c] = "HALTED" => bitmap = Pages
    BY <2>1 DEF ApInv, Stage, Knows
  <2> QED BY <2>2, <2>3, <2>4 DEF StacksExclusive
<1> QED BY <1>1, SmpInvariant, PTL

(* However the processors overlap, a page in use before smp_start_aps is   *)
(* never given to one of them, nor made the table.                         *)
THEOREM OldPagesAreSafe == Spec => []OldPagesSafe
<1>1. IInv => OldPagesSafe
  BY DEF IInv
<1> QED BY <1>1, SmpInvariant, PTL

(* smp_start_aps counts only processors that are RUNNING, and reports less *)
(* than all of them only after the timeout.                                *)
THEOREM ReportIsTrue == Spec => []ReportTrue
<1>1. IInv => ReportTrue
  BY DEF IInv
<1> QED BY <1>1, SmpInvariant, PTL
=============================================================================
