----------------------------- MODULE SmpStartup -----------------------------
(***************************************************************************)
(* Starting the application processors, kernel/src/sys/smp.c: the boot     *)
(* processor in smp_start_aps and every other processor in ap_entry, with  *)
(* no lock between any of them.                                            *)
(*                                                                         *)
(* ap_entry takes its stack from the physical memory manager and maps it,  *)
(* so the accesses of pmm.c and paging.c to shared memory are steps here:  *)
(* a look at one bit of the bitmap, the load and the store of "|=" on a    *)
(* byte, a look at a table entry and its update.  The pages are bits of    *)
(* one byte, and of the four levels of tables one is missing when the      *)
(* processors start, the one that all the stacks need.                     *)
(***************************************************************************)
EXTENDS Integers, FiniteSets

CONSTANTS N,          (* mp_response->cpu_count                            *)
          Bsp,        (* the processor whose lapic_id is bsp_lapic_id      *)
          LastPage,   (* the pages pmm.c looks at are 1 .. LastPage        *)
          Layouts,    (* the sets of them that may be in use by then       *)
          Timeout,    (* how often the boot processor polls, 5000000       *)
          MaxCalls    (* bound: calls of smp_start_aps                     *)

Cpus == 1 .. N
Aps == Cpus \ {Bsp}
Pages == 1 .. LastPage

ASSUME SmpAssumption ==
  /\ N \in Nat \ {0} /\ Bsp \in Cpus
  /\ LastPage \in Nat /\ Layouts \subseteq SUBSET Pages
  /\ Timeout \in Nat /\ MaxCalls \in Nat

VARIABLES state,          (* smp_state.cpus[i].state                       *)
          kernel_stack,   (* smp_state.cpus[i].kernel_stack, as a page     *)
          gs_base,        (* smp_state.cpus[i].gs_base, as a processor     *)
          started_count,  (* smp_state.started_count                       *)
          goto_address,   (* the processors given an entry point           *)
          bitmap,         (* the pages whose bit is set                    *)
          pt,             (* the table the shared entry refers to, or 0    *)
          leaves,         (* the entries written: <<table, page>>          *)
          ap,             (* the registers of each application processor   *)
          bsp,            (* those of the boot processor                   *)
          in_use,         (* the pages in use when smp_start_aps begins    *)
          overlapped      (* history: two processors were in pmm.c or in   *)
                          (* paging.c at the same time                     *)

memory == <<bitmap, pt, leaves>>
smp_state == <<state, kernel_stack, gs_base, started_count>>
vars == <<smp_state, goto_address, memory, ap, bsp, in_use, overlapped>>

-----------------------------------------------------------------------------
(* What smp_init leaves: the boot processor RUNNING, the others UNUSED.    *)
Init ==
  /\ state = [c \in Cpus |-> IF c = Bsp THEN "RUNNING" ELSE "UNUSED"]
  /\ kernel_stack = [c \in Cpus |-> 0]
  /\ gs_base = [c \in Cpus |-> IF c = Bsp THEN c ELSE 0]
  /\ started_count = 1
  /\ goto_address = {}
  /\ in_use \in Layouts
  /\ bitmap = in_use
  /\ pt = 0
  /\ leaves = {}
  /\ ap = [c \in Aps |-> [pc |-> "parked", for |-> "stack",
                          page |-> 0, byte |-> {}, table |-> 0, gs |-> 0]]
  /\ bsp = [pc |-> "idle", i |-> 0, running |-> 0, polls |-> 0, calls |-> 0]
  /\ overlapped = FALSE

-----------------------------------------------------------------------------
(* ap_entry, on processor c.                                               *)

Step(c, pc, changes) == ap' = [ap EXCEPT ![c] = [changes EXCEPT !.pc = pc]]

SettingUp(c) == ap[c].pc \in {"find", "load", "store", "walk", "link", "leaf"}

(* find_free_pages starts at page 1.                                       *)
Find(c, for) == Step(c, "find", [ap[c] EXCEPT !.for = for, !.page = 1])

(* Mutant: the search does not advance.                                    *)
NextPage_Same(c) == ap[c].page

NextPage(c) == ap[c].page + 1

ap_entry(c) ==
  /\ ap[c].pc = "parked" /\ c \in goto_address
  /\ Find(c, "stack")
  /\ overlapped' = (overlapped \/ \E d \in Aps \ {c} : SettingUp(d))
  /\ UNCHANGED <<smp_state, goto_address, memory, bsp>>

find_free_pages(c) ==
  /\ ap[c].pc = "find"
  /\ \/ /\ ap[c].page \in Pages \ bitmap
        /\ Step(c, "load", ap[c])
        /\ UNCHANGED state
     \/ /\ ap[c].page \in bitmap
        /\ Step(c, "find", [ap[c] EXCEPT !.page = NextPage(c)])
        /\ UNCHANGED state
     \/ /\ ap[c].page \notin Pages        (* out of memory                 *)
        /\ \/ /\ ap[c].for = "stack"
              /\ state' = [state EXCEPT ![c] = "HALTED"]
              /\ Step(c, "returned", ap[c])
           \/ /\ ap[c].for = "table"      (* paging_map_page returns false *)
              /\ Step(c, "gs", ap[c])
              /\ UNCHANGED state
  /\ UNCHANGED <<kernel_stack, gs_base, started_count, goto_address, memory,
                 bsp, overlapped>>

(* Mutants: the new bit is not set, or the byte is assigned ("=" for "|=").*)
ByteWritten_Old(c) == ap[c].byte
ByteWritten_New(c) == {ap[c].page}

ByteWritten(c) == ap[c].byte \cup {ap[c].page}

bitmap_load(c) ==
  /\ ap[c].pc = "load"
  /\ Step(c, "store", [ap[c] EXCEPT !.byte = bitmap])
  /\ UNCHANGED <<smp_state, goto_address, memory, bsp, overlapped>>

(* The store, and what the caller of pmm_alloc_page does with the page.    *)
bitmap_store(c) ==
  /\ ap[c].pc = "store"
  /\ bitmap' = ByteWritten(c)
  /\ \/ /\ ap[c].for = "stack"
        /\ kernel_stack' = [kernel_stack EXCEPT ![c] = ap[c].page]
        /\ Step(c, "walk", ap[c])
     \/ /\ ap[c].for = "table"
        /\ Step(c, "link", [ap[c] EXCEPT !.table = ap[c].page])
        /\ UNCHANGED kernel_stack
  /\ UNCHANGED <<state, gs_base, started_count, goto_address, pt, leaves,
                 bsp, overlapped>>

(* get_next_table, before and after its call of pmm_alloc_page.            *)
walk(c) ==
  /\ ap[c].pc = "walk"
  /\ \/ pt # 0 /\ Step(c, "leaf", [ap[c] EXCEPT !.table = pt])
     \/ pt = 0 /\ Find(c, "table")
  /\ UNCHANGED <<smp_state, goto_address, memory, bsp, overlapped>>

link(c) ==
  /\ ap[c].pc = "link"
  /\ pt' = ap[c].table
  /\ Step(c, "leaf", ap[c])
  /\ UNCHANGED <<smp_state, goto_address, bitmap, leaves, bsp, overlapped>>

(* Mutant: RUNNING is announced before gs_base is set.                     *)
write_leaf_Early(c) ==
  /\ ap[c].pc = "leaf"
  /\ leaves' = leaves \cup {<<ap[c].table, kernel_stack[c]>>}
  /\ Step(c, "announce", ap[c])
  /\ UNCHANGED <<smp_state, goto_address, bitmap, pt, bsp, overlapped>>

write_leaf(c) ==
  /\ ap[c].pc = "leaf"
  /\ leaves' = leaves \cup {<<ap[c].table, kernel_stack[c]>>}
  /\ Step(c, "gs", ap[c])
  /\ UNCHANGED <<smp_state, goto_address, bitmap, pt, bsp, overlapped>>

(* The entry of smp_state.cpus, and the register: IA32_GS_BASE points to   *)
(* the entry from here on, for smp_get_current_cpu to read.                *)
set_gs_base(c) ==
  /\ ap[c].pc = "gs"
  /\ gs_base' = [gs_base EXCEPT ![c] = c]
  /\ Step(c, "gdt", [ap[c] EXCEPT !.gs = c])
  /\ UNCHANGED <<state, kernel_stack, started_count, goto_address, memory,
                 bsp, overlapped>>

(* Loading the selector of the data segment, whose base is 0, into %gs     *)
(* sets the register to that base.                                         *)
gdt_load(c) ==
  /\ ap[c].pc = "gdt"
  /\ Step(c, "announce", [ap[c] EXCEPT !.gs = 0])
  /\ UNCHANGED <<smp_state, goto_address, memory, bsp, overlapped>>

announce(c) ==
  /\ ap[c].pc = "announce"
  /\ state' = [state EXCEPT ![c] = "RUNNING"]
  /\ Step(c, "count", ap[c])
  /\ UNCHANGED <<kernel_stack, gs_base, started_count, goto_address, memory,
                 bsp, overlapped>>

fetch_and_add(c) ==
  /\ ap[c].pc = "count"
  /\ started_count' = started_count + 1
  /\ Step(c, "hlt", ap[c])
  /\ UNCHANGED <<state, kernel_stack, gs_base, goto_address, memory,
                 bsp, overlapped>>

Ap(c) ==
  /\ \/ ap_entry(c) \/ find_free_pages(c) \/ bitmap_load(c) \/ bitmap_store(c)
     \/ walk(c) \/ link(c) \/ write_leaf(c) \/ set_gs_base(c) \/ gdt_load(c)
     \/ announce(c) \/ fetch_and_add(c)
  /\ UNCHANGED in_use

-----------------------------------------------------------------------------
(* smp_start_aps, on the boot processor.                                   *)

BspOnly ==
  UNCHANGED <<state, kernel_stack, gs_base, memory, ap, in_use, overlapped>>

smp_start_aps ==
  /\ bsp.pc \in {"idle", "done"} /\ bsp.calls < MaxCalls /\ N > 1
  /\ bsp' = [pc |-> "release", i |-> 1, running |-> 0, polls |-> 0,
             calls |-> bsp.calls + 1]
  /\ BspOnly /\ UNCHANGED <<started_count, goto_address>>

(* One entry of mp_response->cpus: a processor that has an entry point     *)
(* keeps it.                                                               *)
release ==
  /\ bsp.pc = "release"
  /\ goto_address' = goto_address \cup ({bsp.i} \ {Bsp})
  /\ bsp' = IF bsp.i < N THEN [bsp EXCEPT !.i = @ + 1]
                         ELSE [bsp EXCEPT !.i = 1, !.pc = "poll"]
  /\ BspOnly /\ UNCHANGED started_count

(* One look at one processor, in the loops that count.                     *)
Seen == bsp.running + (IF bsp.i \in Aps /\ state[bsp.i] = "RUNNING" THEN 1 ELSE 0)

Look == [bsp EXCEPT !.i = @ + 1, !.running = Seen]

Restart(pc, polls) == [bsp EXCEPT !.pc = pc, !.i = 1, !.running = 0, !.polls = polls]

(* Mutant: one application processor is enough.                            *)
Enough_Any == Seen >= 1

(* The pass in progress sees every application processor RUNNING, or it is *)
(* the last the timeout allows.                                            *)
Enough == Seen >= N - 1

NextPoll == bsp.polls + 1

poll ==
  /\ bsp.pc = "poll"
  /\ \/ bsp.i < N /\ bsp' = Look
     \/ bsp.i = N /\ Enough /\ bsp' = Restart("tally", bsp.polls)
     \/ /\ bsp.i = N /\ ~Enough
        /\ bsp' = Restart(IF NextPoll < Timeout THEN "poll" ELSE "tally", NextPoll)
  /\ BspOnly /\ UNCHANGED <<started_count, goto_address>>

(* The count that is printed, and then becomes started_count.              *)
tally ==
  /\ bsp.pc = "tally"
  /\ bsp' = IF bsp.i < N THEN Look
                         ELSE [bsp EXCEPT !.pc = "report", !.running = Seen]
  /\ BspOnly /\ UNCHANGED <<started_count, goto_address>>

(* Mutant: the boot processor is not counted.                              *)
Total_NoBsp == bsp.running

Total == 1 + bsp.running

report ==
  /\ bsp.pc = "report"
  /\ started_count' = Total
  /\ bsp' = [bsp EXCEPT !.pc = "done"]
  /\ BspOnly /\ UNCHANGED goto_address

BspStep == release \/ poll \/ tally \/ report

-----------------------------------------------------------------------------
Next == smp_start_aps \/ BspStep \/ \E c \in Aps : Ap(c)

(* Every processor keeps running once it has begun; the boot processor may *)
(* never call smp_start_aps.                                               *)
Fairness == WF_vars(BspStep) /\ \A c \in Aps : WF_vars(Ap(c))

Spec == Init /\ [][Next]_vars /\ Fairness

-----------------------------------------------------------------------------
ApSteps == {"parked", "find", "load", "store", "walk", "link", "leaf", "gs",
            "gdt", "announce", "count", "hlt", "returned"}

TypeOK ==
  /\ state \in [Cpus -> {"UNUSED", "RUNNING", "HALTED"}]
  /\ kernel_stack \in [Cpus -> {0} \cup Pages]
  /\ gs_base \in [Cpus -> {0} \cup Cpus]
  /\ started_count \in 1 .. 2 * N - 1
  /\ goto_address \subseteq Aps
  /\ bitmap \subseteq Pages /\ pt \in {0} \cup Pages /\ leaves \subseteq Pages \X Pages
  /\ ap \in [Aps -> [pc : ApSteps, for : {"stack", "table"}, page : 0 .. LastPage + 1,
                     byte : SUBSET Pages, table : {0} \cup Pages,
                     gs : {0} \cup Cpus]]
  /\ bsp \in [pc : {"idle", "release", "poll", "tally", "report", "done"},
              i : 0 .. N, running : 0 .. N - 1, polls : 0 .. Timeout + 1,
              calls : 0 .. MaxCalls]
  /\ in_use \subseteq Pages /\ overlapped \in BOOLEAN

(* A processor that others see RUNNING was told to start, and its entry of *)
(* smp_state.cpus has its stack and its gs_base.  Its register does not:   *)
(* gdt_load has undone what set_gs_base wrote, and smp_get_current_cpu     *)
(* would find 0 there.  One that is HALTED has none of them.               *)
RunningIsSetUp ==
  \A c \in Aps :
    /\ state[c] = "RUNNING" =>
         /\ c \in goto_address /\ kernel_stack[c] # 0 /\ gs_base[c] = c
         /\ ap[c].gs = 0
    /\ state[c] = "HALTED" => kernel_stack[c] = 0 /\ gs_base[c] = 0 /\ ap[c].gs = 0

(* The pages in use: the stacks and the table.                             *)
Taken(c) == {kernel_stack[c]} \ {0}

(* As long as no two processors were setting up at the same time, nothing  *)
(* is shared: a stack is its owner's alone, is marked in the bitmap, is    *)
(* not the table, and is mapped unless memory ran out; and a processor     *)
(* halts only when no page is left.                                        *)
StacksExclusive ==
  ~overlapped =>
    /\ \A c, d \in Aps : c # d => Taken(c) \cap Taken(d) = {}
    /\ \A c \in Aps :
         /\ Taken(c) \subseteq bitmap \ (in_use \cup {pt})
         /\ state[c] = "RUNNING" => <<pt, kernel_stack[c]>> \in leaves \/ bitmap = Pages
         /\ state[c] = "HALTED" => bitmap = Pages

(* However they overlap, no processor is given a page that was in use      *)
(* before smp_start_aps.                                                   *)
OldPagesSafe ==
  /\ in_use \subseteq bitmap
  /\ \A c \in Aps : Taken(c) \cap in_use = {}
  /\ pt \notin in_use

(* What smp_start_aps prints is true: it counts no processor that is not   *)
(* RUNNING, and it gives up on one only after the timeout.                 *)
ReportTrue ==
  bsp.pc \in {"report", "done"} =>
    /\ bsp.running <= Cardinality({c \in Aps : state[c] = "RUNNING"})
    /\ bsp.running = N - 1 \/ bsp.polls >= Timeout

BspReturns == bsp.pc = "release" ~> bsp.pc = "done"
ApsSettle == \A c \in Aps : c \in goto_address ~> state[c] \in {"RUNNING", "HALTED"}

(* smp_start_aps returns, whatever the other processors do, and each that  *)
(* is given an entry point ends up RUNNING or HALTED, also when memory     *)
(* runs out under it or the boot processor has stopped waiting for it.     *)
EverybodySettles == BspReturns /\ ApsSettle

(* "CPUs: %d/%d running" of display_system_info, kernel.c:197, prints      *)
(* started_count: once smp_start_aps has returned and no application       *)
(* processor is under way, it is the number of RUNNING processors.         *)
StartedCountExact ==
  /\ bsp.pc = "done"
  /\ \A c \in Aps : ap[c].pc \in {"parked", "hlt", "returned"}
  => started_count = Cardinality({c \in Cpus : state[c] = "RUNNING"})
=============================================================================
