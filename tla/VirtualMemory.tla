--------------------------- MODULE VirtualMemory ----------------------------
(***************************************************************************)
(* What the rest of the kernel sees of paging.c and vmm.c: address spaces  *)
(* that translate pages to frames.  Nothing is said of tables.  A page is  *)
(* mapped or withdrawn one at a time; the kernel's pages are the same in   *)
(* every space; no frame is behind two user pages, nor both behind a page  *)
(* and the top of a space.  A call that fails leaves all pages as they are.*)
(***************************************************************************)
EXTENDS Functions

CONSTANTS Frames, VirtualPages,
          KernelPages,       (* the pages that all spaces share            *)
          BootSpace          (* the space that is never destroyed          *)

VARIABLES view,              (* space -> page -> entry                     *)
          current            (* the space the processor runs in            *)

memoryVars == <<view, current>>

Unmapped == [frame |-> 0]

(* The frames behind the pages of some spaces.                             *)
FramesBehind(v) == {e.frame : e \in UNION {Range(pages) : pages \in Range(v)}} \ {0}

(* The spaces when a page of one of them is given an entry.                *)
With(v, s, va, entry) ==
  [u \in DOMAIN v |->
     IF u = s \/ va \in KernelPages THEN [v[u] EXCEPT ![va] = entry] ELSE v[u]]

(* What a frame must not be to be given a new role.                        *)
InUse == FramesBehind(view) \cup DOMAIN view

MemoryInit ==
  /\ view = [s \in {BootSpace} |-> [va \in VirtualPages |-> Unmapped]]
  /\ current = BootSpace

(* A call that is refused, or is about no page.                            *)
Keep == UNCHANGED memoryVars

(* A page gets an entry, of any frame that has no role yet.                *)
Map(s, va) ==
  LET entry == view'[s][va]
  IN  /\ view[s][va] = Unmapped
      /\ entry \in [frame : Frames \ InUse, nx : BOOLEAN]
      /\ view' = With(view, s, va, entry)
      /\ UNCHANGED current

Unmap(va) ==
  /\ view[current][va] # Unmapped
  /\ view' = With(view, current, va, Unmapped)
  /\ UNCHANGED current

Create(s) ==
  /\ s \notin InUse
  /\ view' = [u \in DOMAIN view \cup {s} |->
                IF u # s THEN view[u]
                ELSE [va \in VirtualPages |->
                        IF va \in KernelPages THEN view[BootSpace][va] ELSE Unmapped]]
  /\ UNCHANGED current

Destroy(s) ==
  /\ s \notin {BootSpace, current}
  /\ view' = [u \in DOMAIN view \ {s} |-> view[u]]
  /\ UNCHANGED current

Switch(s) == current' = s /\ UNCHANGED view

MemoryNext ==
  \/ Keep
  \/ \E s \in DOMAIN view : Switch(s) \/ Destroy(s)
  \/ \E s \in Frames : Create(s)
  \/ \E va \in VirtualPages :
       \/ Unmap(va)
       \/ \E s \in DOMAIN view : Map(s, va)

MemorySpec == MemoryInit /\ [][MemoryNext]_memoryVars
=============================================================================
