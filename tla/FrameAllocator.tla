--------------------------- MODULE FrameAllocator ---------------------------
(***************************************************************************)
(* What the rest of the kernel needs of the physical memory manager: an    *)
(* arena of page frames, each of which is free or granted to one holder.   *)
(* Nothing is said of bitmaps, counters or of which free run is chosen.    *)
(* A request is refused only when no run of that length is free; the       *)
(* refusal is the start 0, so frame 0 must never be granted.               *)
(***************************************************************************)
EXTENDS Integers, PageRuns

CONSTANT Counts     (* how many frames one request may ask for             *)

VARIABLES arena,    (* the frames that can ever be granted                 *)
          free,     (* the frames nobody holds                             *)
          answer    (* the last request: how many frames, and which start  *)

frameVars == <<arena, free, answer>>

FrameInit ==
  /\ arena \subseteq Nat \ {0}
  /\ free = arena
  /\ answer = [count |-> 0, start |-> 0]

Grant(count) ==
  \E start \in free :
    /\ count > 0
    /\ RunAt(free, start, count)
    /\ free' = free \ Run(start, count)
    /\ answer' = [count |-> count, start |-> start]
    /\ UNCHANGED arena

Refuse(count) ==
  /\ count > 0 => NoRun(free, count)
  /\ answer' = [count |-> count, start |-> 0]
  /\ UNCHANGED <<arena, free>>

Release ==
  /\ free \subseteq free'
  /\ free' \subseteq arena
  /\ UNCHANGED <<arena, answer>>

FrameNext ==
  \/ \E count \in Counts : Grant(count) \/ Refuse(count)
  \/ Release

FrameSpec == FrameInit /\ [][FrameNext]_frameVars
=============================================================================
