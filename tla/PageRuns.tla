------------------------------ MODULE PageRuns ------------------------------
(***************************************************************************)
(* What pmm.c means by "count consecutive free pages".  Both the allocator *)
(* (Pmm) and the loop that searches the bitmap (PmmScan) are stated with   *)
(* these operators, so that the loop can be shown to find what the         *)
(* allocator asks for.  Pages are numbered from 0; the search looks at the *)
(* pages 1 .. limit - 1.                                                   *)
(***************************************************************************)
EXTENDS Integers

(* The pages of a grant of count pages that begins at page start. *)
Run(start, count) == start .. (start + count - 1)

(* A grant of count pages may begin at page start. *)
RunAt(free, start, count) == Run(start, count) \subseteq free

(* The page find_free_pages returns: the lowest one a run begins at. *)
IsFirstFit(free, start, count) ==
  /\ start \in free
  /\ RunAt(free, start, count)
  /\ \A s \in free : s < start => ~RunAt(free, s, count)

(* No run of that length exists: find_free_pages returns (uint64_t)-1. *)
NoRun(free, count) == \A s \in free : ~RunAt(free, s, count)
=============================================================================
