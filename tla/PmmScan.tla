------------------------------ MODULE PmmScan ------------------------------
(***************************************************************************)
(* The loop of find_free_pages in kernel/src/memory/pmm.c, one iteration a *)
(* step.  Pmm takes the answer of the search as one operator; here the     *)
(* counter "consecutive" and the remembered "start_page" are shown to      *)
(* compute it, for every set of free pages and every count.                *)
(*                                                                         *)
(* "free" stands for the pages that pass both tests of an iteration, the   *)
(* clear bit and the usable entry: either failing resets the counter.      *)
(***************************************************************************)
EXTENDS Integers, PageRuns

CONSTANTS total_pages,  (* the pages the bitmap covers                     *)
          Counts        (* the values of the argument                      *)

ASSUME ScanAssumption == total_pages \in Nat \ {0} /\ Counts \subseteq Nat

VARIABLES free, count,            (* what the call is about                *)
          i, consecutive, start_page,
          result                  (* what it returned                      *)

callVars == <<free, count>>
scanVars == <<free, count, i, consecutive, start_page, result>>

Running == 0                      (* the loop has not returned: it never     *)
                                  (* looks at page 0                         *)
NotFound == -1                    (* (uint64_t)-1                          *)

ScanInit ==
  /\ free \in SUBSET (1 .. total_pages - 1)
  /\ count \in Counts
  /\ i = 1
  /\ consecutive = 0
  /\ start_page = 0
  /\ result = Running

Looking == result = Running /\ i < total_pages

(* Mutant: start_page is set once and for all.                             *)
CountPage_FirstStart ==
  /\ Looking
  /\ i \in free
  /\ start_page' = IF start_page = 0 THEN i ELSE start_page
  /\ consecutive' = consecutive + 1
  /\ \/ consecutive + 1 = count /\ result' = start_page' /\ i' = i
     \/ consecutive + 1 # count /\ result' = result /\ i' = i + 1
  /\ UNCHANGED callVars

CountPage ==
  /\ Looking
  /\ i \in free
  /\ start_page' = IF consecutive = 0 THEN i ELSE start_page
  /\ consecutive' = consecutive + 1
  /\ \/ consecutive + 1 = count /\ result' = start_page' /\ i' = i
     \/ consecutive + 1 # count /\ result' = result /\ i' = i + 1
  /\ UNCHANGED callVars

SkipPage ==
  /\ Looking
  /\ i \notin free
  /\ consecutive' = 0
  /\ i' = i + 1
  /\ UNCHANGED <<callVars, start_page, result>>

(* Mutant: the loop condition does not agree with what follows the loop.   *)
GiveUp_PastEnd ==
  /\ result = Running
  /\ i > total_pages
  /\ result' = NotFound
  /\ UNCHANGED <<callVars, i, consecutive, start_page>>

GiveUp ==
  /\ result = Running
  /\ i >= total_pages
  /\ result' = NotFound
  /\ UNCHANGED <<callVars, i, consecutive, start_page>>

ScanNext == CountPage \/ SkipPage \/ GiveUp

(* The loop is run by the caller to its end: nothing else can happen.      *)
ScanSpec == ScanInit /\ [][ScanNext]_scanVars /\ WF_scanVars(ScanNext)

-----------------------------------------------------------------------------
(* The pages counted so far are the free pages just below i, no run of     *)
(* count pages begins below them, and start_page is the first of them.     *)
ScanInv ==
  /\ free \subseteq 1 .. total_pages - 1
  /\ count \in Nat
  /\ result = Running =>
       /\ i \in 1 .. total_pages
       /\ consecutive \in 0 .. i - 1
       /\ count > 0 => consecutive < count
       /\ Run(i - consecutive, consecutive) \subseteq free
       /\ consecutive > 0 => start_page = i - consecutive
       /\ count > 0 => \A s \in free : s < i - consecutive => ~RunAt(free, s, count)

(* The loop returns the lowest page at which a run of count free pages     *)
(* begins, and (uint64_t)-1 exactly when there is none or none was asked   *)
(* for: the reset of "consecutive" loses no run that began earlier.        *)
FindsFirstFit ==
  \/ result = Running
  \/ result = NotFound /\ (count > 0 => NoRun(free, count))
  \/ count > 0 /\ IsFirstFit(free, result, count)

(* find_free_pages always returns.                                         *)
Returns == <>(result # Running)
=============================================================================
