--------------------------- MODULE PmmScanProofs ----------------------------
(***************************************************************************)
(* find_free_pages returns the first fit, for every number of pages, set   *)
(* of free pages and count.                                                *)
(***************************************************************************)
EXTENDS PmmScan, TLAPS

(* The loop of find_free_pages starts in its invariant.                    *)
LEMMA ScanInitInv == ScanInit => ScanInv /\ FindsFirstFit
BY ScanAssumption DEF ScanInit, ScanInv, FindsFirstFit, Run, RunAt, Running

(* Every round of the loop keeps it.                                       *)
LEMMA ScanStep ==
  ASSUME ScanInv, FindsFirstFit, [ScanNext]_scanVars
  PROVE  ScanInv' /\ FindsFirstFit'
<1> USE ScanAssumption DEF Running, NotFound
<1>1. CASE CountPage
  <2> USE <1>1
  <2>1. /\ i \in 1 .. total_pages - 1 /\ i \in free
        /\ consecutive \in 0 .. i - 1
        /\ start_page' = i - consecutive
    BY DEF CountPage, Looking, ScanInv
  <2>2. Run(i - consecutive, consecutive + 1) \subseteq free
    BY <2>1 DEF ScanInv, CountPage, Looking, Run
  <2>3. CASE consecutive + 1 = count
    <3>1. result' = i - consecutive /\ free' = free /\ count' = count
      BY <2>1, <2>3 DEF CountPage, callVars
    <3>2. IsFirstFit(free, i - consecutive, count)
      BY <2>1, <2>2, <2>3 DEF IsFirstFit, RunAt, Run, ScanInv, CountPage, Looking
    <3> QED
      BY <2>1, <2>3, <3>1, <3>2 DEF FindsFirstFit, ScanInv
  <2>4. CASE consecutive + 1 # count
    <3>1. /\ result' = Running /\ free' = free /\ count' = count
          /\ i' = i + 1 /\ consecutive' = consecutive + 1
      BY <2>4 DEF CountPage, callVars, Looking
    <3>2. i' - consecutive' = i - consecutive
      BY <2>1, <3>1
    <3>3. /\ i' \in 1 .. total_pages
          /\ consecutive' \in 0 .. i' - 1
          /\ count > 0 => consecutive' < count
      BY <2>1, <2>4, <3>1 DEF ScanInv, CountPage, Looking
    <3>4. Run(i' - consecutive', consecutive') \subseteq free
      BY <2>2, <3>1, <3>2
    <3>5. count > 0 => \A s \in free : s < i' - consecutive' => ~RunAt(free, s, count)
      BY <3>2 DEF ScanInv, CountPage, Looking
    <3>6. ScanInv'
      BY <2>1, <3>1, <3>2, <3>3, <3>4, <3>5 DEF ScanInv, RunAt
    <3> QED BY <3>1, <3>6 DEF FindsFirstFit
  <2> QED BY <2>3, <2>4
<1>2. CASE SkipPage
  <2>1. /\ i \in 1 .. total_pages - 1 /\ i \notin free
        /\ i' = i + 1 /\ consecutive' = 0 /\ result' = Running
        /\ free' = free /\ count' = count
    BY <1>2 DEF SkipPage, Looking, ScanInv, callVars
  <2>2. ASSUME count > 0, NEW s \in free, s < i + 1
        PROVE  ~RunAt(free, s, count)
    <3>1. CASE s < i - consecutive
      BY <3>1, <2>2, <1>2 DEF ScanInv, SkipPage, Looking
    <3>2. CASE s >= i - consecutive
      <4>1. i \in Run(s, count)
        BY <1>2, <2>1, <2>2, <3>2 DEF ScanInv, SkipPage, Looking, Run
      <4> QED BY <4>1, <2>1 DEF RunAt
    <3> QED BY <3>1, <3>2, <2>1, <2>2, <1>2 DEF ScanInv, SkipPage, Looking
  <2>3. Run(i' - consecutive', consecutive') = {}
    BY <2>1 DEF Run
  <2> QED
    BY <2>1, <2>2, <2>3 DEF ScanInv, FindsFirstFit
<1>3. CASE GiveUp
  <2>1. /\ i = total_pages /\ result = Running /\ result' = NotFound
        /\ free' = free /\ count' = count
    BY <1>3 DEF GiveUp, ScanInv, callVars
  <2>2. ASSUME count > 0, NEW s \in free
        PROVE  ~RunAt(free, s, count)
    <3>1. CASE s < i - consecutive
      BY <3>1, <2>1, <2>2 DEF ScanInv
    <3>2. CASE s >= i - consecutive
      <4>1. total_pages \in Run(s, count)
        BY <2>1, <2>2, <3>2 DEF ScanInv, Run
      <4> QED BY <4>1 DEF RunAt, ScanInv
    <3> QED BY <3>1, <3>2, <2>1, <2>2 DEF ScanInv
  <2> QED
    BY <2>1, <2>2 DEF ScanInv, FindsFirstFit, NoRun
<1>4. CASE UNCHANGED scanVars
  BY <1>4 DEF scanVars, ScanInv, FindsFirstFit
<1> QED BY <1>1, <1>2, <1>3, <1>4 DEF ScanNext

(* The search of find_free_pages returns the lowest page at which count    *)
(* free pages begin, and (uint64_t)-1 only when there is no such page.     *)
THEOREM FindFreePagesCorrect == ScanSpec => [](ScanInv /\ FindsFirstFit)
<1>1. ScanInv /\ FindsFirstFit /\ [ScanNext]_scanVars => (ScanInv /\ FindsFirstFit)'
  BY ScanStep
<1> QED BY ScanInitInv, <1>1, PTL DEF ScanSpec
=============================================================================
