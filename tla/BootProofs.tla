------------------------------ MODULE BootProofs ------------------------------
(* What is proved of AcpiTables and of Boot, for any firmware and tables.  *)
EXTENDS Boot, TLAPS, SequenceTheorems

-----------------------------------------------------------------------------
(* The inductive invariant of acpi_init.                                   *)

Answers ==
  [xsdt : {NoRoot, fw.xsdt}, rsdt : {NoRoot, fw.rsdt}, use_xsdt : BOOLEAN,
   madt : Tables, fadt : Tables, available : BOOLEAN]

AcpiTypes ==
  /\ fw \in Firmware /\ mapped \subseteq Pages /\ acpi \in Answers
  /\ pc \in {"rsdp", "root", "search", "returned", "fault"}
  /\ search \in 1 .. 4 /\ i \in 1 .. Len(Root.entries) + 1
  /\ failed \in BOOLEAN

(* Before the root is mapped there is nothing in acpi_state.               *)
NothingYet ==
  pc \in {"rsdp", "root"} =>
    /\ i = 1 /\ search = 1 /\ ~acpi.use_xsdt
    /\ acpi.xsdt = NoRoot /\ acpi.rsdt = NoRoot

(* The root that acpi_init should use.                                     *)
GoodRoot == IF fw.revision >= 2 /\ fw.xsdt.page # 0 THEN fw.xsdt ELSE fw.rsdt

(* The first two searches are refused; the others read the root.           *)
Refusals ==
  /\ acpi.available <=> search >= 3
  /\ ~acpi.available => acpi.madt = NULL /\ acpi.fadt = NULL /\ i = 1

RightRoot ==
  /\ pc \in {"root", "search"} => fw.rsdp = "good"
  /\ pc = "search" /\ ~failed => Root = GoodRoot /\ GoodRoot.page # 0

Hit(entries, j, sig) ==
  entries[j].sig = sig /\ entries[j].valid /\ entries[j].page # 0

(* While every mapping succeeds: the search has passed no table it wanted, *)
(* and the searches before it have answered with the first one.            *)
PassedOver ==
  pc = "search" /\ ~failed =>
    /\ \A j \in DOMAIN Root.entries : j < i => ~Hit(Root.entries, j, Wanted)
    /\ search = 4 => acpi.madt = First(Root.entries, "APIC")

AcpiInv ==
  /\ AcpiTypes /\ NothingYet /\ Refusals /\ RightRoot /\ PassedOver
  /\ OnlyVerified /\ FoundWhenThere

-----------------------------------------------------------------------------
(* Lists of tables.                                                        *)

(* A root lists tables.                                                    *)
LEMMA ListTypes ==
  ASSUME fw \in Firmware
  PROVE  \A r \in {NoRoot, fw.xsdt, fw.rsdt} :
           /\ r.entries \in Seq(Tables) /\ Len(r.entries) \in Nat
           /\ DOMAIN r.entries = 1 .. Len(r.entries)
           /\ \A j \in DOMAIN r.entries : r.entries[j] \in Tables
           /\ r.page \in {0} \cup Pages
<1>1. NoRoot.entries \in Seq(Tables) /\ NoRoot.page = 0
  <2>1. NoRoot.entries = <<>> /\ NoRoot.page = 0
    BY DEF NoRoot
  <2> QED BY <2>1, EmptySeq
<1>2. \A r \in {fw.xsdt, fw.rsdt} : r.page \in {0} \cup Pages /\ r.entries \in Seq(Tables)
  BY AcpiAssumption
<1>3. \A s \in Seq(Tables) : /\ Len(s) \in Nat /\ DOMAIN s = 1 .. Len(s)
                             /\ \A j \in 1 .. Len(s) : s[j] \in Tables
  BY LenProperties, ElementOfSeq
<1> QED BY <1>1, <1>2, <1>3

(* So does the one acpi_init uses.                                         *)
LEMMA RootTypes ==
  ASSUME AcpiTypes
  PROVE  /\ Root \in {NoRoot, fw.xsdt, fw.rsdt}
         /\ Root.entries \in Seq(Tables) /\ Len(Root.entries) \in Nat
         /\ DOMAIN Root.entries = 1 .. Len(Root.entries)
         /\ \A j \in DOMAIN Root.entries : Root.entries[j] \in Tables
         /\ Root.page \in {0} \cup Pages
<1>1. Root \in {NoRoot, fw.xsdt, fw.rsdt}
  <2>1. acpi.xsdt \in {NoRoot, fw.xsdt} /\ acpi.rsdt \in {NoRoot, fw.rsdt}
    BY DEF AcpiTypes, Answers
  <2> QED BY <2>1 DEF Root
<1> HIDE DEF Root
<1> QED BY <1>1, ListTypes DEF AcpiTypes

(* The first table that can be used is the one no other precedes.          *)
LEMMA FirstIsLeast ==
  ASSUME NEW entries, NEW sig, NEW n \in Nat, DOMAIN entries = 1 .. n
  PROVE  /\ (\A j \in DOMAIN entries : ~Hit(entries, j, sig)) => First(entries, sig) = NULL
         /\ \A k \in DOMAIN entries :
              Hit(entries, k, sig) /\ (\A j \in DOMAIN entries : j < k => ~Hit(entries, j, sig))
                => First(entries, sig) = entries[k]
<1> DEFINE hits == {j \in DOMAIN entries : entries[j].sig = sig /\ entries[j].valid
                                           /\ entries[j].page # 0}
<1> DEFINE Least == CHOOSE j \in hits : \A k \in hits : j <= k
<1>1. First(entries, sig) = IF hits = {} THEN NULL ELSE entries[Least]
  BY DEF First
<1>2. \A j : j \in hits <=> j \in 1 .. n /\ Hit(entries, j, sig)
  BY DEF Hit
<1> HIDE DEF hits
<1>3. (\A j \in DOMAIN entries : ~Hit(entries, j, sig)) => First(entries, sig) = NULL
  BY <1>1, <1>2
<1>4. ASSUME NEW k \in 1 .. n, Hit(entries, k, sig),
             \A j \in DOMAIN entries : j < k => ~Hit(entries, j, sig)
      PROVE  First(entries, sig) = entries[k]
  <2>1. k \in hits /\ \A j \in hits : k <= j
    BY <1>2, <1>4
  <2>2. Least \in hits /\ \A j \in hits : Least <= j
    BY <2>1
  <2>3. k \in Int /\ Least \in Int
    BY <1>2, <2>1, <2>2
  <2>4. Least = k
    <3> HIDE DEF Least
    <3> QED BY <2>1, <2>2, <2>3
  <2> QED BY <1>1, <2>1, <2>4
<1> QED BY <1>3, <1>4

-----------------------------------------------------------------------------
(* The steps of acpi_init.                                                 *)

SameRoot ==
  acpi'.xsdt = acpi.xsdt /\ acpi'.rsdt = acpi.rsdt /\ acpi'.use_xsdt = acpi.use_xsdt

(* The fields of acpi_state.                                               *)
LEMMA AnswerFields ==
  ASSUME AcpiTypes
  PROVE  /\ acpi.xsdt \in {NoRoot, fw.xsdt} /\ acpi.rsdt \in {NoRoot, fw.rsdt}
         /\ acpi.use_xsdt \in BOOLEAN /\ acpi.available \in BOOLEAN
         /\ acpi.madt \in Tables /\ acpi.fadt \in Tables
  BY DEF AcpiTypes, Answers

(* What the four calls of acpi_find_table search for.                      *)
LEMMA WantedIs == 
  ASSUME search \in 1 .. 4
  PROVE  Wanted = IF search \in {1, 4} THEN "FACP" ELSE "APIC"
  BY DEF Wanted

(* The end of a search is stored, and the next one begins.                 *)
LEMMA AssignStep ==
  ASSUME AcpiTypes, NEW t \in Tables, Assign(t)
  PROVE  /\ acpi' \in Answers /\ Answers' = Answers /\ SameRoot /\ fw' = fw /\ i' = 1
         /\ acpi'.fadt = IF search \in {1, 4} THEN t ELSE acpi.fadt
         /\ acpi'.madt = IF search \in {2, 3} THEN t ELSE acpi.madt
         /\ (acpi'.available <=> search >= 2)
         /\ \/ search < 4 /\ search' = search + 1 /\ pc' = pc
            \/ search = 4 /\ pc' = "returned" /\ search' = search
<1> DEFINE f == IF Wanted = "FACP" THEN t ELSE acpi.fadt
           m == IF Wanted = "APIC" THEN t ELSE acpi.madt
<1>1. acpi' = [acpi EXCEPT !.fadt = f, !.madt = m, !.available = (search >= 2)]
  BY DEF Assign
<1>2. f \in Tables /\ m \in Tables /\ (search >= 2) \in BOOLEAN
  BY AnswerFields
<1>3. /\ f = IF search \in {1, 4} THEN t ELSE acpi.fadt
      /\ m = IF search \in {2, 3} THEN t ELSE acpi.madt
  BY WantedIs DEF AcpiTypes
<1>4. fw' = fw /\ i' = 1
      /\ \/ search < 4 /\ search' = search + 1 /\ pc' = pc
         \/ search = 4 /\ pc' = "returned" /\ search' = search
  BY DEF Assign, Goto
<1> HIDE DEF f, m
<1>5. acpi \in Answers
  BY DEF AcpiTypes
<1>6. /\ acpi' \in Answers /\ SameRoot /\ acpi'.fadt = f /\ acpi'.madt = m
      /\ (acpi'.available <=> search >= 2)
  BY <1>1, <1>2, <1>5 DEF Answers, SameRoot
<1>7. Answers' = Answers
  BY <1>4 DEF Answers
<1> QED BY <1>3, <1>4, <1>6, <1>7

(* What every step of a search keeps.                                      *)
Mapping == mapped \subseteq mapped' /\ mapped' \subseteq Pages /\ failed' \in BOOLEAN
           /\ (failed => failed')

(* paging_map_page maps a page or fails.                                   *)
LEMMA MappingStep ==
  ASSUME AcpiTypes, NEW page \in {0} \cup Pages, Maps(page) \/ Fails(page)
  PROVE  Mapping
<1>1. mapped \subseteq Pages /\ failed \in BOOLEAN
  BY DEF AcpiTypes
<1>2. CASE Maps(page)
  BY <1>1, <1>2 DEF Maps, Mapping
<1>3. CASE Fails(page)
  <2>1. mapped' = mapped /\ failed' = (failed \/ page # 0)
    BY <1>3 DEF Fails
  <2> QED BY <1>1, <2>1 DEF Mapping
<1> QED BY <1>2, <1>3

(* A search that ends with the table it should keeps the invariant.        *)
LEMMA AnswerKeeps ==
  ASSUME AcpiInv, pc = "search", Mapping, NEW t \in Tables, Assign(t),
         t # NULL => /\ acpi.available /\ Listed(t) /\ t.page \in mapped'
                     /\ t.valid /\ t.sig = Wanted,
         ~failed' /\ acpi.available => t = First(Root.entries, Wanted)
  PROVE  AcpiInv'
<1>1. /\ AcpiTypes /\ Refusals /\ RightRoot /\ PassedOver /\ OnlyVerified
      /\ search \in 1 .. 4
  BY DEF AcpiInv, AcpiTypes
<1>2. /\ acpi' \in Answers' /\ SameRoot /\ fw' = fw /\ i' = 1
      /\ acpi'.fadt = IF search \in {1, 4} THEN t ELSE acpi.fadt
      /\ acpi'.madt = IF search \in {2, 3} THEN t ELSE acpi.madt
      /\ (acpi'.available <=> search >= 2)
      /\ \/ search < 4 /\ search' = search + 1 /\ pc' = "search"
         \/ search = 4 /\ pc' = "returned" /\ search' = search
  BY <1>1, AssignStep
<1>3. Root' = Root
  BY <1>2 DEF SameRoot, Root
<1>4. search' \in 1 .. 4 /\ (search' >= 3 <=> search >= 2)
  BY <1>1, <1>2
<1>5. Len(Root.entries) \in Nat
  BY <1>1, RootTypes
<1>6. Wanted = IF search \in {1, 4} THEN "FACP" ELSE "APIC"
  BY <1>1, WantedIs
<1>7. acpi.available <=> search >= 3
  BY <1>1 DEF Refusals
<1>8. AcpiTypes'
  <2>1. i' \in 1 .. Len(Root'.entries) + 1
    BY <1>2, <1>3, <1>5
  <2> QED BY <1>1, <1>2, <1>4, <2>1 DEF AcpiTypes, Mapping
<1>9. NothingYet' /\ Refusals'
  BY <1>1, <1>2, <1>4, <1>7 DEF NothingYet, Refusals
<1>10. RightRoot'
  BY <1>1, <1>2, <1>3 DEF RightRoot, GoodRoot, Mapping
<1>11. PassedOver'
  <2>1. \A j \in DOMAIN Root'.entries : ~(j < i')
    BY <1>1, <1>2, <1>3, RootTypes
  <2>2. ~failed' /\ search' = 4 /\ pc' = "search" => acpi'.madt = First(Root'.entries, "APIC")
    BY <1>1, <1>2, <1>3, <1>6, <1>7
  <2> QED BY <2>1, <2>2 DEF PassedOver
<1>12. OnlyVerified'
  <2> SUFFICES ASSUME NEW u \in {acpi'.madt, acpi'.fadt}, u # NULL
               PROVE  /\ acpi'.available
                      /\ Listed(u)' /\ u.page \in mapped' /\ u.valid
                      /\ u = acpi'.madt => u.sig = "APIC"
                      /\ u = acpi'.fadt => u.sig = "FACP"
    BY DEF OnlyVerified
  <2>1. Listed(u)' <=> Listed(u)
    BY <1>3 DEF Listed
  <2>2. \A v \in {acpi.madt, acpi.fadt} \ {NULL} :
          /\ acpi.available /\ Listed(v) /\ v.page \in mapped' /\ v.valid
          /\ v = acpi.madt => v.sig = "APIC"
          /\ v = acpi.fadt => v.sig = "FACP"
    BY <1>1 DEF OnlyVerified, Mapping
  <2>3. acpi.available => acpi'.available
    BY <1>1, <1>2, <1>7
  <2>4. /\ acpi'.madt # NULL => acpi'.madt.sig = "APIC"
        /\ acpi'.fadt # NULL => acpi'.fadt.sig = "FACP"
    BY <1>1, <1>2, <1>6, <2>2
  <2> QED BY <1>2, <2>1, <2>2, <2>3, <2>4
<1>13. FoundWhenThere'
  <2> SUFFICES ASSUME pc' = "returned", ~failed', fw'.rsdp = "good"
               PROVE  /\ acpi'.available <=> GoodRoot'.page # 0
                      /\ GoodRoot'.page # 0 => /\ acpi'.madt = First(GoodRoot'.entries, "APIC")
                                               /\ acpi'.fadt = First(GoodRoot'.entries, "FACP")
    BY DEF FoundWhenThere, GoodRoot
  <2>1. search = 4 /\ ~failed /\ acpi.available
    BY <1>1, <1>2, <1>7 DEF Mapping
  <2>2. GoodRoot' = GoodRoot /\ Root = GoodRoot /\ GoodRoot.page # 0
    BY <1>1, <1>2, <2>1 DEF GoodRoot, RightRoot
  <2>3. acpi'.madt = First(Root.entries, "APIC")
    BY <1>1, <1>2, <2>1 DEF PassedOver
  <2>4. acpi'.fadt = First(Root.entries, "FACP")
    BY <1>2, <1>6, <2>1
  <2> QED BY <1>2, <2>1, <2>2, <2>3, <2>4
<1> QED BY <1>8, <1>9, <1>10, <1>11, <1>12, <1>13 DEF AcpiInv

(* One that passes over an entry it may pass over does.                    *)
LEMMA ContinueKeeps ==
  ASSUME AcpiInv, Reading, Mapping, Continue,
         ~failed' => ~Hit(Root.entries, i, Wanted)
  PROVE  AcpiInv'
<1>1. /\ AcpiTypes /\ Refusals /\ RightRoot /\ PassedOver /\ OnlyVerified
      /\ pc = "search" /\ acpi.available /\ i <= Len(Root.entries)
  BY DEF AcpiInv, Reading
<1>2. /\ i' = i + 1 /\ UNCHANGED <<fw, acpi, pc, search>>
  BY DEF Continue, NextEntry
<1>3. Root' = Root /\ Wanted' = Wanted /\ Answers' = Answers /\ GoodRoot' = GoodRoot
  BY <1>2 DEF Root, Wanted, Answers, GoodRoot
<1>4. /\ Len(Root.entries) \in Nat /\ i \in 1 .. Len(Root.entries) + 1
      /\ DOMAIN Root.entries = 1 .. Len(Root.entries)
  BY <1>1, RootTypes DEF AcpiTypes
<1>5. i' \in 1 .. Len(Root'.entries) + 1
  BY <1>1, <1>2, <1>3, <1>4
<1>6. AcpiTypes' /\ NothingYet' /\ Refusals' /\ RightRoot'
  BY <1>1, <1>2, <1>3, <1>5 DEF AcpiTypes, NothingYet, Refusals, RightRoot, Mapping
<1>7. PassedOver'
  <2>1. \A j \in DOMAIN Root.entries : j < i + 1 => j < i \/ j = i
    BY <1>4
  <2> QED BY <1>1, <1>2, <1>3, <2>1 DEF PassedOver, Mapping
<1>8. OnlyVerified'
  BY <1>1, <1>2, <1>3 DEF OnlyVerified, Listed, Mapping
<1>9. FoundWhenThere'
  BY <1>1, <1>2 DEF FoundWhenThere
<1> QED BY <1>6, <1>7, <1>8, <1>9 DEF AcpiInv

(* One that faults ends there.                                             *)
LEMMA FaultKeeps ==
  ASSUME AcpiInv, pc = "search", Mapping, Fault
  PROVE  AcpiInv'
<1>1. /\ AcpiTypes /\ Refusals /\ OnlyVerified
      /\ UNCHANGED <<fw, acpi, search, i>> /\ pc' = "fault"
  BY DEF AcpiInv, Fault, Goto
<1>2. Root' = Root /\ Answers' = Answers
  BY <1>1 DEF Root, Answers
<1>3. AcpiTypes' /\ NothingYet' /\ Refusals' /\ RightRoot' /\ PassedOver' /\ FoundWhenThere'
  BY <1>1, <1>2 DEF AcpiTypes, NothingYet, Refusals, RightRoot, PassedOver, FoundWhenThere, Mapping
<1>4. OnlyVerified'
  BY <1>1, <1>2 DEF OnlyVerified, Listed, Mapping
<1> QED BY <1>3, <1>4 DEF AcpiInv

(* A step before the searches that leaves acpi_state empty.                *)
LEMMA RootKeeps ==
  ASSUME AcpiInv, pc = "root", Mapping, UNCHANGED <<fw, search, i>>,
         \/ /\ acpi' = [acpi EXCEPT !.xsdt = fw.xsdt, !.use_xsdt = TRUE] /\ pc' = "search"
            /\ fw.revision >= 2 /\ fw.xsdt.page # 0
         \/ /\ acpi' = [acpi EXCEPT !.rsdt = fw.rsdt] /\ pc' = "search"
            /\ ~(fw.revision >= 2 /\ fw.xsdt.page # 0) /\ fw.rsdt.page # 0
         \/ /\ acpi' = acpi /\ pc' = "search" /\ failed'
         \/ /\ acpi' = acpi /\ pc' = "returned"
            /\ ~failed' => GoodRoot.page = 0
  PROVE  AcpiInv'
<1>1. /\ AcpiTypes /\ Refusals /\ RightRoot /\ i = 1 /\ search = 1 /\ ~acpi.use_xsdt
      /\ acpi.xsdt = NoRoot /\ acpi.rsdt = NoRoot /\ fw.rsdp = "good" /\ acpi \in Answers
      /\ ~acpi.available /\ acpi.madt = NULL /\ acpi.fadt = NULL
  BY DEF AcpiInv, NothingYet, Refusals, RightRoot, AcpiTypes
<1>2. /\ acpi' \in Answers /\ ~acpi'.available /\ acpi'.madt = NULL /\ acpi'.fadt = NULL
      /\ (pc' = "search" /\ ~failed' => Root' = GoodRoot /\ GoodRoot.page # 0)
  BY <1>1 DEF Answers, Root, GoodRoot
<1>3. Answers' = Answers /\ GoodRoot' = GoodRoot
  BY DEF Answers, GoodRoot
<1>4. Root' \in {NoRoot, fw.xsdt, fw.rsdt}
  BY <1>2, <1>3 DEF Root, Answers
<1>5. /\ Len(Root'.entries) \in Nat /\ DOMAIN Root'.entries = 1 .. Len(Root'.entries)
      /\ i' \in 1 .. Len(Root'.entries) + 1
  <2>1. /\ Len(Root'.entries) \in Nat /\ DOMAIN Root'.entries = 1 .. Len(Root'.entries)
    BY <1>1, <1>4, ListTypes DEF AcpiTypes
  <2> QED BY <1>1, <2>1
<1>6. AcpiTypes' /\ NothingYet' /\ Refusals' /\ RightRoot'
  BY <1>1, <1>2, <1>3, <1>5 DEF AcpiTypes, NothingYet, Refusals, RightRoot, Mapping
<1>7. OnlyVerified'
  BY <1>2 DEF OnlyVerified
<1>8. PassedOver'
  <2>1. \A j \in DOMAIN Root'.entries : ~(j < 1)
    BY <1>5
  <2> QED BY <1>1, <2>1 DEF PassedOver
<1>9. FoundWhenThere'
  <2>1. pc' = "returned" /\ ~failed' => GoodRoot'.page = 0 /\ ~acpi'.available
    BY <1>2, <1>3
  <2> QED BY <2>1 DEF FoundWhenThere, GoodRoot
<1> QED BY <1>6, <1>7, <1>8, <1>9 DEF AcpiInv

(* Every step of acpi_init keeps its invariant.                            *)
LEMMA AcpiStep ==
  ASSUME AcpiInv, Next
  PROVE  AcpiInv'
<1>1. /\ AcpiTypes /\ NULL \in Tables /\ mapped \subseteq Pages /\ failed \in BOOLEAN
      /\ \A r \in {fw.xsdt, fw.rsdt} : r.page \in {0} \cup Pages
      /\ \A t \in Tables : t.page \in {0} \cup Pages
  BY AcpiAssumption DEF AcpiInv, AcpiTypes
<1>2. CASE rsdp
  <2>1. /\ UNCHANGED <<fw, mapped, acpi, search, i>> /\ pc = "rsdp"
        /\ failed' \in BOOLEAN /\ (failed => failed')
        /\ \/ pc' = "root" /\ fw.rsdp = "good"
           \/ pc' = "returned" /\ (fw.rsdp = "good" => failed')
    BY <1>1, <1>2 DEF rsdp, Goto
  <2>2. Root' = Root /\ Answers' = Answers
    BY <2>1 DEF Root, Answers
  <2>3. /\ AcpiTypes' /\ NothingYet' /\ Refusals' /\ RightRoot' /\ PassedOver'
        /\ FoundWhenThere'
    BY <2>1, <2>2 DEF AcpiInv, AcpiTypes, NothingYet, Refusals, RightRoot, PassedOver, FoundWhenThere
  <2>4. OnlyVerified'
    BY <2>1, <2>2 DEF AcpiInv, OnlyVerified, Listed
  <2> QED BY <2>3, <2>4 DEF AcpiInv
<1>3. CASE xsdt
  <2>1. Mapping
    <3>1. fw.xsdt.page \in {0} \cup Pages
      BY <1>1
    <3>2. Maps(fw.xsdt.page) \/ Fails(fw.xsdt.page)
      BY <1>3 DEF xsdt
    <3> QED BY <1>1, <3>1, <3>2, MappingStep
  <2>2. \/ acpi' = [acpi EXCEPT !.xsdt = fw.xsdt, !.use_xsdt = TRUE]
        \/ acpi' = acpi /\ failed'
    BY <1>3 DEF xsdt, Maps, Fails
  <2> QED BY <1>3, <2>1, <2>2, RootKeeps DEF xsdt, Goto
<1>4. CASE rsdt
  <2>1. Mapping
    <3>1. fw.rsdt.page \in {0} \cup Pages
      BY <1>1
    <3>2. Maps(fw.rsdt.page) \/ Fails(fw.rsdt.page)
      BY <1>4 DEF rsdt
    <3> QED BY <1>1, <3>1, <3>2, MappingStep
  <2>2. ~(fw.revision >= 2 /\ fw.xsdt.page # 0)
    <3>1. fw.revision \in {0, 2}
      BY <1>1, AcpiAssumption DEF AcpiTypes
    <3> QED BY <1>4, <3>1 DEF rsdt
  <2>3. GoodRoot = fw.rsdt
    BY <2>2 DEF GoodRoot
  <2>4. \/ acpi' = [acpi EXCEPT !.rsdt = fw.rsdt] /\ pc' = "search" /\ fw.rsdt.page # 0
        \/ acpi' = acpi /\ pc' = "returned" /\ (~failed' => fw.rsdt.page = 0)
    BY <1>4 DEF rsdt, Maps, Fails, Goto
  <2> QED BY <1>4, <2>1, <2>2, <2>3, <2>4, RootKeeps DEF rsdt
<1>5. CASE refuse
  <2>1. Mapping /\ Assign(NULL) /\ pc = "search" /\ ~acpi.available
    BY <1>1, <1>5 DEF refuse, Mapping
  <2> QED BY <1>1, <2>1, AnswerKeeps
<1>6. CASE entry_unreadable
  BY <1>1, <1>6, FaultKeeps DEF entry_unreadable, Reading, Mapping
<1>7. CASE entry_skipped
  <2>1. Mapping /\ (~failed' => Root.entries[i].page = 0)
    <3>1. Root.entries[i].page \in {0} \cup Pages
      BY <1>1, <1>7, RootTypes DEF entry_skipped, Reading, AcpiTypes
    <3>2. Fails(Root.entries[i].page)
      BY <1>7 DEF entry_skipped
    <3>3. ~failed' => Root.entries[i].page = 0
      BY <3>2 DEF Fails
    <3> QED BY <1>1, <3>1, <3>2, <3>3, MappingStep
  <2> QED BY <1>7, <2>1, ContinueKeeps DEF entry_skipped, Hit
<1>8. CASE entry
  <2> DEFINE t == Root.entries[i]
  <2>1. /\ Reading /\ Maps(t.page) /\ pc = "search" /\ acpi.available
        /\ i \in DOMAIN Root.entries /\ t \in Tables
    <3>1. Reading /\ Maps(t.page)
      BY <1>8 DEF entry
    <3>2. i \in 1 .. Len(Root.entries) /\ DOMAIN Root.entries = 1 .. Len(Root.entries)
      BY <1>1, <3>1, RootTypes DEF Reading, AcpiTypes
    <3>3. t \in Tables
      BY <1>1, <3>2, RootTypes
    <3> QED BY <3>1, <3>2, <3>3 DEF Reading
  <2>2. Mapping /\ t.page \in mapped' /\ t.page # 0
    BY <1>1, <2>1 DEF Maps, Mapping
  <2>3. Fault \/ (Matches(t) /\ Assign(t)) \/ (~Matches(t) /\ Continue)
    BY <1>8 DEF entry
  <2>4. Matches(t) <=> Hit(Root.entries, i, Wanted)
    BY <2>2 DEF Matches, Hit
  <2>5. CASE Fault
    BY <2>1, <2>2, <2>5, FaultKeeps
  <2>6. CASE ~Matches(t) /\ Continue
    BY <2>1, <2>2, <2>4, <2>6, ContinueKeeps
  <2>7. CASE Matches(t) /\ Assign(t)
    <3>1. ~failed' => t = First(Root.entries, Wanted)
      <4> SUFFICES ASSUME ~failed' PROVE t = First(Root.entries, Wanted)
        OBVIOUS
      <4>1. \A j \in DOMAIN Root.entries : j < i => ~Hit(Root.entries, j, Wanted)
        BY <2>1, <2>2 DEF AcpiInv, PassedOver, Mapping
      <4>2. /\ DOMAIN Root.entries = 1 .. Len(Root.entries) /\ Len(Root.entries) \in Nat
        BY <1>1, RootTypes
      <4> QED BY <2>1, <2>4, <2>7, <4>1, <4>2, FirstIsLeast
    <3>2. Listed(t) /\ t.valid /\ t.sig = Wanted
      BY <2>1, <2>7 DEF Listed, Matches
    <3> HIDE DEF t
    <3> QED BY <2>1, <2>2, <2>7, <3>1, <3>2, AnswerKeeps
  <2> QED BY <2>3, <2>5, <2>6, <2>7
<1>9. CASE not_found
  <2>1. Mapping /\ Assign(NULL) /\ pc = "search" /\ acpi.available /\ i > Len(Root.entries)
        /\ failed' = failed
    BY <1>1, <1>9 DEF not_found, Mapping
  <2>2. ~failed' => NULL = First(Root.entries, Wanted)
    <3> SUFFICES ASSUME ~failed' PROVE NULL = First(Root.entries, Wanted)
      OBVIOUS
    <3>1. DOMAIN Root.entries = 1 .. Len(Root.entries) /\ Len(Root.entries) \in Nat
          /\ i \in Nat
      BY <1>1, RootTypes DEF AcpiTypes
    <3>2. \A j \in DOMAIN Root.entries : ~Hit(Root.entries, j, Wanted)
      BY <2>1, <3>1 DEF AcpiInv, PassedOver
    <3> QED BY <3>1, <3>2, FirstIsLeast
  <2> QED BY <1>1, <2>1, <2>2, AnswerKeeps
<1> QED
  BY <1>2, <1>3, <1>4, <1>5, <1>6, <1>7, <1>8, <1>9 DEF Next, acpi_find_table

(* acpi_init starts in it.                                                 *)
LEMMA AcpiStart == Init => AcpiInv
<1> SUFFICES ASSUME Init PROVE AcpiInv
  OBVIOUS
<1>1. /\ acpi.xsdt = NoRoot /\ acpi.rsdt = NoRoot /\ ~acpi.use_xsdt /\ acpi.madt = NULL
      /\ acpi.fadt = NULL /\ ~acpi.available /\ acpi \in Answers
  BY AcpiAssumption DEF Init, Answers
<1>2. Len(Root.entries) = 0
  <2>1. Root.entries = <<>>
    BY <1>1 DEF Root, NoRoot
  <2> QED BY <2>1, EmptySeq
<1>3. AcpiTypes
  <2>1. i \in 1 .. Len(Root.entries) + 1 /\ search \in 1 .. 4
    BY <1>2 DEF Init
  <2>2. mapped \subseteq Pages
    BY AcpiAssumption DEF Init
  <2> QED BY <1>1, <2>1, <2>2 DEF Init, AcpiTypes
<1> QED BY <1>1, <1>3 DEF Init, AcpiInv, NothingYet, Refusals, RightRoot, PassedOver,
          OnlyVerified, FoundWhenThere

(* And other steps do not touch it.                                        *)
LEMMA AcpiStutter ==
  ASSUME AcpiInv, UNCHANGED vars
  PROVE  AcpiInv'
<1>1. Root' = Root /\ Answers' = Answers /\ Wanted' = Wanted /\ GoodRoot' = GoodRoot
  BY DEF vars, Root, Answers, Wanted, GoodRoot
<1>2. AcpiTypes' /\ NothingYet' /\ Refusals' /\ RightRoot' /\ PassedOver'
  BY <1>1 DEF AcpiInv, vars, AcpiTypes, NothingYet, Refusals, RightRoot, PassedOver
<1>3. OnlyVerified' /\ FoundWhenThere'
  BY <1>1 DEF AcpiInv, vars, OnlyVerified, Listed, FoundWhenThere
<1> QED BY <1>2, <1>3 DEF AcpiInv

-----------------------------------------------------------------------------
(* The inductive invariant of the boot sequence: what each call of         *)
(* initialize_subsystems leaves for those after it.                        *)

Stages == {"gdt_init", "gdt_load", "pic_remap", "idt_init", "acpi_init",
           "apic_init", "ioapic_init", "irq_init", "timer_init",
           "timer_handler", "tasks", "fault"}

Segments ==
  /\ gdt \in [0 .. 4 -> {"none", "code", "data"}]
  /\ stage # "gdt_init" => gdt[1] = "code" /\ gdt[2] = "data"
  /\ stage = "fault" => pc = "fault"

Vectors ==
  /\ pic \in [offset : {FirmwareVectors, PIC1_OFFSET}, masked : SUBSET Lines]
  /\ gates \in {{}, Gates}
  /\ stage \notin {"gdt_init", "gdt_load", "pic_remap"} => pic.offset = PIC1_OFFSET
  /\ stage \notin {"gdt_init", "gdt_load", "pic_remap", "idt_init"} => gates = Gates

Handlers ==
  /\ irq_handlers \in [Lines -> {"NULL", "irq_default_handler", "lapic_timer_handler",
                                 "pit_timer_handler"}]
  /\ stage \in {"timer_init", "timer_handler", "tasks"} =>
       \A l \in Lines : irq_handlers[l] # "NULL"
  /\ stage = "tasks" => irq_handlers[0] = TimerHandler /\ 0 \notin pic.masked

Controllers ==
  /\ apic_state \in [apic_available : BOOLEAN, ioapic_available : BOOLEAN]
  /\ lapic \in [mapped : BOOLEAN, enabled : BOOLEAN, timer : {0, 32}]
  /\ apic_state.apic_available => lapic.mapped /\ lapic.enabled
  /\ stage \in {"timer_handler", "tasks"} => (lapic.timer # 0 <=> ApicMode)
  /\ stage \notin {"timer_handler", "tasks"} => lapic.timer = 0

InMadt ==
  /\ ptr \in 1 .. Len(Entries) + 1
  /\ stage \in {"gdt_init", "gdt_load", "pic_remap", "idt_init", "acpi_init"} => ptr = 1

BootInv ==
  /\ AcpiInv /\ stage \in Stages
  /\ Segments /\ Vectors /\ Handlers /\ Controllers /\ InMadt

(* The MADT has finitely many entries.                                     *)
LEMMA EntriesOf ==
  ASSUME NEW m \in Tables, m # NULL => m.sig = "APIC"
  PROVE  Len(IF m = NULL THEN <<>> ELSE MadtEntries[m]) \in Nat
<1>1. CASE m = NULL
  BY <1>1, EmptySeq
<1>2. CASE m # NULL
  <2>1. MadtEntries[m] \in Seq([type : STRING, length : Nat])
    BY <1>2, BootAssumption
  <2> QED BY <1>2, <2>1, LenProperties
<1> QED BY <1>1, <1>2

(* So has the one acpi_init found.                                         *)
LEMMA EntriesType ==
  ASSUME AcpiInv
  PROVE  Len(Entries) \in Nat
<1>1. acpi.madt \in Tables /\ (acpi.madt # NULL => acpi.madt.sig = "APIC")
  BY DEF AcpiInv, OnlyVerified, AcpiTypes, Answers
<1> QED BY <1>1, EntriesOf DEF Entries

(* The firmware hands over a machine in the invariant.                     *)
LEMMA BootStart == BootInit => BootInv
<1> SUFFICES ASSUME BootInit PROVE BootInv
  OBVIOUS
<1>1. AcpiInv /\ stage \in Stages
  BY AcpiStart DEF BootInit, Stages
<1>2. Segments /\ Vectors
  BY DEF BootInit, Segments, Vectors
<1>3. Handlers /\ Controllers
  BY DEF BootInit, Handlers, Controllers
<1>4. InMadt
  <2>1. Len(Entries) \in Nat
    BY <1>1, EntriesType
  <2> QED BY <2>1 DEF BootInit, InMadt
<1> QED BY <1>1, <1>2, <1>3, <1>4 DEF BootInv

(* A step that leaves vars alone, but may move on in the MADT.             *)
LEMMA MadtKept ==
  ASSUME BootInv, UNCHANGED vars, stage # "acpi_init",
         \/ ptr' = ptr
         \/ ptr <= Len(Entries) /\ ptr' \in {ptr, ptr + 1} /\ stage = "ioapic_init",
         stage' \in {"gdt_init", "gdt_load", "pic_remap", "idt_init", "acpi_init"} =>
           stage \in {"gdt_init", "gdt_load", "pic_remap", "idt_init"} 
  PROVE  AcpiInv' /\ InMadt'
<1>1. Entries' = Entries /\ Len(Entries) \in Nat
  BY EntriesType DEF BootInv, vars, Entries
<1>2. ptr' \in 1 .. Len(Entries) + 1
  BY <1>1 DEF BootInv, InMadt
<1>3. stage' \in {"gdt_init", "gdt_load", "pic_remap", "idt_init", "acpi_init"} => ptr' = 1
  BY DEF BootInv, InMadt
<1>4. AcpiInv'
  BY AcpiStutter DEF BootInv
<1> QED BY <1>1, <1>2, <1>3, <1>4 DEF InMadt

(* Every stage of initialize_subsystems keeps it.                          *)
LEMMA BootStep ==
  ASSUME BootInv, BootNext
  PROVE  BootInv'
<1> USE DEF Stages, hardware, tablesOfHandlers, After
<1>1. /\ Segments /\ Vectors /\ Handlers /\ Controllers /\ InMadt
      /\ Lines \subseteq 0 .. 15 /\ 0 \in Lines
  BY BootAssumption DEF BootInv
<1>2. CASE gdt_init
  <2>1. AcpiInv' /\ InMadt'
    BY <1>2, MadtKept DEF gdt_init
  <2>2. Segments'
    BY <1>1, <1>2 DEF gdt_init, Segments
  <2>3. Vectors' /\ Handlers' /\ Controllers'
    BY <1>1, <1>2 DEF gdt_init, Vectors, Handlers, Controllers
  <2> QED BY <1>2, <2>1, <2>2, <2>3 DEF gdt_init, BootInv
<1>3. CASE gdt_load
  <2>1. stage' = "pic_remap"
    <3>1. GDT_KERNEL_DS \div 8 = 2 /\ GDT_KERNEL_CS \div 8 = 1
      BY DEF GDT_KERNEL_DS, GDT_KERNEL_CS
    <3> QED BY <1>1, <1>3, <3>1 DEF gdt_load, Segments, IsSegment
  <2>2. AcpiInv' /\ InMadt'
    BY <1>3, <2>1, MadtKept DEF gdt_load
  <2>3. Segments' /\ Vectors' /\ Handlers' /\ Controllers'
    BY <1>1, <1>3, <2>1 DEF gdt_load, Segments, Vectors, Handlers, Controllers
  <2> QED BY <2>1, <2>2, <2>3 DEF BootInv
<1>4. CASE pic_remap
  <2>1. AcpiInv' /\ InMadt'
    BY <1>4, MadtKept DEF pic_remap
  <2>2. pic' \in [offset : {FirmwareVectors, PIC1_OFFSET}, masked : SUBSET Lines]
        /\ pic'.offset = PIC1_OFFSET
    BY <1>1, <1>4 DEF pic_remap, Vectors
  <2>3. Segments' /\ Vectors' /\ Handlers' /\ Controllers'
    BY <1>1, <1>4, <2>2 DEF pic_remap, Segments, Vectors, Handlers, Controllers
  <2> QED BY <1>4, <2>1, <2>3 DEF pic_remap, BootInv
<1>5. CASE idt_init
  <2>1. AcpiInv' /\ InMadt'
    BY <1>5, MadtKept DEF idt_init
  <2>2. Segments' /\ Vectors' /\ Handlers' /\ Controllers'
    BY <1>1, <1>5 DEF idt_init, Segments, Vectors, Handlers, Controllers
  <2> QED BY <1>5, <2>1, <2>2 DEF idt_init, BootInv
<1>6. CASE acpi_init
  <2>1. AcpiInv'
    BY <1>6, AcpiStep DEF acpi_init, BootInv
  <2>2. /\ stage = "acpi_init" /\ stage' \in {"acpi_init", "apic_init", "fault"}
        /\ (stage' = "fault" => pc' = "fault")
    BY <1>6 DEF acpi_init
  <2>3. InMadt'
    <3>1. Len(Entries)' \in Nat
      <4>1. acpi'.madt \in Tables /\ (acpi'.madt # NULL => acpi'.madt.sig = "APIC")
        BY <2>1 DEF AcpiInv, OnlyVerified, AcpiTypes, Answers
      <4> QED BY <4>1, EntriesOf DEF Entries
    <3> QED BY <1>1, <1>6, <2>2, <3>1 DEF acpi_init, InMadt
  <2>4. Segments' /\ Vectors' /\ Handlers' /\ Controllers'
    BY <1>1, <1>6, <2>2 DEF acpi_init, Segments, Vectors, Handlers, Controllers
  <2> QED BY <2>1, <2>2, <2>3, <2>4 DEF BootInv
<1>7. ASSUME NEW cpuid \in BOOLEAN, NEW maps \in BOOLEAN, apic_init(cpuid, maps)
      PROVE  BootInv'
  <2>1. /\ stage = "apic_init" /\ stage' \in {"ioapic_init", "irq_init"}
        /\ UNCHANGED <<vars, gdt, pic, gates, tablesOfHandlers, ptr>>
    BY <1>7 DEF apic_init
  <2>2. AcpiInv' /\ InMadt'
    BY <2>1, MadtKept
  <2>3. /\ apic_state' \in [apic_available : BOOLEAN, ioapic_available : BOOLEAN]
        /\ lapic' \in [mapped : BOOLEAN, enabled : BOOLEAN, timer : {0, 32}]
        /\ apic_state'.apic_available => lapic'.mapped /\ lapic'.enabled
        /\ lapic'.timer = 0
    BY <1>1, <1>7, <2>1 DEF apic_init, Controllers
  <2>4. Controllers'
    BY <2>1, <2>3 DEF Controllers
  <2>5. Segments' /\ Vectors' /\ Handlers'
    BY <1>1, <2>1 DEF Segments, Vectors, Handlers
  <2> QED BY <2>1, <2>2, <2>4, <2>5 DEF BootInv
<1>8. CASE ioapic_init
  <2>1. /\ stage = "ioapic_init" /\ stage' \in {"ioapic_init", "irq_init"}
        /\ ptr <= Len(Entries) /\ ptr' \in {ptr, ptr + 1}
        /\ UNCHANGED <<vars, gdt, gates, lapic, tablesOfHandlers>>
    BY <1>8 DEF ioapic_init, EntryBehind
  <2>2. AcpiInv' /\ InMadt'
    BY <2>1, MadtKept
  <2>3. /\ pic' \in [offset : {FirmwareVectors, PIC1_OFFSET}, masked : SUBSET Lines]
        /\ pic'.offset = pic.offset
        /\ apic_state' \in [apic_available : BOOLEAN, ioapic_available : BOOLEAN]
        /\ apic_state'.apic_available <=> apic_state.apic_available
    BY <1>1, <1>8 DEF ioapic_init, Vectors, Controllers
  <2>4. Segments' /\ Vectors' /\ Handlers'
    BY <1>1, <2>1, <2>3 DEF Segments, Vectors, Handlers
  <2>5. Controllers'
    BY <1>1, <2>1, <2>3 DEF Controllers
  <2> QED BY <2>1, <2>2, <2>4, <2>5 DEF BootInv
<1>9. CASE no_ioapic
  <2>1. AcpiInv' /\ InMadt'
    BY <1>9, MadtKept DEF no_ioapic
  <2>2. Segments' /\ Vectors' /\ Handlers' /\ Controllers'
    BY <1>1, <1>9 DEF no_ioapic, Segments, Vectors, Handlers, Controllers
  <2> QED BY <1>9, <2>1, <2>2 DEF no_ioapic, BootInv
<1>10. CASE irq_init
  <2>1. AcpiInv' /\ InMadt'
    BY <1>10, MadtKept DEF irq_init
  <2>2. pic' \in [offset : {FirmwareVectors, PIC1_OFFSET}, masked : SUBSET Lines]
        /\ pic'.offset = pic.offset
    BY <1>1, <1>10 DEF irq_init, Vectors
  <2>3. Segments' /\ Vectors' /\ Controllers'
    BY <1>1, <1>10, <2>2 DEF irq_init, Segments, Vectors, Controllers
  <2>4. Handlers'
    BY <1>10 DEF irq_init, Handlers
  <2> QED BY <1>10, <2>1, <2>3, <2>4 DEF irq_init, BootInv
<1>11. CASE timer_init
  <2>1. AcpiInv' /\ InMadt'
    BY <1>11, MadtKept DEF timer_init
  <2>2. /\ lapic' \in [mapped : BOOLEAN, enabled : BOOLEAN, timer : {0, 32}]
        /\ lapic'.mapped = lapic.mapped /\ lapic'.enabled = lapic.enabled
        /\ lapic'.timer # 0 <=> ApicMode
    BY <1>1, <1>11 DEF timer_init, Controllers
  <2>3. Controllers'
    BY <1>1, <1>11, <2>2 DEF timer_init, Controllers, ApicMode
  <2>4. Segments' /\ Vectors' /\ Handlers'
    BY <1>1, <1>11 DEF timer_init, Segments, Vectors, Handlers
  <2> QED BY <1>11, <2>1, <2>3, <2>4 DEF timer_init, BootInv
<1>12. CASE install_timer_handler
  <2>1. AcpiInv' /\ InMadt'
    BY <1>12, MadtKept DEF install_timer_handler
  <2>2. /\ pic' \in [offset : {FirmwareVectors, PIC1_OFFSET}, masked : SUBSET Lines]
        /\ pic'.offset = pic.offset /\ 0 \notin pic'.masked
    BY <1>1, <1>12 DEF install_timer_handler, Unmasked, Vectors
  <2>3. Segments' /\ Vectors' /\ Controllers'
    BY <1>1, <1>12, <2>2
       DEF install_timer_handler, Segments, Vectors, Controllers, ApicMode
  <2>4. TimerHandler \in {"lapic_timer_handler", "pit_timer_handler"}
        /\ TimerHandler' = TimerHandler
    BY <1>12 DEF install_timer_handler, TimerHandler, ApicMode
  <2>5. Handlers'
    BY <1>1, <1>12, <2>2, <2>4 DEF install_timer_handler, Handlers
  <2> QED BY <1>12, <2>1, <2>3, <2>5 DEF install_timer_handler, BootInv
<1> QED
  BY <1>2, <1>3, <1>4, <1>5, <1>6, <1>7, <1>8, <1>9, <1>10, <1>11, <1>12 DEF BootNext

(* And other steps change nothing.                                         *)
LEMMA BootStutter ==
  ASSUME BootInv, UNCHANGED bootVars
  PROVE  BootInv'
<1>1. UNCHANGED <<vars, stage, hardware, tablesOfHandlers, apic_state, ptr>>
  BY DEF bootVars
<1>2. AcpiInv' /\ Entries' = Entries
  BY <1>1, AcpiStutter DEF BootInv, vars, Entries
<1>3. Segments' /\ Vectors' /\ Handlers' /\ Controllers' /\ InMadt'
  BY <1>1, <1>2 DEF BootInv, vars, hardware, tablesOfHandlers, Segments, Vectors, Handlers,
     TimerHandler, ApicMode, Controllers, InMadt
<1> QED BY <1>1, <1>2, <1>3 DEF BootInv

(* The boot keeps its invariant: each flag of acpi_init, apic_init and     *)
(* initialize_subsystems says what the hardware and the tables are set to. *)
THEOREM BootInvariant == BootSpec => []BootInv
<1>1. BootInv /\ [BootNext]_bootVars => BootInv'
  BY BootStep, BootStutter
<1> QED BY BootStart, <1>1, PTL DEF BootSpec

(* Every variable of the boot keeps its type; a fault can only be one of   *)
(* acpi_init, on bytes of a table that nobody mapped.                      *)
THEOREM BootTypes == BootSpec => []BootTypeOK
<1>1. BootInv => BootTypeOK
  <2> SUFFICES ASSUME BootInv PROVE BootTypeOK
    OBVIOUS
  <2>1. TypeOK
    BY AnswerFields DEF BootInv, AcpiInv, AcpiTypes, TypeOK
  <2>2. gates \subseteq 0 .. 255
    BY DEF BootInv, Vectors, Gates, Exceptions
  <2>3. lapic \in [mapped : BOOLEAN, enabled : BOOLEAN, timer : 0 .. 255]
    BY DEF BootInv, Controllers
  <2>4. /\ stage \in Stages /\ (stage = "fault" => pc = "fault")
        /\ ptr \in 1 .. Len(Entries) + 1
        /\ pic \in [offset : {FirmwareVectors, PIC1_OFFSET}, masked : SUBSET Lines]
        /\ apic_state \in [apic_available : BOOLEAN, ioapic_available : BOOLEAN]
    BY DEF BootInv, Segments, InMadt, Vectors, Controllers
  <2> QED BY <2>1, <2>2, <2>3, <2>4 DEF BootTypeOK, Stages
<1> QED BY <1>1, BootInvariant, PTL

(* What acpi_state refers to was mapped, listed in the root in use, has    *)
(* the signature that was searched for, and was verified.                  *)
THEOREM TablesAreVerified == BootSpec => []OnlyVerified
<1>1. BootInv => OnlyVerified
  BY DEF BootInv, AcpiInv
<1> QED BY <1>1, BootInvariant, PTL

(* When no page fails to be mapped, acpi_init ends with the first verified *)
(* table of each kind, for a root of any length with any entries.          *)
THEOREM TablesAreFound == BootSpec => []FoundWhenThere
<1>1. BootInv => FoundWhenThere
  BY DEF BootInv, AcpiInv
<1> QED BY <1>1, BootInvariant, PTL

(* From irq_init on, whatever a controller may raise finds a present gate, *)
(* the kernel's code segment and a handler.                                *)
THEOREM InterruptsAreHandled == BootSpec => []RaisedIsHandled
<1>1. BootInv => RaisedIsHandled
  <2> SUFFICES ASSUME BootInv, stage \in {"timer_init", "timer_handler", "tasks"}
               PROVE  /\ \A l \in Lines \ pic.masked :
                           pic.offset + l \in gates /\ irq_handlers[l] # "NULL"
                      /\ lapic.timer # 0 => lapic.timer \in gates /\ lapic.timer - 32 \in Lines
                      /\ IsSegment(GDT_KERNEL_CS, "code")
    BY DEF RaisedIsHandled
  <2>1. /\ gates = Exceptions \cup 32 .. 47 /\ pic.offset = 32 /\ lapic.timer \in {0, 32}
        /\ \A l \in Lines : irq_handlers[l] # "NULL"
    BY DEF BootInv, Vectors, Handlers, Controllers, Gates, PIC1_OFFSET
  <2>2. \A l \in Lines : 32 + l \in 32 .. 47
    BY BootAssumption
  <2>3. IsSegment(GDT_KERNEL_CS, "code")
    <3>1. GDT_KERNEL_CS \div 8 = 1
      BY DEF GDT_KERNEL_CS
    <3> QED BY <3>1 DEF BootInv, Segments, IsSegment
  <2> QED BY <2>1, <2>2, <2>3, BootAssumption
<1> QED BY <1>1, BootInvariant, PTL

(* The boot ends with the timer its handler fits.                          *)
THEOREM TimerIsHandled == BootSpec => []TimerFitsHandler
<1>1. BootInv => TimerFitsHandler
  <2> SUFFICES ASSUME BootInv, stage = "tasks"
               PROVE  /\ irq_handlers[0] = "lapic_timer_handler" <=> lapic.timer # 0
                      /\ lapic.timer # 0 => lapic.mapped /\ lapic.enabled
                      /\ lapic.timer = 0 => 0 \notin pic.masked
    BY DEF TimerFitsHandler
  <2>1. /\ irq_handlers[0] = TimerHandler /\ 0 \notin pic.masked
        /\ lapic.timer # 0 <=> ApicMode
        /\ ApicMode => lapic.mapped /\ lapic.enabled
    BY DEF BootInv, Handlers, Controllers, ApicMode
  <2>2. TimerHandler = "lapic_timer_handler" <=> ApicMode
    BY DEF TimerHandler
  <2> QED BY <2>1, <2>2
<1> QED BY <1>1, BootInvariant, PTL
=============================================================================
