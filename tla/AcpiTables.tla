------------------------------ MODULE AcpiTables ------------------------------
(***************************************************************************)
(* Finding the ACPI tables, kernel/src/sys/acpi.c: acpi_init reads the     *)
(* pointer the boot loader gives (RSDP), maps the root table (XSDT or RSDT)*)
(* and searches it four times for the FADT and the MADT, mapping the first *)
(* page of whatever an entry points to.                                    *)
(*                                                                         *)
(* A mapping fails when paging_map_page finds no memory for a table: which *)
(* one fails is left open here, AddressSpace has the details.  Bytes of a  *)
(* table that lie in a page nobody mapped fault when they are read, and    *)
(* the processor stops.                                                    *)
(***************************************************************************)
EXTENDS Integers, Sequences

CONSTANTS Pages,           (* physical pages with tables, from 1           *)
          Tables,          (* what entries point to                        *)
          Firmware,        (* what the firmware and the boot loader leave  *)
          PremappedPages   (* which pages the boot loader may have mapped  *)

NULL == [page |-> 0, sig |-> "none", valid |-> FALSE, crosses |-> FALSE]
NoRoot == [page |-> 0, entries |-> <<>>, fits |-> 0]

(* A table "crosses" when it continues in the next page; a root table has  *)
(* its first "fits" entries in its first page.                             *)
ASSUME AcpiAssumption ==
  /\ Pages \subseteq Nat \ {0}
  /\ NULL \in Tables
  /\ \A t \in Tables : t.page \in {0} \cup Pages
  /\ \A f \in Firmware :
       /\ f.rsdp \in {"absent", "corrupt", "good"}
       /\ f.revision \in {0, 2}
       /\ \A r \in {f.xsdt, f.rsdt} :
            /\ r.page \in {0} \cup Pages
            /\ r.entries \in Seq(Tables) /\ r.fits \in 0 .. Len(r.entries)
  /\ PremappedPages \subseteq SUBSET Pages

VARIABLES fw,              (* the firmware, which does not change          *)
          mapped,          (* the pages that have been mapped              *)
          acpi,            (* acpi_state: xsdt, rsdt, use_xsdt, madt, fadt *)
                           (* and acpi_available                           *)
          pc, search, i,   (* where acpi_init and acpi_find_table are      *)
          failed           (* history: some page could not be mapped       *)

vars == <<fw, mapped, acpi, pc, search, i, failed>>

Init ==
  /\ fw \in Firmware
  /\ mapped \in PremappedPages
  /\ acpi = [xsdt |-> NoRoot, rsdt |-> NoRoot, use_xsdt |-> FALSE,
             madt |-> NULL, fadt |-> NULL, available |-> FALSE]
  /\ pc = "rsdp"
  /\ search = 1
  /\ i = 1
  /\ failed = FALSE

-----------------------------------------------------------------------------
(* acpi_map_physical_to_virtual.                                           *)
Maps(page) == page # 0 /\ mapped' = mapped \cup {page} /\ failed' = failed

Fails(page) ==
  /\ page \notin mapped
  /\ mapped' = mapped
  /\ failed' = (failed \/ page # 0)

Goto(label) == pc' = label

(* The pointer: its page is mapped like the others, and is no table's.     *)
rsdp ==
  /\ pc = "rsdp"
  /\ \/ fw.rsdp = "good" /\ Goto("root") /\ UNCHANGED failed
     \/ fw.rsdp # "good" /\ Goto("returned") /\ UNCHANGED failed
     \/ fw.rsdp # "absent" /\ Goto("returned") /\ failed' = TRUE
  /\ UNCHANGED <<fw, mapped, acpi, search, i>>

xsdt ==
  /\ pc = "root"
  /\ fw.revision >= 2 /\ fw.xsdt.page # 0
  /\ \/ Maps(fw.xsdt.page) /\ acpi' = [acpi EXCEPT !.xsdt = fw.xsdt, !.use_xsdt = TRUE]
     \/ Fails(fw.xsdt.page) /\ UNCHANGED acpi
  /\ Goto("search")
  /\ UNCHANGED <<fw, search, i>>

rsdt ==
  /\ pc = "root"
  /\ fw.revision < 2 \/ fw.xsdt.page = 0
  /\ \/ Maps(fw.rsdt.page) /\ acpi' = [acpi EXCEPT !.rsdt = fw.rsdt] /\ Goto("search")
     \/ Fails(fw.rsdt.page) /\ UNCHANGED acpi /\ Goto("returned")
  /\ UNCHANGED <<fw, search, i>>

-----------------------------------------------------------------------------
(* The four calls of acpi_find_table, the first two of them before         *)
(* acpi_available is set.                                                  *)
Wanted == <<"FACP", "APIC", "APIC", "FACP">>[search]

Root == IF acpi.use_xsdt THEN acpi.xsdt ELSE acpi.rsdt

(* Mutant: the checksum is not looked at.                                  *)
Matches_SignatureOnly(t) == t.sig = Wanted

Matches(t) == t.sig = Wanted /\ t.valid

(* What acpi_init does with the answer t of one search.                    *)
Assign(t) ==
  /\ acpi' = [acpi EXCEPT !.fadt = IF Wanted = "FACP" THEN t ELSE @,
                          !.madt = IF Wanted = "APIC" THEN t ELSE @,
                          !.available = (search >= 2)]
  /\ i' = 1
  /\ \/ search < 4 /\ search' = search + 1 /\ UNCHANGED pc
     \/ search = 4 /\ Goto("returned") /\ UNCHANGED search
  /\ UNCHANGED fw

(* Mutant: the index advances by the size of the other root's entries.     *)
NextEntry_Two == i + 2

NextEntry == i + 1

Continue == i' = NextEntry /\ UNCHANGED <<fw, acpi, pc, search>>

Fault == Goto("fault") /\ UNCHANGED <<fw, acpi, search, i>>

refuse ==
  /\ pc = "search" /\ ~acpi.available
  /\ Assign(NULL)
  /\ UNCHANGED <<mapped, failed>>

Reading == pc = "search" /\ acpi.available /\ i <= Len(Root.entries)

(* Entry i is in a page of the root table that was never mapped.           *)
Unreadable == i > Root.fits /\ Root.page + 1 \notin mapped

entry_unreadable ==
  /\ Reading /\ Unreadable
  /\ Fault
  /\ UNCHANGED <<mapped, failed>>

(* Mutant: "break" for "continue".                                         *)
entry_skipped_Break ==
  /\ Reading /\ ~Unreadable
  /\ Fails(Root.entries[i].page)
  /\ Assign(NULL)

entry_skipped ==
  /\ Reading /\ ~Unreadable
  /\ Fails(Root.entries[i].page)
  /\ Continue

entry ==
  /\ Reading /\ ~Unreadable
  /\ Maps(Root.entries[i].page)
  /\ LET t == Root.entries[i]
         faults == t.sig = Wanted /\ t.crosses /\ t.page + 1 \notin mapped'
     IN  \/ faults /\ Fault
         \/ ~faults /\ Matches(t) /\ Assign(t)
         \/ ~faults /\ ~Matches(t) /\ Continue

not_found ==
  /\ pc = "search" /\ acpi.available /\ i > Len(Root.entries)
  /\ Assign(NULL)
  /\ UNCHANGED <<mapped, failed>>

acpi_find_table ==
  refuse \/ entry_unreadable \/ entry_skipped \/ entry \/ not_found

Next == rsdp \/ xsdt \/ rsdt \/ acpi_find_table

Spec == Init /\ [][Next]_vars

-----------------------------------------------------------------------------
TypeOK ==
  /\ fw \in Firmware /\ mapped \subseteq Pages
  /\ acpi.xsdt \in {NoRoot, fw.xsdt} /\ acpi.rsdt \in {NoRoot, fw.rsdt}
  /\ acpi.madt \in Tables /\ acpi.fadt \in Tables
  /\ acpi.use_xsdt \in BOOLEAN /\ acpi.available \in BOOLEAN
  /\ pc \in {"rsdp", "root", "search", "returned", "fault"}
  /\ search \in 1 .. 4 /\ i \in 1 .. Len(Root.entries) + 1
  /\ failed \in BOOLEAN

Listed(t) == \E j \in DOMAIN Root.entries : Root.entries[j] = t

(* A table that acpi_state refers to is mapped, is listed in the root that *)
(* is in use, has the right signature and was verified; and there is none  *)
(* while acpi_available is not set.                                        *)
OnlyVerified ==
  \A t \in {acpi.madt, acpi.fadt} \ {NULL} :
    /\ acpi.available
    /\ Listed(t) /\ t.page \in mapped /\ t.valid
    /\ t = acpi.madt => t.sig = "APIC"
    /\ t = acpi.fadt => t.sig = "FACP"

(* The first verified table of a kind in a list.                           *)
First(entries, sig) ==
  LET hits == {j \in DOMAIN entries : entries[j].sig = sig /\ entries[j].valid
                                      /\ entries[j].page # 0}
  IN  IF hits = {} THEN NULL
      ELSE entries[CHOOSE j \in hits : \A k \in hits : j <= k]

(* When no mapping failed, acpi_init ends with the first verified table of *)
(* each kind, whatever else the root lists before and after it: null,      *)
(* damaged and unrelated entries, and a root of either size of entry.      *)
FoundWhenThere ==
  pc = "returned" /\ ~failed /\ fw.rsdp = "good" =>
    LET root == IF fw.revision >= 2 /\ fw.xsdt.page # 0 THEN fw.xsdt ELSE fw.rsdt
    IN  /\ acpi.available <=> root.page # 0
        /\ root.page # 0 => /\ acpi.madt = First(root.entries, "APIC")
                            /\ acpi.fadt = First(root.entries, "FACP")

(* "XSDT address invalid, falling back to RSDT" (acpi.c:105): when the XSDT*)
(* was not mapped and the RSDT is in a page that is, the RSDT is used.     *)
FallsBackToRsdt ==
  pc = "search" /\ fw.xsdt.page # 0 /\ acpi.xsdt = NoRoot /\ fw.rsdt.page \in mapped
    => acpi.rsdt = fw.rsdt
=============================================================================
