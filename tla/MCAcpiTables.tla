---------------------------- MODULE MCAcpiTables ----------------------------
(* Firmwares with every list of up to two of seven kinds of table, in an   *)
(* XSDT or an RSDT that may continue in a second page.                     *)
EXTENDS AcpiTables

T(page, sig, valid, crosses) ==
  [page |-> page, sig |-> sig, valid |-> valid, crosses |-> crosses]

SevenTables ==
  {NULL, T(3, "APIC", TRUE, FALSE), T(3, "APIC", FALSE, FALSE),
   T(5, "APIC", TRUE, FALSE), T(6, "APIC", TRUE, FALSE),
   T(4, "FACP", TRUE, TRUE), T(3, "HPET", TRUE, FALSE)}

Lists == UNION {[1 .. n -> SevenTables] : n \in 0 .. 2}

Roots == {[page |-> 1, entries |-> l, fits |-> f] : l \in Lists, f \in {0, 1, 2}}

GoodRoots == {r \in Roots : r.fits <= Len(r.entries)}

F(pointer, revision, new, old) ==
  [rsdp |-> pointer, revision |-> revision, xsdt |-> new, rsdt |-> old]

Old == [page |-> 6, entries |-> <<T(3, "APIC", TRUE, FALSE)>>, fits |-> 1]

AllFirmware ==
  {F("absent", 0, NoRoot, NoRoot), F("corrupt", 2, Old, Old), F("good", 2, NoRoot, NoRoot)}
    \cup {F("good", 2, r, Old) : r \in GoodRoots}
    \cup {F("good", 0, NoRoot, r) : r \in GoodRoots}

SomePages == {{}, {2, 5}, {6}, 1 .. 6}
=============================================================================
