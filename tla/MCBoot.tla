-------------------------------- MODULE MCBoot --------------------------------
(* Three lines, one of them of the second controller, on the firmwares of  *)
(* MCAcpiTables.  Of the valid MADTs one has an I/O APIC behind other      *)
(* entries, one has none, and one only behind an entry without a length.   *)
EXTENDS Boot, MCAcpiTables

E(type, length) == [type |-> type, length |-> length]

SomeEntries ==
  [t \in {u \in SevenTables : u.sig = "APIC"} |->
     CASE t = T(3, "APIC", TRUE, FALSE) -> <<E("lapic", 8), E("iso", 10), E("ioapic", 12)>>
       [] t = T(5, "APIC", TRUE, FALSE) -> <<E("lapic", 8), E("nmi", 6)>>
       [] t = T(6, "APIC", TRUE, FALSE) -> <<E("iso", 0), E("ioapic", 12)>>
       [] OTHER -> <<>>]
=============================================================================
