--------------------------- MODULE MCAddressSpace ---------------------------
(* Tables of two entries: index 0 is the lower half of a pml4, index 1 the *)
(* kernel's, whose pdp the boot loader has made (frames 1 and 2).          *)
EXTENDS AddressSpace

BootTables ==
  [pml4 |-> 1,
   tables |-> [t \in {1, 2} |->
                 [i \in Index |-> IF t = 1 /\ i = 1 THEN Entry(2, FALSE) ELSE Absent]]]

Pages == {<<0, 0, 0, 0>>, <<0, 0, 1, 0>>, <<1, 0, 0, 0>>, <<1, 0, 0, 1>>}
OnDemand == {<<1, 0, 0, 1>>}
=============================================================================
