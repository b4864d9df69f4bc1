------------------------------- MODULE MCPmm -------------------------------
(* Small memory maps for Pmm: pages of 2 bytes, so that an unusable entry  *)
(* can end in the middle of a page as the BIOS area at 0x9FC00 does.       *)
EXTENDS Pmm

U(base, length) == [base |-> base, length |-> length, usable |-> TRUE]
R(base, length) == [base |-> base, length |-> length, usable |-> FALSE]

(* One region below a reserved tail, page 0 reserved.                      *)
Plain == <<R(0, 2), U(2, 12), R(14, 4)>>

(* Usable memory from address 0 on, and two longest regions of the same    *)
(* length, adjacent, so that a run may span them.                          *)
FromZero == <<U(0, 4), R(4, 4), U(8, 6), U(14, 6)>>

(* Two unusable entries that share the page 3, and a hole in the map.      *)
SharedPage == <<U(2, 4), R(6, 1), R(7, 3), U(14, 8)>>

(* A bitmap of two bytes, and the usable region right after an odd end.    *)
Long == <<R(0, 3), U(4, 4), U(10, 4), R(14, 5), U(20, 12)>>

PassMaps == {Plain, FromZero, SharedPage, Long}
=============================================================================
