------------------------------- MODULE MCSerial -------------------------------
(* kernel_main with a line, the "S" of a switch and, as if the dispatch    *)
(* had succeeded, what follows; another processor, which loads the IDT and *)
(* enables interrupts; and a handler that prints there.                    *)
EXTENDS Serial

CONSTANTS kernel_main, ap_entry, isr_handler

SomeWriters == {kernel_main, ap_entry, isr_handler}

SomeTexts ==
  [w \in SomeWriters |->
     CASE w = kernel_main -> <<"b", "\n", SWITCH, "e", SWITCH>>
       [] w = ap_entry -> <<"a", "\n">>
       [] w = isr_handler -> <<"i", "q">>]
=============================================================================
