------------------------------- MODULE Terminal -------------------------------
(***************************************************************************)
(* printf on the screen: a processor calls printf again and again, each   *)
(* character that the scan of Printf puts goes through putchar of Console  *)
(* before the scan goes on, and the screen may be cleared between calls.   *)
(***************************************************************************)
EXTENDS Console, Printf

CONSTANTS LaterCalls,    (* bound: the calls after the first               *)
          MaxText        (* bound: characters after which nothing is called*)

ASSUME TerminalAssumption == LaterCalls \subseteq Calls /\ MaxText \in Nat

VARIABLE put             (* how much of "out" has gone through putchar     *)

vars == <<consoleVars, printfVars, put>>

(* What putchar makes of a character.                                      *)
Kind(c) ==
  CASE c = "\n" -> "newline" [] c = "\r" -> "return" [] c = "\t" -> "tab"
    [] c = "BS" -> "backspace" [] OTHER -> "glyph"

Init == ConsoleInit /\ PrintfInit /\ put = 0

scan ==
  /\ put = Len(out)
  /\ printf
  /\ UNCHANGED <<consoleVars, put>>

character ==
  /\ put < Len(out)
  /\ putchar(Kind(out[put + 1]))
  /\ put' = put + 1
  /\ UNCHANGED printfVars

call ==
  /\ put = Len(out) /\ Len(text) < MaxText
  /\ \E c \in IF pc = "idle" THEN Calls ELSE LaterCalls : enter(c)
  /\ put' = 0
  /\ UNCHANGED consoleVars

clear ==
  /\ pc = "returned" /\ put = Len(out)
  /\ printf_clear
  /\ UNCHANGED <<printfVars, put>>

Next == scan \/ character \/ call \/ clear

Spec == Init /\ [][Next]_vars

-----------------------------------------------------------------------------
TypeOK == ConsoleTypeOK /\ PrintfTypeOK /\ put \in 0 .. Len(out)

(* The string functions do what they are for, on every legal call on the   *)
(* memories of Strings; as no state enters, it is looked at once.          *)
StringsAsDefined == pc = "idle" => StringsExact
=============================================================================
