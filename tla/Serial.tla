-------------------------------- MODULE Serial --------------------------------
(***************************************************************************)
(* The serial port: kernel/src/drivers/serial.c, and the character that    *)
(* switch_to_task in tasking/context_switch.asm puts on the port itself.   *)
(*                                                                         *)
(* The writers are the processors and the interrupt handlers that print:   *)
(* none takes a lock, so each may be anywhere in serial_putc while another *)
(* writes.  A handler is free to run beside the code it interrupts, which  *)
(* is more than the machine allows.  The port is a 16550: it takes bytes   *)
(* into a FIFO, loses what comes when that is full, and tells it is ready  *)
(* when that is empty.                                                     *)
(***************************************************************************)
EXTENDS Integers, Sequences, FiniteSets

CONSTANTS Writers, Boot,  (* Boot: kernel_main on the boot processor        *)
          Text,           (* what each of them gives to serial_putc        *)
          Depth           (* of the FIFO, 16                               *)

(* The item of a text that is switch_to_task's own "S".                    *)
SWITCH == "S from switch_to_task"

(* Up to 15 writers; only the boot processor runs tasks, and text comes    *)
(* before the first switch and between two of them.                        *)
ASSUME SerialAssumption ==
  /\ IsFiniteSet(Writers) /\ Boot \in Writers
  /\ DOMAIN Text = Writers /\ \A w \in Writers : Text[w] \in Seq(STRING)
  /\ Depth \in Nat /\ Cardinality(Writers) < Depth
  /\ \A w \in Writers : \A k \in 1 .. Len(Text[w]) :
       Text[w][k] = SWITCH => w = Boot /\ k > 1 /\ Text[w][k - 1] # SWITCH

VARIABLES is_initialized,
          at,             (* the last byte that each writer has put        *)
          pc,             (* where each writer is in serial_putc           *)
          taken,          (* history: the bytes that the port has taken    *)
          onLine          (* how many of them it has sent                  *)

vars == <<is_initialized, at, pc, taken, onLine>>

-----------------------------------------------------------------------------
(* The bytes of w, by number: the k-th item of its text is byte 2k, and a  *)
(* newline is preceded by byte 2k - 1, a carriage return.                  *)
CarriageReturn(w, b) == \E k \in 1 .. Len(Text[w]) : Text[w][k] = "\n" /\ b = 2 * k - 1
Raw(w, b) == \E k \in 1 .. Len(Text[w]) : Text[w][k] = SWITCH /\ b = 2 * k
IsByte(w, b) == (\E k \in 1 .. Len(Text[w]) : b = 2 * k) \/ CarriageReturn(w, b)

(* Mutant: a carriage return before every character.                       *)
ByteAfter_Returns(w, b) == b + 1

ByteAfter(w, b) == IF IsByte(w, b + 1) THEN b + 1 ELSE b + 2

Finished(w) == at[w] = 2 * Len(Text[w])

-----------------------------------------------------------------------------
(* Mutant: the port is ready as long as it has something to send.          *)
THRE_Inverted == onLine # Len(taken)

(* The port.  THRE, bit 5 of the line status, says that the FIFO is empty. *)
THRE == onLine = Len(taken)

outb(w, b) ==
  taken' = IF Len(taken) - onLine < Depth THEN Append(taken, <<w, b>>) ELSE taken

(* 0xC7 in the FIFO control register clears the FIFO.                      *)
ClearFifo == taken' = SubSeq(taken, 1, onLine)

Transmit ==
  /\ onLine < Len(taken)
  /\ onLine' = onLine + 1
  /\ UNCHANGED <<is_initialized, at, pc, taken>>

-----------------------------------------------------------------------------
Init ==
  /\ is_initialized = FALSE
  /\ at = [w \in Writers |-> 0]
  /\ pc = [w \in Writers |-> "idle"]
  /\ taken = <<>>
  /\ onLine = 0

(* Mutant: the port is not marked as initialised.                          *)
serial_init_NoMark ==
  \/ is_initialized /\ UNCHANGED <<is_initialized, taken>>
  \/ ~is_initialized /\ ClearFifo /\ UNCHANGED is_initialized

serial_init ==
  \/ is_initialized /\ UNCHANGED <<is_initialized, taken>>
  \/ ~is_initialized /\ ClearFifo /\ is_initialized' = TRUE

(* kernel_main initialises the port before anybody else runs.              *)
MayRun(w) == w = Boot \/ is_initialized

serial_putc(w) ==
  /\ MayRun(w) /\ pc[w] = "idle"
  /\ ~Finished(w) /\ ~Raw(w, ByteAfter(w, at[w]))
  /\ serial_init
  /\ pc' = [pc EXCEPT ![w] = "wait"]
  /\ UNCHANGED <<at, onLine>>

serial_wait_ready(w) ==
  /\ pc[w] = "wait"
  /\ THRE
  /\ pc' = [pc EXCEPT ![w] = "out"]
  /\ UNCHANGED <<is_initialized, at, taken, onLine>>

(* After the carriage return of a newline, serial_putc goes on with it.    *)
serial_out(w) ==
  LET b == ByteAfter(w, at[w])
  IN  /\ pc[w] = "out"
      /\ outb(w, b)
      /\ at' = [at EXCEPT ![w] = b]
      /\ pc' = [pc EXCEPT ![w] = IF CarriageReturn(w, b) THEN "wait" ELSE "idle"]
      /\ UNCHANGED <<is_initialized, onLine>>

(* switch_to_task does not ask whether the port is ready.                  *)
switch_to_task(w) ==
  LET b == ByteAfter(w, at[w])
  IN  /\ pc[w] = "idle" /\ Raw(w, b)
      /\ outb(w, b)
      /\ at' = [at EXCEPT ![w] = b]
      /\ UNCHANGED <<is_initialized, pc, onLine>>

Step(w) == serial_putc(w) \/ serial_wait_ready(w) \/ serial_out(w) \/ switch_to_task(w)

Next == Transmit \/ \E w \in Writers : Step(w)

(* The port sends on, and every writer runs: a processor does, and what an *)
(* interrupt handler has interrupted goes on when it returns.              *)
Fairness == WF_vars(Transmit) /\ \A w \in Writers : WF_vars(Step(w))

Spec == Init /\ [][Next]_vars /\ Fairness

-----------------------------------------------------------------------------
(* A writer is at a byte of its text, and behind what the port has taken   *)
(* is nothing that nobody put.                                             *)
TypeOK ==
  /\ is_initialized \in BOOLEAN
  /\ at \in [Writers -> Nat] /\ \A w \in Writers : at[w] = 0 \/ IsByte(w, at[w])
  /\ pc \in [Writers -> {"idle", "wait", "out"}]
  /\ taken \in Seq(Writers \X Nat)
  /\ onLine \in 0 .. Len(taken)

(* Whatever the writers do between each other's ready check and output,    *)
(* the port takes every byte that is put, each writer's in the order of    *)
(* its text, a carriage return before each newline and nothing twice: the  *)
(* FIFO has room for the bytes that were not waited for.                   *)
InOrder ==
  \A i, j \in 1 .. Len(taken) :
    i < j /\ taken[i][1] = taken[j][1] => taken[i][2] < taken[j][2]

AllTaken ==
  \A w \in Writers : \A b \in 1 .. at[w] :
    IsByte(w, b) => \E i \in 1 .. Len(taken) : taken[i] = <<w, b>>

NothingMore ==
  \A i \in 1 .. Len(taken) : IsByte(taken[i][1], taken[i][2]) /\ taken[i][2] <= at[taken[i][1]]

NothingLost == InOrder /\ AllTaken /\ NothingMore

(* Every text ends up on the line: nobody waits for the port forever.      *)
AllSent == <>(THRE /\ \A w \in Writers : Finished(w))
=============================================================================
