------------------------------- MODULE Tasking -------------------------------
(***************************************************************************)
(* Tasks: kernel/src/tasking/task.c, context_switch.asm, and the two tasks *)
(* that setup_and_start_tasks in kernel.c prepares and starts.             *)
(*                                                                         *)
(* A struct task is memory: the C code writes a field at the offset the    *)
(* compiler gives it in include/tasking/task.h, the assembly reads and     *)
(* writes the offsets that its header comment lists.  A value is a tuple   *)
(* that says what it is.                                                   *)
(***************************************************************************)
EXTENDS Integers, Sequences, SequencesExt

(* The tasks of setup_and_start_tasks, in the order of task_add.           *)
Tasks == <<"task1", "task2">>

(* lapic_timer_handler calls the scheduler at every 10th tick.             *)
TicksPerSlice == 10

READY == 0
RUNNING == 1

ZERO == <<"zero">>
KERNEL_CS == <<"selector", 8>>
KERNEL_DS == <<"selector", 16>>
RFLAGS_IF == <<"rflags", 514>>     (* 0x202: interrupts enabled            *)
Entry(t) == <<"entry", t>>
StackTop(t) == <<"stack_top", t>>
Struct(t) == <<"struct task", t>>

(* struct task: 8 bytes each, in the order of the declaration.             *)
Registers == <<"r15", "r14", "r13", "r12", "r11", "r10", "r9", "r8", "rdi",
               "rsi", "rbp", "rbx", "rdx", "rcx", "rax">>
Fields == Registers \o <<"rip", "cs", "rflags", "rsp", "ss">>

FieldOffset ==
  [f \in Range(Fields) |-> 8 * ((CHOOSE k \in DOMAIN Fields : Fields[k] = f) - 1)]

(* context_switch.asm: the same but for what iretq takes.                  *)
AsmOffset ==
  [FieldOffset EXCEPT !["rip"] = 120, !["rflags"] = 128, !["rsp"] = 136,
                      !["ss"] = 144, !["cs"] = 152]

Frame == {"rip", "cs", "rflags", "rsp", "ss"}

VARIABLES mem,            (* the memory of each struct task, by offset     *)
          state,          (* its field "state"                             *)
          task_list,      (* the list from task_list along "next"          *)
          current_task,
          general,        (* the general registers of the processor        *)
          frame,          (* what iretq takes, or the running context      *)
          pc,             (* where the processor is                        *)
          lapic_ticks

vars == <<mem, state, task_list, current_task, general, frame, pc, lapic_ticks>>

NULL == "NULL"

-----------------------------------------------------------------------------
Init ==
  /\ mem = [t \in Range(Tasks) |-> [o \in Range(FieldOffset) |-> ZERO]]
  /\ state = [t \in Range(Tasks) |-> READY]
  /\ task_list = <<>>
  /\ current_task = NULL
  /\ general = [r \in Range(Registers) |-> <<"kernel_main">>]
  /\ frame = [f \in Frame |-> ZERO]
  /\ pc = "setup"
  /\ lapic_ticks = 0

(* The values task_init assigns to the fields.                             *)
Prepared(t) ==
  [f \in Range(Fields) |->
     CASE f = "rip" -> Entry(t)
       [] f = "rsp" -> StackTop(t)
       [] f = "rflags" -> RFLAGS_IF
       [] f = "cs" -> KERNEL_CS
       [] f = "ss" -> KERNEL_DS
       [] OTHER -> ZERO]

task_init(t) ==
  [o \in Range(FieldOffset) |->
     Prepared(t)[CHOOSE f \in Range(Fields) : FieldOffset[f] = o]]

(* What switch_to_task(t) leaves in the registers, r15 to find the struct  *)
(* and rdx and rax for a character on the serial port, and pushes.         *)
Loaded(t, m) ==
  [r \in Range(Registers) |->
     CASE r = "r15" -> Struct(t)
       [] r \in {"rdx", "rax"} -> <<"serial">>
       [] OTHER -> m[t][AsmOffset[r]]]

Pushed(t, m) == [f \in Frame |-> m[t][AsmOffset[f]]]

switch_to_task(t, m) ==
  /\ mem' = m
  /\ general' = Loaded(t, m)
  /\ frame' = Pushed(t, m)
  /\ pc' = "iretq"

setup_and_start_tasks ==
  /\ pc = "setup"
  /\ task_list' = Tasks
  /\ current_task' = Tasks[1]
  /\ state' = [state EXCEPT ![Tasks[1]] = RUNNING]
  /\ switch_to_task(Tasks[1], [t \in Range(Tasks) |-> task_init(t)])
  /\ UNCHANGED lapic_ticks

(* The processor accepts only the code segment of the GDT in cs; anything  *)
(* else is a general protection fault, from which nothing returns.         *)
iretq ==
  /\ pc = "iretq"
  /\ pc' = IF frame.cs = KERNEL_CS THEN "task" ELSE "fault"
  /\ UNCHANGED <<mem, state, task_list, current_task, general, frame, lapic_ticks>>

-----------------------------------------------------------------------------
(* The timer interrupts a task.                                            *)

At(t) == CHOOSE k \in DOMAIN task_list : task_list[k] = t

(* The first READY task after the current one, else the first before it.   *)
task_get_next_ready ==
  LET after == {k \in DOMAIN task_list :
                  k > At(current_task) /\ state[task_list[k]] = READY}
      before == {k \in DOMAIN task_list :
                   k < At(current_task) /\ state[task_list[k]] = READY}
      first(S) == task_list[CHOOSE k \in S : \A l \in S : k <= l]
  IN  IF after # {} THEN first(after) ELSE IF before # {} THEN first(before) ELSE NULL

(* save_current_context, called with the task in rdi: rax holds the address*)
(* of .return by the time it is used, but was stored before.               *)
save_current_context(t) ==
  [mem EXCEPT ![t] =
     [o \in DOMAIN mem[t] |->
        CASE o = AsmOffset["rip"] -> <<".return">>
          [] o = AsmOffset["rflags"] -> frame.rflags
          [] o = AsmOffset["rsp"] -> <<"rsp before the pushes">>
          [] o = AsmOffset["ss"] -> KERNEL_DS
          [] o = AsmOffset["cs"] -> KERNEL_CS
          [] o = AsmOffset["rdi"] -> Struct(t)
          [] OTHER -> general[CHOOSE r \in Range(Registers) : AsmOffset[r] = o]]]

(* switch_to_task does not come back: current_task stays what it was.      *)
task_scheduler_tick ==
  LET next == task_get_next_ready
  IN  \/ /\ next = NULL
         /\ UNCHANGED <<mem, state, general, frame, pc>>
      \/ /\ next # NULL
         /\ state' = [state EXCEPT ![current_task] = READY, ![next] = RUNNING]
         /\ switch_to_task(next, save_current_context(current_task))

lapic_timer_handler ==
  /\ pc = "task" /\ frame.rflags = RFLAGS_IF
  /\ lapic_ticks' = (lapic_ticks + 1) % TicksPerSlice
  /\ \/ lapic_ticks' = 0 /\ task_scheduler_tick
     \/ lapic_ticks' # 0 /\ UNCHANGED <<mem, state, general, frame, pc>>
  /\ UNCHANGED <<task_list, current_task>>

Next == setup_and_start_tasks \/ iretq \/ lapic_timer_handler

Spec == Init /\ [][Next]_vars

-----------------------------------------------------------------------------
TypeOK ==
  /\ DOMAIN mem = Range(Tasks) /\ state \in [Range(Tasks) -> {READY, RUNNING}]
  /\ task_list \in {<<>>, Tasks} /\ current_task \in Range(Tasks) \cup {NULL}
  /\ DOMAIN general = Range(Registers) /\ DOMAIN frame = Frame
  /\ pc \in {"setup", "iretq", "task", "fault"}
  /\ lapic_ticks \in 0 .. TicksPerSlice - 1

(* "struct task (see task.h): 120: rip 128: rflags 136: rsp 144: ss 152:   *)
(* cs" (context_switch.asm:4): a task that is started for the first time   *)
(* is started with what task_init assigned to those fields.                *)
StartsAsPrepared ==
  pc = "iretq" /\ frame.rip = Entry(current_task) =>
    \A f \in Frame : frame[f] = Prepared(current_task)[f]
=============================================================================
