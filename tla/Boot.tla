--------------------------------- MODULE Boot ---------------------------------
(***************************************************************************)
(* initialize_subsystems in kernel/src/kernel.c, but for the initialisation*)
(* of memory between gdt_load and pic_remap: sys/gdt.c, drivers/pic.c,     *)
(* interrupts/idt.c and irq.c, and sys/apic.c.  acpi_init is AcpiTables,   *)
(* a step of it a step here, and ioapic_init takes a step per MADT entry.  *)
(*                                                                         *)
(* The boot processor runs all this with interrupts disabled, and no code  *)
(* of it enables them: what matters is the configuration that results.     *)
(* kernel_main halts without a direct map, so no early return of sys/apic.c*)
(* for a missing one is here; smp_init only reads.  acpi_state.hpet is     *)
(* never assigned, so hpet_init always returns at once.                    *)
(***************************************************************************)
EXTENDS AcpiTables

CONSTANTS Lines,          (* interrupt lines, 0 .. 15, with 0 the timer's  *)
          MadtEntries     (* the entries of each MADT                      *)

ASSUME BootAssumption ==
  /\ Lines \subseteq 0 .. 15 /\ 0 \in Lines
  /\ DOMAIN MadtEntries = {t \in Tables : t.sig = "APIC"}
  /\ \A t \in DOMAIN MadtEntries :
       MadtEntries[t] \in Seq([type : STRING, length : Nat])

VARIABLES stage,          (* the next call of initialize_subsystems        *)
          gdt,            (* the kind of segment of each descriptor        *)
          pic,            (* the two 8259s: where their vectors begin, and *)
                          (* which lines are masked                        *)
          gates,          (* the vectors whose IDT entry is present        *)
          isr_handlers,   (* the handlers of exceptions                    *)
          irq_handlers,   (* the handlers of lines                         *)
          apic_state,     (* its fields apic_available and ioapic_available*)
          ptr,            (* where ioapic_init is in the MADT, by entry    *)
          lapic           (* the local APIC: mapped, enabled by software,  *)
                          (* and the vector of its timer, 0 while it stands*)

hardware == <<gdt, pic, gates, lapic>>
tablesOfHandlers == <<isr_handlers, irq_handlers>>
bootVars == <<vars, stage, hardware, tablesOfHandlers, apic_state, ptr>>

Exceptions == 0 .. 31

(* Where the first 8259's vectors begin before pic_remap.                  *)
FirmwareVectors == 8

PIC1_OFFSET == 32

BootInit ==
  /\ Init
  /\ stage = "gdt_init"
  /\ gdt = [n \in 0 .. 4 |-> "none"]
  /\ ptr = 1
  /\ pic \in [offset : {FirmwareVectors}, masked : {{}, Lines, Lines \ {0}}]
  /\ gates = {}
  /\ isr_handlers = [n \in Exceptions |-> "NULL"]
  /\ irq_handlers = [l \in Lines |-> "NULL"]
  /\ apic_state = [apic_available |-> FALSE, ioapic_available |-> FALSE]
  /\ lapic = [mapped |-> FALSE, enabled |-> FALSE, timer |-> 0]

After(s, next) == stage = s /\ stage' = next

-----------------------------------------------------------------------------
gdt_init ==
  /\ After("gdt_init", "gdt_load")
  /\ gdt' = [gdt EXCEPT ![1] = "code", ![2] = "data"]
  /\ UNCHANGED <<vars, pic, gates, lapic, tablesOfHandlers, apic_state, ptr>>

(* A selector is eight times the number of its descriptor.                 *)
GDT_KERNEL_CS == 8
GDT_KERNEL_DS == 16

IsSegment(selector, kind) == gdt[selector \div 8] = kind

(* Loading a segment register faults unless the descriptor is fit for it.  *)
gdt_load ==
  /\ stage = "gdt_load"
  /\ stage' = IF IsSegment(GDT_KERNEL_DS, "data") /\ IsSegment(GDT_KERNEL_CS, "code")
               THEN "pic_remap" ELSE "fault"
  /\ UNCHANGED <<vars, hardware, tablesOfHandlers, apic_state, ptr>>

(* The masks are read before the initialisation words and written back.    *)
pic_remap ==
  /\ After("pic_remap", "idt_init")
  /\ pic' = [pic EXCEPT !.offset = PIC1_OFFSET]
  /\ UNCHANGED <<vars, gdt, gates, lapic, tablesOfHandlers, apic_state, ptr>>

(* Mutant: the gates of the second controller are left out.                *)
Gates_FirstPic == Exceptions \cup 32 .. 39

Gates == Exceptions \cup 32 .. 47

idt_init ==
  /\ After("idt_init", "acpi_init")
  /\ gates' = Gates
  /\ isr_handlers' = [n \in Exceptions |->
                        CASE n = 14 -> "handle_page_fault"
                          [] n = 13 -> "handle_general_protection_fault"
                          [] n = 8 -> "handle_double_fault"
                          [] OTHER -> "exception_handler"]
  /\ UNCHANGED <<vars, gdt, pic, lapic, irq_handlers, apic_state, ptr>>

acpi_init ==
  /\ stage = "acpi_init"
  /\ Next
  /\ stage' = CASE pc' = "returned" -> "apic_init"
                [] pc' = "fault" -> "fault"
                [] OTHER -> stage
  /\ UNCHANGED <<hardware, tablesOfHandlers, apic_state, ptr>>

(* cpuid's answer and whether the LAPIC's page can be mapped are open.  A  *)
(* page that cannot be mapped takes apic_available back, but not what      *)
(* ioapic_init and apic_disable_pic then do.                               *)
apic_init(cpuid, maps) ==
  /\ stage = "apic_init"
  /\ stage' = IF cpuid /\ acpi.available THEN "ioapic_init" ELSE "irq_init"
  /\ apic_state' = [apic_available |-> cpuid /\ maps, ioapic_available |-> FALSE]
  /\ lapic' = [lapic EXCEPT !.mapped = cpuid /\ maps, !.enabled = cpuid /\ maps]
  /\ UNCHANGED <<vars, gdt, pic, gates, tablesOfHandlers, ptr>>

(* The loop of ioapic_init.  The length of an entry leads to the next one, *)
(* or is 0 and leads nowhere.                                              *)
Entries == IF acpi.madt = NULL THEN <<>> ELSE MadtEntries[acpi.madt]

(* Mutant: only the entries of processors are stepped over.                *)
EntryBehind_Lapic == IF Entries[ptr].type = "lapic" THEN ptr + 1 ELSE ptr

EntryBehind == IF Entries[ptr].length = 0 THEN ptr ELSE ptr + 1

ioapic_init ==
  /\ stage = "ioapic_init" /\ ptr <= Len(Entries)
  /\ \/ /\ Entries[ptr].type = "ioapic"
        /\ apic_state' = [apic_state EXCEPT !.ioapic_available = TRUE]
        /\ pic' = [pic EXCEPT !.masked = Lines]
        /\ stage' = "irq_init"
        /\ UNCHANGED ptr
     \/ /\ Entries[ptr].type # "ioapic"
        /\ ptr' = EntryBehind
        /\ UNCHANGED <<apic_state, pic, stage>>
  /\ UNCHANGED <<vars, gdt, gates, lapic, tablesOfHandlers>>

no_ioapic ==
  /\ After("ioapic_init", "irq_init") /\ ptr > Len(Entries)
  /\ UNCHANGED <<vars, hardware, tablesOfHandlers, apic_state, ptr>>

(* The last thing irq_install_handler does.                                *)
Unmasked(line) == [pic EXCEPT !.masked = @ \ {line}]

irq_init ==
  /\ After("irq_init", "timer_init")
  /\ irq_handlers' = [l \in Lines |-> "irq_default_handler"]
  /\ pic' = [pic EXCEPT !.masked = {}]
  /\ UNCHANGED <<vars, gdt, gates, lapic, isr_handlers, apic_state, ptr>>

ApicMode == apic_state.apic_available /\ apic_state.ioapic_available

(* lapic_timer_init(32, 1000), whose initial count is 62499, or pit_init,  *)
(* which leaves the PIT as the firmware programmed it.                     *)
timer_init ==
  /\ After("timer_init", "timer_handler")
  /\ lapic' = IF ApicMode THEN [lapic EXCEPT !.timer = 32] ELSE lapic
  /\ UNCHANGED <<vars, gdt, pic, gates, tablesOfHandlers, apic_state, ptr>>

(* Mutant: the local APIC alone decides which handler is installed.        *)
TimerHandler_Lapic ==
  IF apic_state.apic_available THEN "lapic_timer_handler" ELSE "pit_timer_handler"

TimerHandler ==
  IF ApicMode THEN "lapic_timer_handler" ELSE "pit_timer_handler"

install_timer_handler ==
  /\ After("timer_handler", "tasks")
  /\ irq_handlers' = [irq_handlers EXCEPT ![0] = TimerHandler]
  /\ pic' = Unmasked(0)
  /\ UNCHANGED <<vars, gdt, gates, lapic, isr_handlers, apic_state, ptr>>

BootNext ==
  \/ gdt_init \/ gdt_load \/ pic_remap \/ idt_init \/ acpi_init
  \/ \E cpuid, maps \in BOOLEAN : apic_init(cpuid, maps)
  \/ ioapic_init \/ no_ioapic
  \/ irq_init \/ timer_init \/ install_timer_handler

(* The boot processor does nothing else.                                   *)
BootSpec == BootInit /\ [][BootNext]_bootVars /\ WF_bootVars(BootNext)

-----------------------------------------------------------------------------
BootTypeOK ==
  /\ TypeOK
  /\ stage \in {"gdt_init", "gdt_load", "pic_remap", "idt_init", "acpi_init",
                "apic_init", "ioapic_init", "irq_init", "timer_init",
                "timer_handler", "tasks", "fault"}
  /\ stage = "fault" => pc = "fault"
  /\ ptr \in 1 .. Len(Entries) + 1
  /\ pic \in [offset : {FirmwareVectors, PIC1_OFFSET}, masked : SUBSET Lines]
  /\ gates \subseteq 0 .. 255
  /\ apic_state \in [apic_available : BOOLEAN, ioapic_available : BOOLEAN]
  /\ lapic \in [mapped : BOOLEAN, enabled : BOOLEAN, timer : 0 .. 255]

(* From irq_init on, an interrupt that a controller would raise finds a    *)
(* gate that leads to the kernel's code segment, and a handler: the lines  *)
(* that are not masked, at the vectors to which pic_remap moved them, and  *)
(* the local APIC's timer.                                                 *)
RaisedIsHandled ==
  stage \in {"timer_init", "timer_handler", "tasks"} =>
    /\ \A l \in Lines \ pic.masked :
         pic.offset + l \in gates /\ irq_handlers[l] # "NULL"
    /\ lapic.timer # 0 => lapic.timer \in gates /\ lapic.timer - 32 \in Lines
    /\ IsSegment(GDT_KERNEL_CS, "code")

(* Whatever cpuid, the tables and memory allow, the boot ends with a timer *)
(* that its handler fits: the local APIC's, mapped and enabled, exactly    *)
(* with the handler that counts lapic_ticks, and else the PIT's line open. *)
TimerFitsHandler ==
  stage = "tasks" =>
    /\ irq_handlers[0] = "lapic_timer_handler" <=> lapic.timer # 0
    /\ lapic.timer # 0 => lapic.mapped /\ lapic.enabled
    /\ lapic.timer = 0 => 0 \notin pic.masked

(* The boot gets to the tasks, whatever it finds and fails to map, unless  *)
(* bytes of a table are in a page that nobody mapped or it comes, before   *)
(* any I/O APIC, to a MADT entry that claims to be 0 bytes long.           *)
BootEnds ==
  <>(\/ stage \in {"tasks", "fault"}
     \/ stage = "ioapic_init" /\ ptr <= Len(Entries) /\ Entries[ptr].length = 0)

(* "APIC mode enabled, PIC disabled" (apic.c:435): once apic_init has said *)
(* so, the 8259s stay masked.                                              *)
PicStaysDisabled ==
  stage = "tasks" /\ apic_state.ioapic_available => pic.masked = Lines
=============================================================================
