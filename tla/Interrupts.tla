----------------------------- MODULE Interrupts -----------------------------
(***************************************************************************)
(* From a device's edge to its handler and back: kernel/core/interrupts    *)
(* (irqs/irq.cpp, apic/controller.cpp, ioapic.cpp, lapic.cpp, pic.cpp),    *)
(* time::wait of drivers/time/pit.cpp, and the port of the keyboard.       *)
(*                                                                         *)
(* Three actors: the devices, which raise edges whenever they like; the    *)
(* processor, which takes an interrupt between any two steps of the kernel *)
(* once interrupts are on, and runs irq_handler with interrupts off; and   *)
(* the kernel, which sets up the controllers, installs and removes handlers*)
(* and waits for ticks.  What the chips do is external, modelled from how  *)
(* the code programs them:                                                 *)
(*   - the I/O APIC passes an edge on to the local APIC at once, or, at a  *)
(*     masked pin, forgets or keeps it (chips and emulators differ);       *)
(*   - a PIC latches an edge at a masked input too, and delivers it later; *)
(*   - the keyboard raises an edge when its output buffer fills, and not   *)
(*     again until a handler has read it.                                  *)
(* Each IRQ is wired to the I/O APIC pin of its number.                    *)
(***************************************************************************)
EXTENDS Integers, FiniteSets

CONSTANTS
  IRQs,      (* the lines in use; 0 is the timer, 1 the keyboard            *)
  MaxWait,   (* bound: the ticks a caller waits for                         *)
  NONE

Timer == 0
Keys == 1
Cascade == 2   (* the input of the first PIC that the second is wired to    *)

ASSUME IRQAssumption ==
  /\ {Timer, Keys} \subseteq IRQs
  /\ IRQs \subseteq 0 .. 15 \ {Cascade}
ASSUME WaitAssumption == MaxWait \in Nat \ {0}
ASSUME NoneAssumption == NONE \notin 0 .. 15

VARIABLES
  backend,
  masked,      (* lines masked at the I/O APIC or the PICs                  *)
  kept,        (* edges a masked I/O APIC pin remembers                     *)
  requested,   (* interrupt requests of the local APIC or the PICs          *)
  inService,   (* taken and not yet acknowledged                            *)
  sti,         (* the kernel has turned interrupts on                       *)
  running,     (* the IRQ whose irq_handler runs, or NONE                   *)
  called,      (* whether it has called the handler                         *)
  routines,    (* irq_routines: the lines that have a handler               *)
  step,        (* the kernel's next step                                    *)
  line,        (* the line it is working on                                 *)
  remaining,   (* time::wait's end - timerTicks                             *)
  full,        (* the keyboard's output buffer holds a byte                 *)
  listening    (* ghost: the keyboard was unmasked with no byte waiting     *)

chips == <<backend, masked, kept, requested, inService>>
cpu == <<running, called>>
kernel == <<sti, routines, step, line, listening>>
irqVars == <<chips, cpu, kernel, remaining, full>>

IrqInit ==
  /\ backend = "PIC"
  /\ masked = IRQs
  /\ kept = {}
  /\ requested = {}
  /\ inService = {}
  /\ sti = FALSE
  /\ running = NONE
  /\ called = FALSE
  /\ routines = {}
  /\ step = "initIrq"
  /\ line = Timer
  /\ remaining = 0
  /\ full = FALSE
  /\ listening = FALSE

-----------------------------------------------------------------------------
(* Devices *)

raise(n) ==
  \/ /\ backend = "APIC" /\ n \in masked
     /\ \/ kept' = kept \cup {n}
        \/ UNCHANGED kept
     /\ UNCHANGED requested
  \/ /\ ~(backend = "APIC" /\ n \in masked)
     /\ requested' = requested \cup {n}
     /\ UNCHANGED kept

Edge(n) ==
  /\ n # Keys
  /\ raise(n)
  /\ UNCHANGED <<backend, masked, inService, cpu, kernel, remaining, full>>

KeyByte ==
  /\ ~full
  /\ full' = TRUE
  /\ raise(Keys)
  /\ UNCHANGED <<backend, masked, inService, cpu, kernel, remaining>>

-----------------------------------------------------------------------------
(* The processor and irq_handler *)

(* The lines an interrupt occupies until it is acknowledged. *)
Lines(n) == IF backend = "PIC" /\ n >= 8 THEN {n, Cascade} ELSE {n}

(* All vectors of the local APIC are of one priority class: one interrupt in*)
(* service holds back the others.  A PIC lets lower lines interrupt.        *)
Deliverable(n) ==
  /\ n \in requested
  /\ IF backend = "APIC" THEN inService = {}
     ELSE /\ n \notin masked
          /\ \A m \in inService :
               IF m >= 8 THEN n >= 8 => n < m
               ELSE IF n >= 8 THEN Cascade < m ELSE n < m

Take(n) ==
  /\ sti
  /\ running = NONE
  /\ Deliverable(n)
  /\ requested' = requested \ {n}
  /\ inService' = inService \cup Lines(n)
  /\ running' = n
  /\ called' = FALSE
  /\ UNCHANGED <<backend, masked, kept, kernel, remaining, full>>

(* time_handler counts a tick; keyboard::handler reads the port. *)
irq_handler ==
  /\ running # NONE
  /\ ~called
  /\ called' = TRUE
  /\ remaining' = IF running = Timer /\ Timer \in routines /\ remaining > 0
                  THEN remaining - 1 ELSE remaining
  /\ full' = (full /\ ~(running = Keys /\ Keys \in routines))
  /\ UNCHANGED <<chips, running, kernel>>

(* Each controller clears its line of highest priority. *)
Highest(S) == {m \in S : \A k \in S : m <= k}

(* Mutant: the second PIC alone is told of its own lines. *)
AcknowledgedOnce(n) ==
  IF n >= 8 THEN Highest(inService \cap 8 .. 15)
  ELSE Highest(inService \cap 0 .. 7)

Acknowledged(n) ==
  IF backend = "APIC" THEN Highest(inService)
  ELSE Highest(inService \cap 0 .. 7) \cup
         IF n >= 8 THEN Highest(inService \cap 8 .. 15) ELSE {}

(* Mutant: no end of interrupt where there is no handler. *)
eoiIfHandled ==
  /\ running # NONE
  /\ called
  /\ inService' = IF running \in routines THEN inService \ Acknowledged(running)
                  ELSE inService
  /\ running' = NONE
  /\ UNCHANGED <<backend, masked, kept, requested, called, kernel, remaining, full>>

eoi ==
  /\ running # NONE
  /\ called
  /\ inService' = inService \ Acknowledged(running)
  /\ running' = NONE
  /\ UNCHANGED <<backend, masked, kept, requested, called, kernel, remaining, full>>

-----------------------------------------------------------------------------
(* The kernel.  Its steps come when no handler runs. *)

Thread(at) == running = NONE /\ step = at

unmask(n) ==
  /\ masked' = masked \ {n}
  /\ kept' = kept \ {n}
  /\ requested' = requested \cup (kept \cap {n})

mask(n) ==
  /\ masked' = masked \cup {n}
  /\ UNCHANGED <<kept, requested>>

Proceed(next, n) == step' = next /\ line' = n

(* The I/O APIC's pins were masked until now, as the boot loader left them. *)
initAPIC ==
  /\ Thread("initIrq")
  /\ backend' = "APIC"
  /\ kept' \in SUBSET requested
  /\ requested' = {}
  /\ Proceed("redirect", Timer)
  /\ UNCHANGED <<masked, inService, cpu, sti, routines, listening, remaining, full>>

(* When a register window cannot be mapped.  remap leaves nothing masked and*)
(* forgets all requests.                                                    *)
initPIC ==
  /\ Thread("initIrq")
  /\ masked' = {}
  /\ requested' = {}
  /\ Proceed("sti", Timer)
  /\ UNCHANGED <<backend, kept, inService, cpu, sti, routines, listening, remaining, full>>

(* A redirection entry is written unmasked first, and then masked. *)
redirectIRQ ==
  /\ Thread("redirect")
  /\ unmask(line)
  /\ Proceed("mask", line)
  /\ UNCHANGED <<backend, inService, cpu, sti, routines, listening, remaining, full>>

Later(n) == {m \in IRQs : m > n}

maskIRQ ==
  /\ Thread("mask")
  /\ mask(line)
  /\ IF Later(line) = {} THEN Proceed("sti", Timer)
     ELSE \E m \in Highest(Later(line)) : Proceed("redirect", m)
  /\ UNCHANGED <<backend, inService, cpu, sti, routines, listening, remaining, full>>

Sti ==
  /\ Thread("sti")
  /\ sti' = TRUE
  /\ Proceed("idle", Timer)
  /\ UNCHANGED <<chips, cpu, routines, listening, remaining, full>>

(* The drivers of the timer and of the keyboard install theirs. *)
installHandler(n) ==
  /\ Thread("idle")
  /\ n \in {Timer, Keys} \ routines
  /\ routines' = routines \cup {n}
  /\ Proceed("enable", n)
  /\ UNCHANGED <<chips, cpu, sti, listening, remaining, full>>

enableIRQ ==
  /\ Thread("enable")
  /\ unmask(line)
  /\ listening' = IF line = Keys THEN ~full ELSE listening
  /\ Proceed("idle", line)
  /\ UNCHANGED <<backend, inService, cpu, sti, routines, remaining, full>>

(* Mutant: the handler goes and the line stays enabled. *)
uninstallHandlerEnabled(n) ==
  /\ Thread("idle")
  /\ n \in routines
  /\ routines' = routines \ {n}
  /\ UNCHANGED <<chips, cpu, sti, step, line, listening, remaining, full>>

uninstallHandler(n) ==
  /\ Thread("idle")
  /\ n \in routines
  /\ mask(n)
  /\ listening' = (listening /\ n # Keys)
  /\ Proceed("clear", n)
  /\ UNCHANGED <<backend, inService, cpu, sti, routines, remaining, full>>

ClearRoutine ==
  /\ Thread("clear")
  /\ routines' = routines \ {line}
  /\ Proceed("idle", line)
  /\ UNCHANGED <<chips, cpu, sti, listening, remaining, full>>

(* Kernel code waits only while the timer has its driver. *)
wait(ms) ==
  /\ Thread("idle")
  /\ Timer \in routines
  /\ remaining' = ms
  /\ Proceed("wait", Timer)
  /\ UNCHANGED <<chips, cpu, sti, routines, listening, full>>

(* while (timerTicks < end) *)
WaitOver ==
  /\ Thread("wait")
  /\ remaining = 0
  /\ Proceed("idle", Timer)
  /\ UNCHANGED <<chips, cpu, sti, routines, listening, remaining, full>>

Boot == initAPIC \/ initPIC \/ redirectIRQ \/ maskIRQ \/ Sti
InCall == enableIRQ \/ ClearRoutine \/ WaitOver

IrqNext ==
  \/ \E n \in IRQs : Edge(n) \/ Take(n)
  \/ KeyByte
  \/ irq_handler \/ eoi
  \/ Boot \/ InCall
  \/ \E n \in {Timer, Keys} : installHandler(n) \/ uninstallHandler(n)
  \/ \E ms \in 1 .. MaxWait : wait(ms)

IrqSpec == IrqInit /\ [][IrqNext]_irqVars

(* The timer ticks on; handlers and calls of the kernel run to their end;   *)
(* and a timer interrupt is not overtaken for ever, because the devices are *)
(* slower than their handlers.                                              *)
IrqFairSpec ==
  /\ IrqSpec
  /\ WF_irqVars(Edge(Timer)) /\ SF_irqVars(Take(Timer))
  /\ WF_irqVars(irq_handler) /\ WF_irqVars(eoi)
  /\ WF_irqVars(Boot) /\ SF_irqVars(InCall)

-----------------------------------------------------------------------------
(* Properties *)

PCs == {"initIrq", "redirect", "mask", "sti", "idle", "enable", "clear", "wait"}

(* Sets of lines, and an interrupt in service exactly while its handler     *)
(* runs: every interrupt is acknowledged at every chip it went through,     *)
(* with or without a handler.                                               *)
IrqTypeOK ==
  /\ backend \in {"PIC", "APIC"}
  /\ masked \subseteq IRQs
  /\ kept \subseteq masked
  /\ requested \subseteq IRQs
  /\ running \in IRQs \cup {NONE}
  /\ inService = IF running = NONE THEN {} ELSE Lines(running)
  /\ sti \in BOOLEAN /\ called \in BOOLEAN
  /\ routines \subseteq {Timer, Keys}
  /\ step \in PCs
  /\ line \in IRQs
  /\ remaining \in 0 .. MaxWait
  /\ full \in BOOLEAN /\ listening \in BOOLEAN

(* A byte that waits in the keyboard raises no second edge, so its first    *)
(* must not be lost: once the line was enabled with no byte waiting, and    *)
(* until it is disabled, each byte has an interrupt on the way that will    *)
(* read it, whatever comes between the steps of installing the handler, the *)
(* read of the port and the end of interrupt.                               *)
KeyboardNeverJams ==
  listening /\ full =>
    /\ Keys \in routines
    /\ Keys \in requested \/ (running = Keys /\ ~called)

(* time::wait returns. *)
WaitEnds == step = "wait" ~> step = "idle"
=============================================================================
