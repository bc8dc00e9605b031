--------------------------------- MODULE Pic ---------------------------------
(***************************************************************************)
(* The interrupt controller (i8259.c) and its users: the initialisation in *)
(* entry, and the handlers of the timer, the keyboard and the RTC, each of *)
(* which sends its EOI before anything else.  The handlers often do not    *)
(* return to what they interrupted: the scheduler resumes another process  *)
(* or executes a shell, Ctrl-C halts a program.                            *)
(*                                                                         *)
(* A handler runs behind an interrupt gate and is one action.  Interrupts  *)
(* are taken while a program or a system call runs, and also in the launch *)
(* of a shell after the scheduler's sti.  What the handlers do to          *)
(* processes is in module Process; here a terminal has one or it has none. *)
(***************************************************************************)
EXTENDS Integers

CONSTANT MAX_TERMINAL
ASSUME TerminalAssumption == MAX_TERMINAL \in Nat \ {0}

VARIABLES
    master_mask, slave_mask,  \* the lines of each chip that are masked
    irr, isr,                 \* IRQs requested, and in service, of both chips
    pc,                       \* where the CPU is
    from,                     \* where a handler returns to
    curr_scheduler, current_terminal,
    running                   \* the terminals that have a process

maskVars == <<master_mask, slave_mask>>
cpuVars == <<pc, from>>
termVars == <<curr_scheduler, current_terminal, running>>
vars == <<maskVars, irr, isr, cpuVars, termVars>>

Terminals == 0 .. MAX_TERMINAL - 1
NUM_PORTS == 8
SLAVE_PORT == 2
PIT_IRQ == 0
KEYBOARD_CONTROLLER_IRQ == 1
RTC_IRQ == 8
Lines == 0 .. NUM_PORTS - 1
Devices == {PIT_IRQ, KEYBOARD_CONTROLLER_IRQ, RTC_IRQ}

\* The CPU: booting, running with interrupts enabled, launching a shell after
\* sti, in a system call after cli, in a handler, or lost behind a NULL pcb.
Boot == {"boot_pic", "boot_keyboard", "boot_rtc", "boot_pit"}
Handler == {"pit_handler", "keyboard_handler", "rtc_handler"}
PC == Boot \cup Handler \cup {"running", "launch", "cli", "fault"}
Interruptible == {"running", "launch"}

HandlerOf(irq) == CASE irq = PIT_IRQ -> "pit_handler"
                    [] irq = KEYBOARD_CONTROLLER_IRQ -> "keyboard_handler"
                    [] irq = RTC_IRQ -> "rtc_handler"

Init ==
    /\ master_mask = Lines /\ slave_mask = Lines
    /\ irr = {} /\ isr = {}
    /\ pc = "boot_pic" /\ from = "running"
    /\ curr_scheduler = 0 /\ current_terminal = 0 /\ running = {}

-----------------------------------------------------------------------------
(* i8259.c.  Every caller names one of the lines 0 to 15. *)

enable_irq(irq) ==
    IF irq < NUM_PORTS
    THEN master_mask' = master_mask \ {irq} /\ UNCHANGED slave_mask
    ELSE slave_mask' = slave_mask \ {irq - NUM_PORTS} /\ UNCHANGED master_mask

\* For the slave the code ors the complement of the line's bit.  (The kernel
\* only ever disables the keyboard, on the master.)
disable_irqComplement(irq) ==
    /\ master_mask' = master_mask \cup (Lines \ {irq})
    /\ UNCHANGED slave_mask
disable_irq(irq) ==
    IF irq < NUM_PORTS
    THEN master_mask' = master_mask \cup {irq} /\ UNCHANGED slave_mask
    ELSE /\ slave_mask' = slave_mask \cup (Lines \ {irq - NUM_PORTS})
         /\ UNCHANGED master_mask

\* The EOI of a slave's line goes to both chips.
send_eoiOnce(irq) == isr' = isr \ {irq}
send_eoi(irq) == isr' = isr \ (IF irq < NUM_PORTS THEN {irq} ELSE {irq, SLAVE_PORT})

-----------------------------------------------------------------------------
(* The two chips, and the devices. *)

MasterLine(irq) == IF irq < NUM_PORTS THEN irq ELSE SLAVE_PORT

Masked(irq) ==
    \/ MasterLine(irq) \in master_mask
    \/ irq >= NUM_PORTS /\ irq - NUM_PORTS \in slave_mask

\* A line in service holds back itself and those of lower priority.
HeldBack(irq) ==
    \/ \E s \in isr : s < NUM_PORTS /\ s <= MasterLine(irq)
    \/ irq >= NUM_PORTS /\ \E s \in isr : s >= NUM_PORTS /\ s <= irq

Ready(irq) == irq \in irr /\ ~Masked(irq) /\ ~HeldBack(irq)

\* A device requests an interrupt, whatever the CPU does.
Request(irq) ==
    /\ irq \notin irr
    /\ irr' = irr \cup {irq}
    /\ UNCHANGED <<maskVars, isr, cpuVars, termVars>>

\* The CPU takes the ready request of the highest priority (for these devices,
\* of the lowest number).
TakeInterrupt(irq) ==
    /\ pc \in Interruptible
    /\ Ready(irq)
    /\ \A other \in Devices : Ready(other) => irq <= other
    /\ irr' = irr \ {irq}
    /\ isr' = isr \cup {irq, MasterLine(irq)}
    /\ pc' = HandlerOf(irq)
    /\ from' = pc
    /\ UNCHANGED <<maskVars, termVars>>

-----------------------------------------------------------------------------
(* entry: interrupts are disabled until the sti at its end. *)

BootStep(here, next) ==
    /\ pc = here
    /\ pc' = next
    /\ UNCHANGED <<irr, isr, from, termVars>>
i8259_init == BootStep("boot_pic", "boot_keyboard") /\ enable_irq(SLAVE_PORT)
keyboard_init == BootStep("boot_keyboard", "boot_rtc") /\ enable_irq(KEYBOARD_CONTROLLER_IRQ)
rtc_init == BootStep("boot_rtc", "boot_pit") /\ enable_irq(RTC_IRQ)
pit_init == BootStep("boot_pit", "running") /\ enable_irq(PIT_IRQ)
entry == i8259_init \/ keyboard_init \/ rtc_init \/ pit_init

-----------------------------------------------------------------------------
(* The handlers. *)

\* What interrupt irq's handler does first, and where the CPU is afterwards.
Handle(irq, next) ==
    /\ pc = HandlerOf(irq)
    /\ send_eoi(irq)
    /\ pc' = next
    /\ UNCHANGED <<irr, from>>

scheduler_first ==
    /\ Handle(PIT_IRQ, "launch")
    /\ curr_scheduler = 0 /\ 0 \notin running
    /\ UNCHANGED <<maskVars, termVars>>

\* The context of a terminal without a process is saved through NULL, which
\* faults if page 0 is not mapped (module Process says when it is).
scheduler_faults ==
    /\ Handle(PIT_IRQ, "fault")
    /\ curr_scheduler # 0 /\ curr_scheduler \notin running
    /\ UNCHANGED <<maskVars, termVars>>

\* The next terminal: its process is resumed or its shell is launched.
NextTerminalPast == curr_scheduler + 1
NextTerminal == (curr_scheduler + 1) % MAX_TERMINAL
KeyboardAllowedNever(t) == FALSE
KeyboardAllowed(t) == t = current_terminal
scheduler_next ==
    /\ Handle(PIT_IRQ, IF NextTerminal \in running THEN "running" ELSE "launch")
    /\ curr_scheduler = 0 => 0 \in running
    /\ curr_scheduler' = NextTerminal
    /\ IF KeyboardAllowed(NextTerminal)
       THEN enable_irq(KEYBOARD_CONTROLLER_IRQ)
       ELSE disable_irq(KEYBOARD_CONTROLLER_IRQ)
    /\ UNCHANGED <<current_terminal, running>>

rtc_handler ==
    /\ Handle(RTC_IRQ, from)
    /\ UNCHANGED <<maskVars, termVars>>

\* A key returns to what it interrupted, Alt-Fn included ...
keyboard_key ==
    /\ Handle(KEYBOARD_CONTROLLER_IRQ, from)
    /\ \E t \in Terminals : current_terminal' = t
    /\ UNCHANGED <<maskVars, curr_scheduler, running>>

\* ... but Ctrl-C: halt goes on in the parent or in a new shell.
keyboard_halt ==
    /\ Handle(KEYBOARD_CONTROLLER_IRQ,
              IF curr_scheduler \in running THEN "running" ELSE "fault")
    /\ UNCHANGED <<maskVars, termVars>>

-----------------------------------------------------------------------------
(* What else moves the CPU: programs and their system calls. *)

Step(here, next) ==
    /\ pc = here
    /\ pc' = next
    /\ UNCHANGED <<maskVars, irr, isr, from, curr_scheduler, current_terminal>>

\* execute of a base shell, and its halt.
Launch ==
    /\ Step("launch", "running")
    /\ running' = running \cup {curr_scheduler}
HaltBase ==
    /\ Step("running", "launch")
    /\ curr_scheduler \in running
    /\ running' = running \ {curr_scheduler}

\* execute and vidmap: cli, and in the end sti or the flags that iret restores.
Cli == Step("running", "cli") /\ curr_scheduler \in running /\ UNCHANGED running
Sti == Step("cli", "running") /\ UNCHANGED running

\* One fault leads to the next.
Fault == pc = "fault" /\ UNCHANGED vars

KernelStep ==
    \/ entry
    \/ scheduler_first \/ scheduler_faults \/ scheduler_next
    \/ rtc_handler \/ keyboard_key \/ keyboard_halt
    \/ Sti

Next ==
    \/ \E irq \in Devices : Request(irq)
    \/ \E irq \in Devices : TakeInterrupt(irq)
    \/ KernelStep
    \/ Launch \/ HaltBase \/ Cli \/ Fault

Spec == Init /\ [][Next]_vars

\* No request comes while a handler runs: ticks, keys and RTC periods are
\* milliseconds apart.
Spaced == pc \in Handler => irr' \subseteq irr

\* The kernel's own steps are taken, the timer keeps ticking, and a request
\* that is ready again and again is taken; ticks do not come or get taken every
\* time in the few instructions between the scheduler's sti and execute's cli.
\* Requests may come in handlers for any time, but not for ever.
FairSpec ==
    /\ Spec
    /\ <>[][Spaced]_vars
    /\ WF_vars(KernelStep)
    /\ SF_vars(Launch)
    /\ SF_vars(pc = "running" /\ Request(PIT_IRQ))
    /\ SF_vars(pc = "running" /\ TakeInterrupt(PIT_IRQ))
    /\ \A irq \in Devices : SF_vars(TakeInterrupt(irq))

-----------------------------------------------------------------------------
(* Properties *)

\* Masks are sets of lines and the CPU is in a handler only for a device.
TypeOK ==
    /\ master_mask \subseteq Lines /\ slave_mask \subseteq Lines
    /\ irr \subseteq Devices
    /\ isr \subseteq Devices \cup {SLAVE_PORT}
    /\ pc \in PC /\ from \in Interruptible
    /\ curr_scheduler \in Terminals /\ current_terminal \in Terminals
    /\ running \subseteq Terminals

\* The controller is never left blocked: whenever the CPU is outside the
\* handlers every line has been given its EOI, although the scheduler and
\* Ctrl-C leave their handlers by way of execute and halt, without a return.
NothingInService == pc \notin Handler => isr = {}

\* Once booted, exactly the lines that have a handler are enabled: the
\* scheduler's enabling and disabling of the keyboard never touches another
\* line, least of all its own, that of the timer.
OnlyKeyboardMasked ==
    pc \notin Boot =>
      /\ master_mask \cup {KEYBOARD_CONTROLLER_IRQ}
           = Lines \ {PIT_IRQ, SLAVE_PORT}
      /\ slave_mask = Lines \ {RTC_IRQ - NUM_PORTS}

\* The strengthenings that are inductive: a handler finds in service only what
\* its own EOI clears ...
OwnService ==
    \A irq \in Devices : pc = HandlerOf(irq) => isr \subseteq {irq, MasterLine(irq)}

\* ... and while booting the lines are enabled one by one.
BootMasks ==
    /\ pc = "boot_pic" => master_mask = Lines
    /\ pc = "boot_keyboard" => master_mask = Lines \ {SLAVE_PORT}
    /\ pc \in {"boot_rtc", "boot_pit"} =>
          master_mask = Lines \ {SLAVE_PORT, KEYBOARD_CONTROLLER_IRQ}
    /\ pc \in Boot \ {"boot_pit"} => slave_mask = Lines
    /\ pc = "boot_pit" => slave_mask = Lines \ {RTC_IRQ - NUM_PORTS}

\* A request is served in the end: a key that was struck while its line was
\* masked waits for the visible terminal's turn and is not lost.
RequestsServed ==
    \A irq \in Devices : irq \in irr ~> (irq \notin irr \/ pc = "fault")
=============================================================================
