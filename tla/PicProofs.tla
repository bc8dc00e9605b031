------------------------------ MODULE PicProofs ------------------------------
(***************************************************************************)
(* The interrupt controller, for any number of terminals: it is never left *)
(* blocked, and only the keyboard's line is ever masked once booted.       *)
(***************************************************************************)
EXTENDS Pic, TLAPS

\* Every step keeps the types.
LEMMA TypeStep == TypeOK /\ [Next]_vars => TypeOK'
<1> SUFFICES ASSUME TypeOK, [Next]_vars PROVE TypeOK'
    OBVIOUS
<1> USE DEF PC, Boot, Handler, Interruptible, Devices, Lines, NUM_PORTS, SLAVE_PORT,
            PIT_IRQ, KEYBOARD_CONTROLLER_IRQ, RTC_IRQ
<1>1. ASSUME NEW irq \in Devices, Request(irq) PROVE TypeOK'
    BY <1>1 DEF TypeOK, Request, maskVars, cpuVars, termVars
<1>2. ASSUME NEW irq \in Devices, TakeInterrupt(irq) PROVE TypeOK'
    BY <1>2 DEF TypeOK, TakeInterrupt, HandlerOf, MasterLine, maskVars, termVars
<1>3. CASE entry
    BY <1>3 DEF TypeOK, entry, i8259_init, keyboard_init, rtc_init, pit_init, BootStep,
                enable_irq, termVars
<1>4. CASE scheduler_first \/ scheduler_faults
    BY <1>4 DEF TypeOK, scheduler_first, scheduler_faults, Handle, send_eoi, maskVars, termVars
<1>5. CASE scheduler_next
    <2>1. NextTerminal \in Terminals
        BY TerminalAssumption DEF NextTerminal, Terminals, TypeOK
    <2>2. master_mask' \subseteq Lines /\ slave_mask' \subseteq Lines
        <3>1. CASE enable_irq(KEYBOARD_CONTROLLER_IRQ)
            BY <3>1 DEF TypeOK, enable_irq
        <3>2. CASE disable_irq(KEYBOARD_CONTROLLER_IRQ)
            <4>1. 1 < 8 /\ 1 \in Lines
                OBVIOUS
            <4>2. master_mask' = master_mask \cup {1} /\ slave_mask' = slave_mask
                BY <3>2, <4>1 DEF disable_irq
            <4>3. master_mask \subseteq Lines /\ slave_mask \subseteq Lines
                BY DEF TypeOK
            <4> HIDE DEF Lines
            <4> QED
                BY <4>1, <4>2, <4>3
        <3> QED
            BY <1>5, <3>1, <3>2 DEF scheduler_next
    <2>3. pc' \in PC /\ isr' \subseteq isr /\ UNCHANGED <<irr, from>>
        BY <1>5 DEF scheduler_next, Handle, send_eoi
    <2> QED
        BY <1>5, <2>1, <2>2, <2>3 DEF TypeOK, scheduler_next
<1>6. CASE rtc_handler \/ keyboard_key \/ keyboard_halt
    BY <1>6 DEF TypeOK, rtc_handler, keyboard_key, keyboard_halt, Handle, send_eoi,
                maskVars, termVars
<1>7. CASE Launch \/ HaltBase \/ Cli \/ Sti
    BY <1>7 DEF TypeOK, Launch, HaltBase, Cli, Sti, Step, maskVars
<1>8. CASE Fault \/ UNCHANGED vars
    BY <1>8 DEF TypeOK, Fault, vars, maskVars, cpuVars, termVars
<1> QED
    BY <1>1, <1>2, <1>3, <1>4, <1>5, <1>6, <1>7, <1>8 DEF Next, KernelStep

\* Every reachable state of the controller and its users is well typed.
THEOREM TypeCorrect == Spec => []TypeOK
<1>1. Init => TypeOK
    BY TerminalAssumption DEF Init, TypeOK, Terminals, PC, Boot, Interruptible
<1> QED
    BY <1>1, TypeStep, PTL DEF Spec

Service == NothingInService /\ OwnService

\* Every step keeps what is known of the in-service bits: a handler's EOI
\* clears all that its interrupt has set.
LEMMA ServiceStep == TypeOK /\ Service /\ [Next]_vars => Service'
<1> SUFFICES ASSUME TypeOK, Service, [Next]_vars PROVE Service'
    OBVIOUS
<1> USE DEF Service, NothingInService, OwnService, Handler, HandlerOf, Devices, NUM_PORTS,
            SLAVE_PORT, PIT_IRQ, KEYBOARD_CONTROLLER_IRQ, RTC_IRQ
<1>1. ASSUME NEW irq \in Devices, Request(irq) PROVE Service'
    BY <1>1 DEF Request, cpuVars
<1>2. ASSUME NEW irq \in Devices, TakeInterrupt(irq) PROVE Service'
    BY <1>2 DEF TakeInterrupt, Interruptible
<1>3. CASE entry
    BY <1>3 DEF entry, i8259_init, keyboard_init, rtc_init, pit_init, BootStep
<1>4. ASSUME NEW irq \in Devices, NEW next, next \notin Handler, Handle(irq, next)
      PROVE  Service'
    <2>1. isr \subseteq {irq, MasterLine(irq)} /\ isr' = {}
        BY <1>4 DEF Handle, send_eoi, MasterLine
    <2> QED
        BY <1>4, <2>1 DEF Handle
<1>5. CASE scheduler_first \/ scheduler_faults \/ scheduler_next
    BY <1>4, <1>5 DEF scheduler_first, scheduler_faults, scheduler_next
<1>6. CASE rtc_handler \/ keyboard_key \/ keyboard_halt
    BY <1>4, <1>6 DEF rtc_handler, keyboard_key, keyboard_halt, TypeOK, Interruptible
<1>7. CASE Launch \/ HaltBase \/ Cli \/ Sti
    BY <1>7 DEF Launch, HaltBase, Cli, Sti, Step
<1>8. CASE Fault \/ UNCHANGED vars
    BY <1>8 DEF Fault, vars, cpuVars
<1> QED
    BY <1>1, <1>2, <1>3, <1>5, <1>6, <1>7, <1>8 DEF Next, KernelStep

\* The controller is never left blocked, by whichever way the scheduler and
\* Ctrl-C leave their handlers.
THEOREM NeverBlocked == Spec => []NothingInService
<1>1. Init => Service
    BY DEF Init, Service, NothingInService, OwnService, HandlerOf, Devices, PIT_IRQ,
           KEYBOARD_CONTROLLER_IRQ, RTC_IRQ
<1>2. Service => NothingInService
    BY DEF Service
<1> QED
    BY <1>1, <1>2, ServiceStep, TypeCorrect, PTL DEF Spec

Masks == BootMasks /\ OnlyKeyboardMasked

\* Every step keeps what is known of the masks.
LEMMA MaskStep == TypeOK /\ Masks /\ [Next]_vars => Masks'
<1> SUFFICES ASSUME TypeOK, Masks, [Next]_vars PROVE Masks'
    OBVIOUS
<1> USE DEF Masks, BootMasks, OnlyKeyboardMasked, Boot, Lines, Devices, NUM_PORTS,
            SLAVE_PORT, PIT_IRQ, KEYBOARD_CONTROLLER_IRQ, RTC_IRQ
<1>1. ASSUME NEW irq \in Devices, Request(irq) PROVE Masks'
    BY <1>1 DEF Request, maskVars, cpuVars
<1>2. ASSUME NEW irq \in Devices, TakeInterrupt(irq) PROVE Masks'
    BY <1>2 DEF TakeInterrupt, Interruptible, maskVars, HandlerOf
<1>3. CASE i8259_init
    BY <1>3 DEF i8259_init, BootStep, enable_irq
<1>4. CASE keyboard_init
    BY <1>4 DEF keyboard_init, BootStep, enable_irq
<1>5. CASE rtc_init
    BY <1>5 DEF rtc_init, BootStep, enable_irq
<1>6. CASE pit_init
    BY <1>6 DEF pit_init, BootStep, enable_irq
<1>7. CASE scheduler_first \/ scheduler_faults
    BY <1>7 DEF scheduler_first, scheduler_faults, Handle, HandlerOf, maskVars
<1>8. CASE scheduler_next
    BY <1>8 DEF scheduler_next, Handle, HandlerOf, enable_irq, disable_irq
<1>9. CASE rtc_handler \/ keyboard_key \/ keyboard_halt
    BY <1>9 DEF rtc_handler, keyboard_key, keyboard_halt, Handle, HandlerOf, maskVars,
                TypeOK, Interruptible
<1>10. CASE Launch \/ HaltBase \/ Cli \/ Sti
    BY <1>10 DEF Launch, HaltBase, Cli, Sti, Step, maskVars
<1>11. CASE Fault \/ UNCHANGED vars
    BY <1>11 DEF Fault, vars, maskVars, cpuVars
<1> QED
    BY <1>1, <1>2, <1>3, <1>4, <1>5, <1>6, <1>7, <1>8, <1>9, <1>10, <1>11
    DEF Next, KernelStep, entry

\* Once booted, the scheduler masks and unmasks the keyboard and no other line.
THEOREM TimerNeverMasked == Spec => []OnlyKeyboardMasked
<1>1. Init => Masks
    BY DEF Init, Masks, BootMasks, OnlyKeyboardMasked, Boot
<1>2. Masks => OnlyKeyboardMasked
    BY DEF Masks
<1> QED
    BY <1>1, <1>2, MaskStep, TypeCorrect, PTL DEF Spec
=============================================================================
