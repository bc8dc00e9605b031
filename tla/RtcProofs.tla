------------------------------ MODULE RtcProofs ------------------------------
(***************************************************************************)
(* The RTC driver, for any set of processes and any frequencies written:   *)
(* register A only ever gets a legal rate, and no rtc_read returns early.  *)
(***************************************************************************)
EXTENDS Rtc, TLAPS

\* What a step from one place to another does to pc.
LEMMA GotoType ==
    ASSUME TypeOK, NEW p \in Proc, NEW from \in PC, NEW to \in PC, Goto(p, from, to)
    PROVE  pc' \in [Proc -> PC]
BY DEF TypeOK, Goto

\* Every step of the driver keeps the types; for rtc_write this rests on the
\* table of rates.
LEMMA TypeStep == TypeOK /\ [Next]_vars => TypeOK'
<1> SUFFICES ASSUME TypeOK, [Next]_vars PROVE TypeOK'
    OBVIOUS
<1>1. CASE rtc_handler
    BY <1>1 DEF TypeOK, rtc_handler, ClearFlag, UNLOCK, LOCK
<1>2. ASSUME NEW p \in Proc, rtc_open(p) PROVE TypeOK'
    <2>1. ASSUME NEW from \in PC, NEW to \in PC, SelectA(p, from, to) PROVE TypeOK'
        BY <2>1, GotoType DEF SelectA, TypeOK
    <2>2. ASSUME NEW from \in PC, NEW to \in PC, ReadA(p, from, to) PROVE TypeOK'
        BY <2>2, GotoType DEF ReadA, PortRead, TypeOK
    <2>3. CASE /\ Goto(p, "open_write", "idle")
               /\ PortWrite(prev[p], HZ_2)
               /\ UNCHANGED <<index, rtc_interrupt_occurred, prev, rate, seen>>
        BY <2>3, GotoType DEF PortWrite, HZ_2, LegalRates, PC, TypeOK
    <2> QED
        BY <1>2, <2>1, <2>2, <2>3 DEF rtc_open, PC
<1>3. ASSUME NEW p \in Proc, rtc_write(p) PROVE TypeOK'
    <2>1. ASSUME NEW from \in PC, NEW to \in PC, SelectA(p, from, to) PROVE TypeOK'
        BY <2>1, GotoType DEF SelectA, TypeOK
    <2>2. ASSUME NEW from \in PC, NEW to \in PC, ReadA(p, from, to) PROVE TypeOK'
        BY <2>2, GotoType DEF ReadA, PortRead, TypeOK
    <2>3. ASSUME NEW value \in Frequency, NEW r \in 0 .. 15,
                 Goto(p, "write_check", "write_write"), CheckValue(p, value, r),
                 index' = "A", rate' = [rate EXCEPT ![p] = r],
                 UNCHANGED <<reg_a, rtc_interrupt_occurred, prev, seen>>
          PROVE  TypeOK'
        <3>1. r \in LegalRates
            BY <2>3 DEF CheckValue, IsRate, LegalRates
        <3> QED
            BY <2>3, <3>1, GotoType DEF PC, TypeOK
    <2>4. ASSUME Goto(p, "write_check", "idle"),
                 UNCHANGED <<index, reg_a, rtc_interrupt_occurred, prev, rate, seen>>
          PROVE  TypeOK'
        BY <2>4, GotoType DEF PC, TypeOK
    <2>5. CASE /\ Goto(p, "write_write", "idle")
               /\ PortWrite(prev[p], rate[p])
               /\ UNCHANGED <<index, rtc_interrupt_occurred, prev, rate, seen>>
        BY <2>5, GotoType DEF PortWrite, PC, TypeOK
    <2> QED
        BY <1>3, <2>1, <2>2, <2>3, <2>4, <2>5 DEF rtc_write, PC
<1>4. ASSUME NEW p \in Proc, rtc_read(p) PROVE TypeOK'
    <2>1. CASE ReadBegins(p)
        BY <2>1, GotoType DEF ReadBegins, SetFlag, LOCK, PC, TypeOK
    <2>2. CASE ReadReturns(p)
        BY <2>2, GotoType DEF ReadReturns, PC, TypeOK
    <2> QED
        BY <1>4, <2>1, <2>2 DEF rtc_read
<1>5. CASE UNCHANGED vars
    BY <1>5 DEF vars, TypeOK
<1> QED
    BY <1>1, <1>2, <1>3, <1>4, <1>5 DEF Next

\* The initial state, after rtc_init, has the right types.
LEMMA TypeInit == Init => TypeOK
BY DEF Init, TypeOK, PC, LOCK, UNLOCK, HZ_2, LegalRates

\* Whatever processes write to the RTC and however their port accesses mix
\* with the handler's, register A holds a legal rate.
THEOREM TypeCorrect == Spec => []TypeOK
BY TypeInit, TypeStep, PTL DEF Spec

\* A step of one process that is not rtc_read touches neither the flag nor
\* what readers have seen, and makes no reader of it.
LEMMA PortStep ==
    ASSUME TypeOK, NEW p \in Proc, rtc_open(p) \/ rtc_write(p)
    PROVE  /\ UNCHANGED <<rtc_interrupt_occurred, seen>>
           /\ \A q \in Proc : pc'[q] = "spin" => pc[q] = "spin"
           /\ \A q \in Proc : pc[q] = "spin" => pc'[q] = "spin"
BY DEF TypeOK, rtc_open, rtc_write, SelectA, ReadA, Goto

\* The flag stays set for a reader that has seen no interrupt.
LEMMA FlagStep == TypeOK /\ FlagHolds /\ [Next]_vars => FlagHolds'
<1> SUFFICES ASSUME TypeOK, FlagHolds, [Next]_vars PROVE FlagHolds'
    OBVIOUS
<1>1. CASE rtc_handler
    BY <1>1 DEF TypeOK, rtc_handler, FlagHolds
<1>2. ASSUME NEW p \in Proc, rtc_open(p) \/ rtc_write(p) PROVE FlagHolds'
    BY <1>2, PortStep DEF FlagHolds
<1>3. ASSUME NEW p \in Proc, ReadBegins(p) PROVE FlagHolds'
    BY <1>3 DEF ReadBegins, SetFlag, FlagHolds
<1>4. ASSUME NEW p \in Proc, ReadReturns(p) PROVE FlagHolds'
    BY <1>4 DEF ReadReturns, Goto, TypeOK, FlagHolds
<1>5. CASE UNCHANGED vars
    BY <1>5 DEF vars, FlagHolds
<1> QED
    BY <1>1, <1>2, <1>3, <1>4, <1>5 DEF Next, rtc_read

\* A reader stops spinning only when the flag is clear, hence only after an
\* interrupt.
LEMMA ReturnSeen ==
    TypeOK /\ FlagHolds /\ [Next]_vars =>
        [\A p \in Proc : pc[p] = "spin" /\ pc'[p] # "spin" => seen[p]]_vars
<1> SUFFICES ASSUME TypeOK, FlagHolds, Next,
                    NEW p \in Proc, pc[p] = "spin", pc'[p] # "spin"
             PROVE  seen[p]
    BY DEF vars
<1>1. ~rtc_handler
    BY DEF rtc_handler
<1>2. PICK q \in Proc : rtc_open(q) \/ rtc_write(q) \/ rtc_read(q)
    BY <1>1 DEF Next
<1>3. rtc_read(q)
    BY <1>2, PortStep
<1>4. ReadReturns(q) /\ q = p
    BY <1>3 DEF rtc_read, ReadBegins, ReadReturns, Goto, TypeOK
<1> QED
    BY <1>4 DEF ReadReturns, FlagHolds, LOCK, UNLOCK, TypeOK

\* No rtc_read returns before an interrupt that came after it began, for any
\* number of processes that share the flag.
THEOREM ReadsNeverEarly == Spec => NeverEarly
<1>1. Init => FlagHolds
    BY DEF Init, FlagHolds
<1> QED
    BY <1>1, TypeInit, TypeStep, FlagStep, ReturnSeen, PTL DEF Spec, NeverEarly
=============================================================================
