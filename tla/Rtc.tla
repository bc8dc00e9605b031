--------------------------------- MODULE Rtc ---------------------------------
(***************************************************************************)
(* The real-time clock driver (rtc.c): register A is reached through an    *)
(* index port that the interrupt handler also uses, and rtc_read waits on  *)
(* one flag shared by every process.  System calls run with interrupts     *)
(* enabled and are preempted by the scheduler, so each port access of each *)
(* process is an action; the handler, behind an interrupt gate, is one.    *)
(***************************************************************************)
EXTENDS Integers

CONSTANTS
    Proc,        \* processes that have the RTC open
    Frequency    \* what they write to it: some legal values, some not

ASSUME FrequencyAssumption == Frequency \subseteq Nat

VARIABLES
    index,       \* the register selected at port 0x70
    reg_a,       \* register A: does its divider run, and its rate nibble
    rtc_interrupt_occurred,
    pc, prev,    \* of each process: its place, and what it read from port 0x71
    rate,        \* of each process: the rate it is writing
    seen         \* of each process: an interrupt came since its rtc_read began

vars == <<index, reg_a, rtc_interrupt_occurred, pc, prev, rate, seen>>

LOCK == 1
UNLOCK == 0
HZ_2 == 15
LegalRates == {0} \cup 6 .. 15

\* The rate nibble for a frequency, if it has one: 0, or a power of two from
\* 2 to 1024 Hz.
IsRate(value, r) == \/ value = 0 /\ r = 0
                    \/ r \in 6 .. 15 /\ value = 2 ^ (16 - r)

PC == {"idle", "open_read", "open_select", "open_write",
       "write_read", "write_check", "write_write", "spin"}

\* After rtc_init: periodic interrupts on, 2 Hz.
Init ==
    /\ index = "A"
    /\ reg_a = [divider |-> TRUE, rate |-> HZ_2]
    /\ rtc_interrupt_occurred = UNLOCK
    /\ pc = [p \in Proc |-> "idle"]
    /\ prev = [p \in Proc |-> TRUE]
    /\ rate = [p \in Proc |-> 0]
    /\ seen = [p \in Proc |-> FALSE]

Goto(p, from, to) == pc[p] = from /\ pc' = [pc EXCEPT ![p] = to]

-----------------------------------------------------------------------------
\* Port 0x71: what the selected register holds above the rate nibble.
\* Register C has no divider bits; a write to it is ignored.
PortRead(p) == prev' = [prev EXCEPT ![p] = index = "A" /\ reg_a.divider]
PortWrite(divider, r) ==
    reg_a' = IF index = "A" THEN [divider |-> divider, rate |-> r] ELSE reg_a

SelectA(p, from, to) ==
    /\ Goto(p, from, to)
    /\ index' = "A"
    /\ UNCHANGED <<reg_a, rtc_interrupt_occurred, prev, rate, seen>>

ReadA(p, from, to) ==
    /\ Goto(p, from, to)
    /\ PortRead(p)
    /\ UNCHANGED <<index, reg_a, rtc_interrupt_occurred, rate, seen>>

\* rtc_open: back to 2 Hz.
rtc_open(p) ==
    \/ SelectA(p, "idle", "open_read")
    \/ ReadA(p, "open_read", "open_select")
    \/ SelectA(p, "open_select", "open_write")
    \/ /\ Goto(p, "open_write", "idle")
       /\ PortWrite(prev[p], HZ_2)
       /\ UNCHANGED <<index, rtc_interrupt_occurred, prev, rate, seen>>

\* rtc_write: read A, look up the rate (or fail), select A again, write it.
CheckValueAny(p, value, r) == r = value
CheckValue(p, value, r) == IsRate(value, r)
rtc_write(p) ==
    \/ SelectA(p, "idle", "write_read")
    \/ ReadA(p, "write_read", "write_check")
    \/ \E value \in Frequency, r \in 0 .. 15 :
          /\ Goto(p, "write_check", "write_write")
          /\ CheckValue(p, value, r)
          /\ index' = "A"
          /\ rate' = [rate EXCEPT ![p] = r]
          /\ UNCHANGED <<reg_a, rtc_interrupt_occurred, prev, seen>>
    \/ \E value \in Frequency :
          /\ Goto(p, "write_check", "idle")
          /\ \A r \in LegalRates : ~IsRate(value, r)
          /\ UNCHANGED <<index, reg_a, rtc_interrupt_occurred, prev, rate, seen>>
    \/ /\ Goto(p, "write_write", "idle")
       /\ PortWrite(prev[p], rate[p])
       /\ UNCHANGED <<index, rtc_interrupt_occurred, prev, rate, seen>>

\* rtc_read: set the flag, then loop until an interrupt clears it.
SetFlagNot == rtc_interrupt_occurred' = rtc_interrupt_occurred
SetFlag == rtc_interrupt_occurred' = LOCK
ReadBegins(p) ==
    /\ Goto(p, "idle", "spin")
    /\ SetFlag
    /\ seen' = [seen EXCEPT ![p] = FALSE]
    /\ UNCHANGED <<index, reg_a, prev, rate>>
ReadReturns(p) ==
    /\ Goto(p, "spin", "idle")
    /\ rtc_interrupt_occurred = UNLOCK
    /\ UNCHANGED <<index, reg_a, rtc_interrupt_occurred, prev, rate, seen>>
rtc_read(p) == ReadBegins(p) \/ ReadReturns(p)

\* The clock fires while its divider runs and its rate is not 0.  The handler
\* clears the flag, and selects and reads register C to let the next one come.
Running == reg_a.divider /\ reg_a.rate # 0
ClearFlagNot == rtc_interrupt_occurred' = rtc_interrupt_occurred
ClearFlag == rtc_interrupt_occurred' = UNLOCK
rtc_handler ==
    /\ Running
    /\ ClearFlag
    /\ index' = "C"
    /\ seen' = [p \in Proc |-> TRUE]
    /\ UNCHANGED <<reg_a, pc, prev, rate>>

Next ==
    \/ rtc_handler
    \/ \E p \in Proc : rtc_open(p) \/ rtc_write(p) \/ rtc_read(p)

Spec == Init /\ [][Next]_vars

\* A running clock keeps firing, and a scheduled process keeps polling.
FairSpec ==
    /\ Spec
    /\ WF_vars(rtc_handler)
    /\ \A p \in Proc : WF_vars(ReadReturns(p))

-----------------------------------------------------------------------------
(* Properties *)

\* Register A holds only rates that rtc_write's table yields: a frequency that
\* is no power of two, or out of range, never reaches it.
TypeOK ==
    /\ index \in {"A", "C"}
    /\ reg_a \in [divider : BOOLEAN, rate : LegalRates]
    /\ rtc_interrupt_occurred \in {LOCK, UNLOCK}
    /\ pc \in [Proc -> PC]
    /\ prev \in [Proc -> BOOLEAN]
    /\ rate \in [Proc -> LegalRates]
    /\ seen \in [Proc -> BOOLEAN]

\* rtc_read never returns early: whatever other readers, writers and the
\* handler do to the shared flag, a read that returns has seen an interrupt
\* that came after the read began.
NeverEarly ==
    [][\A p \in Proc : pc[p] = "spin" /\ pc'[p] # "spin" => seen[p]]_vars

\* A read gets its interrupt, unless the clock is stopped, as long as nobody
\* else reads: then nothing sets the flag between the handler and the poll.
SoleReaderReturns ==
    \A p \in Proc :
        pc[p] = "spin" ~> (pc[p] # "spin" \/ ~Running \/ \E q \in Proc \ {p} : pc[q] = "spin")

\* The strengthening of NeverEarly that is inductive: a reader that has seen no
\* interrupt still finds the flag set, whoever else set it meanwhile.
FlagHolds ==
    \A p \in Proc : pc[p] = "spin" /\ ~seen[p] => rtc_interrupt_occurred = LOCK

\* What the driver says of itself and does not keep.

\* rtc_open: "write only our rate to A".  If the handler selects register C
\* before the read, the upper bits come from C and the divider stops.
DividerKept == reg_a.divider
=============================================================================
