------------------------------ MODULE Keyboard ------------------------------
(***************************************************************************)
(* The keyboard handler and terminal_read (keyboard.c): modifier keys, one *)
(* line buffer per terminal, and a reader per terminal that spins on a     *)
(* flag and then copies the buffer byte by byte.  The handler runs behind  *)
(* an interrupt gate and is one action; terminal_read is a system call,    *)
(* runs only while its terminal is scheduled, and can be interrupted by    *)
(* keys and ticks between any two of its accesses to shared state.         *)
(* Echo on the screen is in module Screen, processes are in Process.       *)
(***************************************************************************)
EXTENDS Integers, Sequences

CONSTANTS
    MAX_TERMINAL,          \* number of terminals
    KEYBOARD_BUFFER_SIZE,  \* characters of a line, without the newline
    TAB_LENGTH,            \* spaces of a tab
    KeySets,               \* the keys that are struck: one of these sets
    NBytes                 \* the sizes that programs read with

ASSUME TerminalAssumption == MAX_TERMINAL \in Nat \ {0}
ASSUME SizeAssumption == KEYBOARD_BUFFER_SIZE \in Nat
ASSUME TabAssumption == TAB_LENGTH \in Nat
ASSUME NBytesAssumption == NBytes \subseteq Int

VARIABLES
    shift, capslock, capsChecker, control, left_alt,
    keybufferCount, keyBuf, readFlag,  \* of each terminal
    current_terminal, curr_scheduler, kb_irq,
    keys,                  \* the keys of this behaviour
    pc, nbytes, buffer,    \* of the reader of each terminal
    caps_down, caps_lit,   \* the physical key is down; pressed an odd number of times
    entered, fresh         \* of each terminal: the line ENTER ended while the reader
                           \* was waiting, and nothing was typed since

modifierVars == <<shift, capslock, capsChecker, control, left_alt, caps_down, caps_lit>>
lineVars == <<keybufferCount, keyBuf, readFlag>>
readerVars == <<pc, nbytes, buffer>>
schedVars == <<current_terminal, curr_scheduler, kb_irq, keys>>
ghostVars == <<entered, fresh>>
vars == <<modifierVars, lineVars, readerVars, schedVars, ghostVars>>

Terminals == 0 .. MAX_TERMINAL - 1
Index == 0 .. KEYBOARD_BUFFER_SIZE   \* of an array of KEYBUFFER_LENGTH bytes
ON == 1
OFF == 0
LOCK == 1
UNLOCK == 0

\* Characters: a letter in either case, a space, a newline, and the 0 that
\* the buffers hold at first.
Letter == {"lower", "upper"}
NEWLINE == "newline"
SPACE == "space"
Char == Letter \cup {SPACE, NEWLINE, "nul"}

Init ==
    /\ shift = OFF /\ capslock = OFF /\ capsChecker = 0
    /\ control = OFF /\ left_alt = OFF
    /\ keybufferCount = [t \in Terminals |-> 0]
    /\ keyBuf = [t \in Terminals |-> [i \in Index |-> "nul"]]
    /\ readFlag = [t \in Terminals |-> UNLOCK]
    /\ current_terminal = 0 /\ curr_scheduler = 0 /\ kb_irq = TRUE
    /\ keys \in KeySets
    /\ pc = [t \in Terminals |-> "user"]
    /\ nbytes = [t \in Terminals |-> 0]
    /\ buffer = [t \in Terminals |-> <<>>]
    /\ caps_down = FALSE /\ caps_lit = FALSE
    /\ entered = [t \in Terminals |-> <<>>]
    /\ fresh = [t \in Terminals |-> FALSE]

-----------------------------------------------------------------------------
(* keyboard_handler, one action per key. *)

Struck(k) == kb_irq /\ k \in keys

Shift(value) ==
    /\ Struck("shift")
    /\ shift' = value
    /\ UNCHANGED <<capslock, capsChecker, control, left_alt, caps_down, caps_lit,
                   lineVars, readerVars, schedVars, ghostVars>>

Control(value) ==
    /\ Struck("control")
    /\ control' = value
    /\ UNCHANGED <<shift, capslock, capsChecker, left_alt, caps_down, caps_lit,
                   lineVars, readerVars, schedVars, ghostVars>>

LeftAlt(value) ==
    /\ Struck("alt")
    /\ left_alt' = value
    /\ UNCHANGED <<shift, capslock, capsChecker, control, caps_down, caps_lit,
                   lineVars, readerVars, schedVars, ghostVars>>

\* Caps lock: a key that is held repeats its press code, so presses and
\* releases walk through four states.
CapsPressNaive ==
    /\ capslock' = 1 - capslock
    /\ UNCHANGED capsChecker
CapsPress ==
    CASE capsChecker = 0 -> capslock' = ON /\ capsChecker' = 1
      [] capsChecker = 2 -> capslock' = OFF /\ capsChecker' = 3
      [] OTHER -> UNCHANGED <<capslock, capsChecker>>
CapsRelease ==
    /\ capsChecker' = CASE capsChecker = 1 -> 2
                        [] capsChecker = 3 -> 0
                        [] OTHER -> capsChecker
    /\ UNCHANGED capslock
CapsLock ==
    /\ Struck("capslock")
    /\ \/ CapsPress /\ caps_down' = TRUE /\ caps_lit' = (IF caps_down THEN caps_lit ELSE ~caps_lit)
       \/ caps_down /\ CapsRelease /\ caps_down' = FALSE /\ caps_lit' = caps_lit
    /\ UNCHANGED <<shift, control, left_alt, lineVars, readerVars, schedVars, ghostVars>>

count == keybufferCount[current_terminal]
line == [i \in 1 .. count |-> keyBuf[current_terminal][i - 1]]

Typed ==
    /\ fresh' = [fresh EXCEPT ![current_terminal] = FALSE]
    /\ UNCHANGED <<modifierVars, readFlag, readerVars, schedVars, entered>>

Backspace ==
    /\ Struck("backspace")
    /\ count > 0
    /\ keybufferCount' = [keybufferCount EXCEPT ![current_terminal] = @ - 1]
    /\ UNCHANGED <<modifierVars, keyBuf, readFlag, readerVars, schedVars, ghostVars>>

\* A tab adds its spaces one by one as long as there is room.
Room(n) == IF count + n <= KEYBOARD_BUFFER_SIZE THEN n ELSE KEYBOARD_BUFFER_SIZE - count
Tab ==
    /\ Struck("tab")
    /\ keyBuf' = [keyBuf EXCEPT ![current_terminal] =
                     [i \in Index |-> IF i \in count .. count + Room(TAB_LENGTH) - 1
                                      THEN SPACE ELSE @[i]]]
    /\ keybufferCount' = [keybufferCount EXCEPT ![current_terminal] = @ + Room(TAB_LENGTH)]
    /\ Typed

\* Ctrl-L clears the screen only: readFlag == OFF compares an array's address.
CtrlL ==
    /\ Struck("l")
    /\ control = ON
    /\ UNCHANGED vars

\* Alt-Fn: terminal_switch.  The mask of the keyboard waits for a tick.
AltFn(t) ==
    /\ Struck("fn")
    /\ left_alt = ON
    /\ current_terminal' = t
    /\ UNCHANGED <<modifierVars, lineVars, readerVars, curr_scheduler, kb_irq, keys,
                   ghostVars>>

\* Ctrl-C: halt, on the scheduled terminal.  Its program is gone; the parent
\* or a new shell runs next, outside terminal_read.
CtrlC ==
    /\ Struck("c")
    /\ control = ON
    /\ pc' = [pc EXCEPT ![curr_scheduler] = "user"]
    /\ nbytes' = [nbytes EXCEPT ![curr_scheduler] = 0]
    /\ buffer' = [buffer EXCEPT ![curr_scheduler] = <<>>]
    /\ entered' = [entered EXCEPT ![curr_scheduler] = <<>>]
    /\ fresh' = [fresh EXCEPT ![curr_scheduler] = FALSE]
    /\ UNCHANGED <<modifierVars, lineVars, schedVars>>

\* A letter (c without control, l without control, or another one), if the
\* line has room for it.
HasRoomAlways == TRUE
HasRoom == count < KEYBOARD_BUFFER_SIZE
Mapped == IF shift # capslock THEN "upper" ELSE "lower"
Type ==
    /\ Struck("letter")
    /\ HasRoom
    /\ keyBuf' = [keyBuf EXCEPT ![current_terminal][count] = Mapped]
    /\ keybufferCount' = [keybufferCount EXCEPT ![current_terminal] = @ + 1]
    /\ Typed

\* ENTER ends the line with a newline, releases the reader and resets the
\* count.  A line that the reader is already copying is being overwritten.
ReleaseScheduled == readFlag' = [readFlag EXCEPT ![curr_scheduler] = UNLOCK]
Release == readFlag' = [readFlag EXCEPT ![current_terminal] = UNLOCK]
Enter ==
    /\ Struck("enter")
    /\ keyBuf' = [keyBuf EXCEPT ![current_terminal][count] = NEWLINE]
    /\ Release
    /\ keybufferCount' = [keybufferCount EXCEPT ![current_terminal] = 0]
    /\ LET waits == pc[current_terminal] = "spin"
       IN /\ entered' = [entered EXCEPT ![current_terminal] =
                            IF waits THEN Append(line, NEWLINE) ELSE @]
          /\ fresh' = [fresh EXCEPT ![current_terminal] = waits]
    /\ UNCHANGED <<modifierVars, readerVars, schedVars>>

keyboard_handler ==
    \/ \E v \in {ON, OFF} : Shift(v) \/ Control(v) \/ LeftAlt(v)
    \/ CapsLock \/ Backspace \/ Tab \/ CtrlL \/ CtrlC \/ Type \/ Enter
    \/ \E t \in Terminals : AltFn(t)

-----------------------------------------------------------------------------
(* terminal_read, called by the program of the scheduled terminal. *)

Reader(t, from, to) ==
    /\ curr_scheduler = t
    /\ pc[t] = from
    /\ pc' = [pc EXCEPT ![t] = to]
    /\ UNCHANGED <<modifierVars, keybufferCount, keyBuf, schedVars>>

\* The flag is locked before the arguments are looked at.
Lock(t) == readFlag' = [readFlag EXCEPT ![t] = LOCK]
ReadBegins(t) ==
    \E n \in NBytes :
       /\ Reader(t, "user", IF n < 0 THEN "user" ELSE "spin")
       /\ Lock(t)
       /\ nbytes' = [nbytes EXCEPT ![t] = IF n < 0 THEN 0 ELSE n]
       /\ UNCHANGED <<buffer, ghostVars>>

ReadReleased(t) ==
    /\ Reader(t, "spin", IF nbytes[t] = 0 THEN "done" ELSE "copy")
    /\ readFlag[t] = UNLOCK
    /\ UNCHANGED <<readFlag, nbytes, buffer, ghostVars>>

i(t) == Len(buffer[t])

\* The last byte asked for is always a newline.
ReadLast(t) ==
    /\ Reader(t, "copy", "done")
    /\ i(t) = nbytes[t] - 1
    /\ buffer' = [buffer EXCEPT ![t] = Append(@, NEWLINE)]
    /\ UNCHANGED <<readFlag, nbytes, ghostVars>>

\* The others come from the buffer; beyond it, from whatever follows it.
ReadByte(t) ==
    /\ Reader(t, "copy", "check")
    /\ i(t) < nbytes[t] - 1
    /\ \E c \in (IF i(t) \in Index THEN {keyBuf[t][i(t)]} ELSE Char) :
          buffer' = [buffer EXCEPT ![t] = Append(@, c)]
    /\ UNCHANGED <<readFlag, nbytes, ghostVars>>

\* The end of the line is looked for in the buffer, which is read again.
AtNewlineNever(c) == FALSE
AtNewline(c) == c = NEWLINE
ReadCheck(t) ==
    \E c \in (IF i(t) - 1 \in Index THEN {keyBuf[t][i(t) - 1]} ELSE Char) :
       /\ Reader(t, "check", IF AtNewline(c) THEN "done" ELSE "copy")
       /\ UNCHANGED <<readFlag, nbytes, buffer, ghostVars>>

ReadReturns(t) ==
    /\ Reader(t, "done", "user")
    /\ nbytes' = [nbytes EXCEPT ![t] = 0]
    /\ buffer' = [buffer EXCEPT ![t] = <<>>]
    /\ entered' = [entered EXCEPT ![t] = <<>>]
    /\ fresh' = [fresh EXCEPT ![t] = FALSE]
    /\ UNCHANGED readFlag

terminal_read(t) ==
    \/ ReadReleased(t) \/ ReadLast(t) \/ ReadByte(t)
    \/ ReadCheck(t) \/ ReadReturns(t)

\* The scheduler: the next terminal runs, and the keyboard is unmasked if it
\* is the visible one.
Tick ==
    /\ curr_scheduler' = (curr_scheduler + 1) % MAX_TERMINAL
    /\ kb_irq' = (curr_scheduler' = current_terminal)
    /\ UNCHANGED <<modifierVars, lineVars, readerVars, current_terminal, keys, ghostVars>>

Next ==
    \/ keyboard_handler
    \/ Tick
    \/ \E t \in Terminals : ReadBegins(t) \/ terminal_read(t)

Spec == Init /\ [][Next]_vars

\* The timer keeps ticking, and a terminal that is scheduled again and again
\* makes progress in its system call.
FairSpec ==
    /\ Spec
    /\ WF_vars(Tick)
    /\ \A t \in Terminals : SF_vars(terminal_read(t))

-----------------------------------------------------------------------------
(* Properties *)

\* In particular a line never outgrows its buffer: the index at which a key or
\* ENTER writes is at most KEYBOARD_BUFFER_SIZE.
TypeOK ==
    /\ shift \in {ON, OFF} /\ capslock \in {ON, OFF} /\ capsChecker \in 0 .. 3
    /\ control \in {ON, OFF} /\ left_alt \in {ON, OFF}
    /\ keybufferCount \in [Terminals -> Index]
    /\ keyBuf \in [Terminals -> [Index -> Char]]
    /\ readFlag \in [Terminals -> {LOCK, UNLOCK}]
    /\ current_terminal \in Terminals /\ curr_scheduler \in Terminals
    /\ kb_irq \in BOOLEAN
    /\ pc \in [Terminals -> {"user", "spin", "copy", "check", "done"}]
    /\ nbytes \in [Terminals -> Nat]
    /\ buffer \in [Terminals -> Seq(Char)]
    /\ caps_down \in BOOLEAN /\ caps_lit \in BOOLEAN
    /\ entered \in [Terminals -> Seq(Char)]
    /\ fresh \in [Terminals -> BOOLEAN]

\* However long caps lock is held and whatever is typed meanwhile, capslock
\* is on exactly if the key went down an odd number of times.
CapsFollowsKey == (capslock = ON) <=> caps_lit

\* What n bytes of a line are: all of it, or its first n - 1 characters and a
\* newline.
Cut(s, n) == IF n = 0 THEN <<>>
             ELSE IF Len(s) <= n - 1 THEN s
             ELSE Append(SubSeq(s, 1, n - 1), NEWLINE)

\* terminal_read returns only after an ENTER that came while it was waiting; and
\* if nothing is typed into it, it returns the line that this ENTER ended, cut
\* to the size asked for, whichever terminals were scheduled or shown meanwhile.
ReadsUndisturbedLine ==
    \A t \in Terminals :
       /\ pc[t] \in {"copy", "check", "done"} => entered[t] # <<>>
       /\ pc[t] = "done" /\ fresh[t] => buffer[t] = Cut(entered[t], nbytes[t])

\* ENTER wakes the reader of its terminal, wherever the scheduler is.
EnterWakes ==
    \A t \in Terminals : entered[t] # <<>> ~> entered[t] = <<>>

-----------------------------------------------------------------------------
(* The inductive invariants behind the above.                              *)

\* The four states: the key is down in 1 and 3, capslock is on in 1 and 2.
CapsInv ==
    /\ caps_down <=> capsChecker \in {1, 3}
    /\ caps_lit <=> capsChecker \in {1, 2}
    /\ capslock = ON <=> capsChecker \in {1, 2}

\* A line being typed has no newline in it.
LineClean ==
    \A t \in Terminals : \A k \in 0 .. keybufferCount[t] - 1 : keyBuf[t][k] # NEWLINE

\* A reader that has not begun to copy has nothing, and a released one was
\* released by an ENTER.
Waiting(t) ==
    /\ pc[t] \in {"user", "spin"} => buffer[t] = <<>>
    /\ pc[t] = "user" => ~fresh[t]
    /\ pc[t] = "spin" /\ readFlag[t] = UNLOCK => entered[t] # <<>>
    /\ pc[t] \in {"copy", "check", "done"} => entered[t] # <<>>

\* The keyboard buffer still holds the line that ENTER ended ...
LineHeld(t) ==
    /\ Len(entered[t]) \in 1 .. KEYBOARD_BUFFER_SIZE + 1
    /\ \A k \in 1 .. Len(entered[t]) :
          /\ keyBuf[t][k - 1] = entered[t][k]
          /\ entered[t][k] = NEWLINE <=> k = Len(entered[t])

\* ... and the reader has copied a part of it.
LineCopied(t) ==
    /\ pc[t] \in {"copy", "check"} =>
          /\ Len(buffer[t]) < nbytes[t]
          /\ Len(buffer[t]) <= Len(entered[t])
          /\ \A k \in 1 .. Len(buffer[t]) : buffer[t][k] = entered[t][k]
    /\ pc[t] = "copy" => Len(buffer[t]) < Len(entered[t])
    /\ pc[t] = "check" => Len(buffer[t]) > 0
    /\ pc[t] = "done" => buffer[t] = Cut(entered[t], nbytes[t])

ReadInv ==
    /\ LineClean
    /\ \A t \in Terminals : Waiting(t) /\ (fresh[t] => LineHeld(t) /\ LineCopied(t))

=============================================================================
