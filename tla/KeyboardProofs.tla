--------------------------- MODULE KeyboardProofs ---------------------------
(***************************************************************************)
(* The keyboard, for any number of terminals, any buffer size, any set of  *)
(* keys and any read sizes: buffers are not overrun, caps lock follows its *)
(* key, and an undisturbed read returns the entered line.                  *)
(***************************************************************************)
EXTENDS Keyboard, SequenceTheorems, TLAPS

USE DEF ON, OFF, LOCK, UNLOCK

-----------------------------------------------------------------------------
(* Types *)

\* The next terminal of the round robin is a terminal.
LEMMA NextTerminal ==
    ASSUME NEW t \in Terminals PROVE (t + 1) % MAX_TERMINAL \in Terminals
BY TerminalAssumption DEF Terminals

\* What the modifier keys do to the types.
LEMMA ModifierType ==
    ASSUME TypeOK, NEW v \in {ON, OFF}, Shift(v) \/ Control(v) \/ LeftAlt(v) \/ CapsLock
    PROVE  TypeOK'
<1> USE DEF TypeOK, lineVars, readerVars, schedVars, ghostVars
<1>1. CASE Shift(v)
    BY <1>1 DEF Shift
<1>2. CASE Control(v)
    BY <1>2 DEF Control
<1>3. CASE LeftAlt(v)
    BY <1>3 DEF LeftAlt
<1>4. CASE CapsLock
    <2>1. capslock' \in {ON, OFF} /\ capsChecker' \in 0 .. 3
        BY <1>4 DEF CapsLock, CapsPress, CapsRelease
    <2>2. caps_down' \in BOOLEAN /\ caps_lit' \in BOOLEAN
        BY <1>4 DEF CapsLock
    <2> QED
        BY <1>4, <2>1, <2>2 DEF CapsLock
<1> QED
    BY <1>1, <1>2, <1>3, <1>4

\* A key that is stored leaves the count within the buffer.
LEMMA EditType ==
    ASSUME TypeOK, Backspace \/ Tab \/ Type
    PROVE  TypeOK'
<1> USE SizeAssumption, TabAssumption
<1>0. count \in 0 .. KEYBOARD_BUFFER_SIZE
    BY DEF TypeOK, count, Index
<1>1. CASE Backspace
    BY <1>0, <1>1 DEF Backspace, TypeOK, count, Index, modifierVars, readerVars, schedVars, ghostVars
<1>2. CASE Tab
    <2>1. count + Room(TAB_LENGTH) \in Index
        BY <1>0 DEF Room, Index
    <2>2. keybufferCount' \in [Terminals -> Index]
        BY <1>2, <2>1 DEF Tab, count, TypeOK
    <2>3. keyBuf' \in [Terminals -> [Index -> Char]]
        BY <1>2 DEF Tab, TypeOK, Char, SPACE
    <2> QED
        BY <1>2, <2>2, <2>3 DEF Tab, Typed, TypeOK, modifierVars, readerVars, schedVars
<1>3. CASE Type
    <2>1. count + 1 \in Index
        BY <1>0, <1>3 DEF Type, HasRoom, Index
    <2>2. keybufferCount' \in [Terminals -> Index]
        BY <1>3, <2>1 DEF Type, count, TypeOK
    <2>3. Mapped \in Char
        BY DEF Mapped, Char, Letter
    <2>4. keyBuf' \in [Terminals -> [Index -> Char]]
        BY <1>3, <2>3 DEF Type, TypeOK
    <2> QED
        BY <1>3, <2>2, <2>4 DEF Type, Typed, TypeOK, modifierVars, readerVars, schedVars
<1> QED
    BY <1>1, <1>2, <1>3

\* The line being typed is a sequence of characters, and so is what ENTER ends.
LEMMA LineType ==
    ASSUME TypeOK
    PROVE  /\ line \in Seq(Char)
           /\ Len(line) = count
           /\ Append(line, NEWLINE) \in Seq(Char)
<1>0. count \in Nat /\ count <= KEYBOARD_BUFFER_SIZE
    BY SizeAssumption DEF TypeOK, count, Index
<1>1. line \in [1 .. count -> Char]
    BY <1>0, SizeAssumption DEF line, TypeOK, Index
<1>2. line \in Seq(Char) /\ Len(line) = count
    BY <1>0, <1>1
<1>3. NEWLINE \in Char
    BY DEF Char
<1> QED
    BY <1>2, <1>3

\* ENTER, Alt-Fn and Ctrl-C keep the types.
LEMMA ControlType ==
    ASSUME TypeOK, Enter \/ CtrlC \/ CtrlL \/ \E t \in Terminals : AltFn(t)
    PROVE  TypeOK'
<1>1. CASE Enter
    <2>1. keybufferCount' \in [Terminals -> Index]
        BY <1>1, SizeAssumption DEF Enter, TypeOK, Index
    <2>2. keyBuf' \in [Terminals -> [Index -> Char]]
        BY <1>1 DEF Enter, TypeOK, Char, NEWLINE
    <2>3. readFlag' \in [Terminals -> {LOCK, UNLOCK}]
        BY <1>1 DEF Enter, Release, TypeOK
    <2>4. entered' \in [Terminals -> Seq(Char)]
        BY <1>1, LineType DEF Enter, TypeOK
    <2>5. fresh' \in [Terminals -> BOOLEAN]
        BY <1>1 DEF Enter, TypeOK
    <2> QED
        BY <1>1, <2>1, <2>2, <2>3, <2>4, <2>5
        DEF Enter, TypeOK, modifierVars, readerVars, schedVars
<1>2. CASE CtrlC
    BY <1>2 DEF CtrlC, TypeOK, modifierVars, lineVars, schedVars
<1>3. CASE CtrlL
    BY <1>3 DEF CtrlL, TypeOK, vars, modifierVars, lineVars, readerVars, schedVars, ghostVars
<1>4. CASE \E t \in Terminals : AltFn(t)
    BY <1>4 DEF AltFn, TypeOK, modifierVars, lineVars, readerVars, ghostVars
<1> QED
    BY <1>1, <1>2, <1>3, <1>4

\* A byte beyond the buffer is some character, as one of the buffer is.
LEMMA ByteType ==
    ASSUME TypeOK, NEW t \in Terminals, NEW k \in Int,
           NEW c \in (IF k \in Index THEN {keyBuf[t][k]} ELSE Char)
    PROVE  c \in Char
BY DEF TypeOK

\* terminal_read keeps the types.
LEMMA ReaderType ==
    ASSUME TypeOK, NEW t \in Terminals, ReadBegins(t) \/ terminal_read(t)
    PROVE  TypeOK'
<1> USE DEF TypeOK, modifierVars, lineVars, schedVars, ghostVars
<1>1. CASE ReadBegins(t)
    BY <1>1, NBytesAssumption DEF ReadBegins, Reader, Lock
<1>2. CASE ReadReleased(t)
    BY <1>2 DEF ReadReleased, Reader
<1>3. CASE ReadLast(t)
    <2>1. buffer' \in [Terminals -> Seq(Char)]
        BY <1>3 DEF ReadLast, Char, NEWLINE
    <2> QED
        BY <1>3, <2>1 DEF ReadLast, Reader
<1>4. CASE ReadByte(t)
    <2>1. PICK c \in (IF i(t) \in Index THEN {keyBuf[t][i(t)]} ELSE Char) :
              buffer' = [buffer EXCEPT ![t] = Append(@, c)]
        BY <1>4 DEF ReadByte
    <2>2. c \in Char
        BY <2>1
    <2>3. buffer' \in [Terminals -> Seq(Char)]
        BY <2>1, <2>2
    <2> QED
        BY <1>4, <2>3 DEF ReadByte, Reader
<1>5. CASE ReadCheck(t)
    BY <1>5 DEF ReadCheck, Reader
<1>6. CASE ReadReturns(t)
    BY <1>6 DEF ReadReturns, Reader
<1> QED
    BY <1>1, <1>2, <1>3, <1>4, <1>5, <1>6 DEF terminal_read

\* A tick keeps the types.
LEMMA TickType == TypeOK /\ Tick => TypeOK'
BY NextTerminal DEF Tick, TypeOK, modifierVars, lineVars, readerVars, ghostVars

\* Every step keeps the types.
LEMMA TypeStep == TypeOK /\ [Next]_vars => TypeOK'
<1> SUFFICES ASSUME TypeOK, [Next]_vars PROVE TypeOK'
    OBVIOUS
<1>1. CASE keyboard_handler
    BY <1>1, ModifierType, EditType, ControlType DEF keyboard_handler
<1>2. CASE Tick
    BY <1>2, TickType
<1>3. ASSUME NEW t \in Terminals, ReadBegins(t) \/ terminal_read(t) PROVE TypeOK'
    BY <1>3, ReaderType
<1>4. CASE UNCHANGED vars
    BY <1>4 DEF vars, modifierVars, lineVars, readerVars, schedVars, ghostVars, TypeOK
<1> QED
    BY <1>1, <1>2, <1>3, <1>4 DEF Next

\* What keyboard_init leaves has the right types.
LEMMA TypeInit == Init => TypeOK
<1> SUFFICES ASSUME Init PROVE TypeOK
    OBVIOUS
<1>1. /\ shift \in {ON, OFF} /\ capslock \in {ON, OFF} /\ capsChecker \in 0 .. 3
      /\ control \in {ON, OFF} /\ left_alt \in {ON, OFF}
      /\ current_terminal \in Terminals /\ curr_scheduler \in Terminals
    BY TerminalAssumption DEF Init, Terminals
<1>2. /\ keybufferCount \in [Terminals -> Index]
      /\ keyBuf \in [Terminals -> [Index -> Char]]
      /\ readFlag \in [Terminals -> {LOCK, UNLOCK}]
      /\ nbytes \in [Terminals -> Nat]
    BY SizeAssumption DEF Init, Index, Char
<1>3. <<>> \in Seq(Char)
    OBVIOUS
<1>4. /\ pc \in [Terminals -> {"user", "spin", "copy", "check", "done"}]
      /\ buffer \in [Terminals -> Seq(Char)]
      /\ entered \in [Terminals -> Seq(Char)]
    BY <1>3 DEF Init
<1>5. /\ kb_irq \in BOOLEAN /\ caps_down \in BOOLEAN /\ caps_lit \in BOOLEAN
      /\ fresh \in [Terminals -> BOOLEAN]
    BY DEF Init
<1> QED
    BY <1>1, <1>2, <1>4, <1>5 DEF TypeOK

\* No line outgrows its buffer and every index is in range, for any number of
\* terminals, any buffer size, any tab length and any keys.
THEOREM TypeCorrect == Spec => []TypeOK
BY TypeInit, TypeStep, PTL DEF Spec

-----------------------------------------------------------------------------
(* Caps lock *)

\* Only the caps lock key touches its four variables, and it walks them
\* through the four states.
LEMMA CapsStep == TypeOK /\ CapsInv /\ [Next]_vars => CapsInv'
<1> SUFFICES ASSUME TypeOK, CapsInv, [Next]_vars PROVE CapsInv'
    OBVIOUS
<1>1. CASE CapsLock
    <2>1. CASE CapsPress /\ caps_down' = TRUE
                 /\ caps_lit' = (IF caps_down THEN caps_lit ELSE ~caps_lit)
        <3>1. capsChecker \in {0, 1, 2, 3}
            BY DEF TypeOK
        <3>2. CASE caps_down
            BY <2>1, <3>1, <3>2 DEF CapsPress, CapsInv
        <3>3. CASE ~caps_down
            <4>1. capsChecker = 0 \/ capsChecker = 2
                BY <3>1, <3>3 DEF CapsInv
            <4>2. CASE capsChecker = 0
                <5>1. ~caps_lit
                    BY <4>2 DEF CapsInv
                <5>2. capslock' = ON /\ capsChecker' = 1
                    BY <2>1, <4>2 DEF CapsPress
                <5>3. caps_lit' = TRUE
                    BY <2>1, <3>3, <5>1, Zenon
                <5> QED
                    BY <2>1, <5>2, <5>3 DEF CapsInv
            <4>3. CASE capsChecker = 2
                <5>1. caps_lit = TRUE
                    BY <4>3 DEF CapsInv, TypeOK
                <5>2. capslock' = OFF /\ capsChecker' = 3
                    BY <2>1, <4>3 DEF CapsPress
                <5>3. caps_lit' = FALSE
                    BY <2>1, <3>3, <5>1, Zenon
                <5> QED
                    BY <2>1, <5>2, <5>3 DEF CapsInv
            <4> QED
                BY <4>1, <4>2, <4>3
        <3> QED
            BY <3>2, <3>3
    <2>2. CASE caps_down /\ CapsRelease /\ caps_down' = FALSE /\ caps_lit' = caps_lit
        BY <2>2 DEF CapsRelease, CapsInv, TypeOK
    <2> QED
        BY <1>1, <2>1, <2>2 DEF CapsLock
<1>2. CASE ~CapsLock
    <2>1. UNCHANGED <<capslock, capsChecker, caps_down, caps_lit>>
        BY <1>2 DEF Next, keyboard_handler, Shift, Control, LeftAlt, Backspace, Tab, Typed, CtrlL, CtrlC,
           Type, Enter, AltFn, Tick, ReadBegins, terminal_read, ReadReleased, ReadLast, ReadByte,
           ReadCheck, ReadReturns, Reader, vars, modifierVars
    <2> QED
        BY <2>1 DEF CapsInv
<1> QED
    BY <1>1, <1>2

\* capslock is on exactly if the key went down an odd number of times, however
\* its press codes repeat.
THEOREM CapsLockCorrect == Spec => []CapsFollowsKey
<1>1. Init => CapsInv
    BY DEF Init, CapsInv
<1>2. CapsInv => CapsFollowsKey
    BY DEF CapsInv, CapsFollowsKey
<1> QED
    BY <1>1, <1>2, TypeInit, TypeStep, CapsStep, PTL DEF Spec

-----------------------------------------------------------------------------
(* Reading a line *)

\* ReadInv's part for one terminal, and everything of the state it is about.
Good(t) == Waiting(t) /\ (fresh[t] => LineHeld(t) /\ LineCopied(t))
Same(t) ==
    /\ keyBuf'[t] = keyBuf[t] /\ readFlag'[t] = readFlag[t]
    /\ pc'[t] = pc[t] /\ nbytes'[t] = nbytes[t] /\ buffer'[t] = buffer[t]
    /\ entered'[t] = entered[t] /\ fresh'[t] = fresh[t]

\* A step that leaves a terminal alone keeps its part of the invariant.
LEMMA SameGood == ASSUME NEW t \in Terminals, Good(t), Same(t) PROVE Good(t)'
BY DEF Good, Same, Waiting, LineHeld, LineCopied

\* Only ENTER puts a newline into a buffer, and it begins a new line.
LEMMA CleanStep == TypeOK /\ LineClean /\ [Next]_vars => LineClean'
<1> SUFFICES ASSUME TypeOK, LineClean, [Next]_vars,
                    NEW t \in Terminals, NEW k \in 0 .. keybufferCount'[t] - 1
             PROVE  keyBuf'[t][k] # NEWLINE
    BY DEF LineClean
<1> USE SizeAssumption
<1>0. /\ keybufferCount[t] \in Nat /\ keybufferCount[t] <= KEYBOARD_BUFFER_SIZE
      /\ count \in Nat /\ count <= KEYBOARD_BUFFER_SIZE
      /\ current_terminal \in Terminals
      /\ k \in Int
    BY DEF TypeOK, Index, count
<1>1. CASE Backspace
    <2>1. k \in 0 .. keybufferCount[t] - 1
        BY <1>0, <1>1 DEF Backspace, TypeOK
    <2> QED
        BY <1>1, <2>1 DEF Backspace, LineClean
<1>2. CASE Tab
    <2>1. CASE t # current_terminal
        BY <1>0, <1>2, <2>1 DEF Tab, TypeOK, LineClean
    <2>2. CASE t = current_terminal
        <3>1. Room(TAB_LENGTH) \in Int /\ k \in Index
            BY <1>0, <1>2, <2>2, TabAssumption DEF Tab, TypeOK, Room, Index, count
        <3>2. keyBuf'[t][k] = IF k \in count .. count + Room(TAB_LENGTH) - 1
                              THEN SPACE ELSE keyBuf[t][k]
            BY <1>2, <2>2, <3>1 DEF Tab, TypeOK
        <3>3. k <= count + Room(TAB_LENGTH) - 1
            BY <1>0, <1>2, <2>2, <3>1 DEF Tab, TypeOK, count
        <3>4. k < count => keyBuf[t][k] # NEWLINE
            BY <1>0, <2>2 DEF LineClean, count
        <3> QED
            BY <1>0, <3>1, <3>2, <3>3, <3>4 DEF SPACE, NEWLINE
    <2> QED
        BY <2>1, <2>2
<1>3. CASE Type
    <2>1. CASE t # current_terminal
        BY <1>0, <1>3, <2>1 DEF Type, TypeOK, LineClean
    <2>2. CASE t = current_terminal
        <3>1. k <= count
            BY <1>0, <1>3, <2>2 DEF Type, TypeOK, count
        <3>2. count \in Index
            BY <1>0 DEF Index
        <3>3. k = count => keyBuf'[t][k] = Mapped
            BY <1>3, <2>2, <3>2 DEF Type, TypeOK
        <3>4. k < count => keyBuf'[t][k] = keyBuf[t][k] /\ keyBuf[t][k] # NEWLINE
            BY <1>0, <1>3, <2>2, <3>2 DEF Type, TypeOK, LineClean, count
        <3> QED
            BY <1>0, <3>1, <3>3, <3>4 DEF Mapped, NEWLINE
    <2> QED
        BY <2>1, <2>2
<1>4. CASE Enter
    <2>1. t # current_terminal
        BY <1>0, <1>4 DEF Enter, TypeOK
    <2> QED
        BY <1>0, <1>4, <2>1 DEF Enter, TypeOK, LineClean
<1>5. CASE UNCHANGED <<keybufferCount, keyBuf>>
    BY <1>5 DEF LineClean
<1> QED
    BY <1>1, <1>2, <1>3, <1>4, <1>5
    DEF Next, keyboard_handler, Shift, Control, LeftAlt, CapsLock, CtrlL, CtrlC, AltFn, Tick,
        ReadBegins, terminal_read, ReadReleased, ReadLast, ReadByte, ReadCheck, ReadReturns,
        Reader, vars, lineVars

\* Keys of the line: what was typed is no longer the line that ENTER ended, and
\* backspace only moves the count.
LEMMA EditGood ==
    ASSUME TypeOK, Backspace \/ Tab \/ Type, NEW t \in Terminals, Good(t)
    PROVE  Good(t)'
<1>1. CASE Backspace
    BY <1>1, SameGood DEF Backspace, Same, readerVars, ghostVars
<1>2. CASE (Tab \/ Type) /\ t # current_terminal
    <2>1. keyBuf'[t] = keyBuf[t]
        BY <1>2 DEF Tab, Type, TypeOK
    <2> QED
        BY <1>2, <2>1, SameGood DEF Tab, Type, Typed, TypeOK, Same, readerVars
<1>3. CASE (Tab \/ Type) /\ t = current_terminal
    <2>1. ~fresh'[t]
        BY <1>3 DEF Tab, Type, Typed, TypeOK
    <2> QED
        BY <1>3, <2>1 DEF Tab, Type, Typed, readerVars, Good, Waiting
<1> QED
    BY <1>1, <1>2, <1>3

\* ENTER: the buffer holds the line that it hands to a waiting reader.
LEMMA EnterGood ==
    ASSUME TypeOK, LineClean, Enter, NEW t \in Terminals, Good(t)
    PROVE  Good(t)'
<1> USE SizeAssumption
<1>1. CASE t # current_terminal
    <2>1. Same(t)
        BY <1>1 DEF Enter, Release, TypeOK, Same, readerVars
    <2> QED
        BY <2>1, SameGood
<1>2. CASE t = current_terminal
    <2>0. /\ UNCHANGED <<pc, nbytes, buffer>>
          /\ count \in Nat /\ count <= KEYBOARD_BUFFER_SIZE /\ count \in Index
        BY DEF Enter, readerVars, TypeOK, Index, count
    <2>1. CASE pc[t] # "spin"
        <3>1. entered'[t] = entered[t] /\ ~fresh'[t]
            BY <1>2, <2>1 DEF Enter, TypeOK
        <3> QED
            BY <2>0, <2>1, <3>1 DEF Good, Waiting
    <2>2. CASE pc[t] = "spin"
        <3> DEFINE e == Append(line, NEWLINE)
        <3>1. entered'[t] = e
            BY <1>2, <2>2 DEF Enter, TypeOK
        <3>2. /\ line \in Seq(Char) /\ Len(line) = count
              /\ NEWLINE \in Char
            BY LineType DEF Char
        <3>3. /\ Len(e) = count + 1
              /\ e[count + 1] = NEWLINE
              /\ \A k \in 1 .. count : e[k] = line[k]
            BY <2>0, <3>2
        <3>4. \A k \in 1 .. count : line[k] = keyBuf[t][k - 1] /\ line[k] # NEWLINE
            BY <1>2, <2>0 DEF line, LineClean, count
        <3>5. /\ keyBuf'[t][count] = NEWLINE
              /\ \A k \in 1 .. count : keyBuf'[t][k - 1] = keyBuf[t][k - 1]
            BY <1>2, <2>0 DEF Enter, TypeOK
        <3>6. LineHeld(t)'
            <4> HIDE DEF e
            <4>1. Len(entered'[t]) \in 1 .. KEYBOARD_BUFFER_SIZE + 1
                BY <2>0, <3>1, <3>3
            <4>2. ASSUME NEW k \in 1 .. Len(entered'[t])
                  PROVE  /\ keyBuf'[t][k - 1] = entered'[t][k]
                         /\ entered'[t][k] = NEWLINE <=> k = Len(entered'[t])
                BY <2>0, <3>1, <3>3, <3>4, <3>5
            <4> QED
                BY <4>1, <4>2 DEF LineHeld
        <3>7. entered'[t] # <<>>
            BY <3>6, SizeAssumption DEF LineHeld
        <3> QED
            BY <2>0, <2>2, <3>6, <3>7 DEF Good, Waiting, LineCopied
    <2> QED
        BY <2>1, <2>2
<1> QED
    BY <1>1, <1>2

\* Ctrl-C leaves the scheduled terminal with no reader.
LEMMA CtrlCGood ==
    ASSUME TypeOK, CtrlC, NEW t \in Terminals, Good(t)
    PROVE  Good(t)'
<1>1. CASE t # curr_scheduler
    BY <1>1, SameGood DEF CtrlC, TypeOK, Same, lineVars
<1>2. CASE t = curr_scheduler
    BY <1>2 DEF CtrlC, TypeOK, Good, Waiting
<1> QED
    BY <1>1, <1>2

\* The handler keeps the invariant of every terminal.
LEMMA HandlerGood ==
    ASSUME TypeOK, LineClean, keyboard_handler, NEW t \in Terminals, Good(t)
    PROVE  Good(t)'
<1>1. CASE Backspace \/ Tab \/ Type
    BY <1>1, EditGood
<1>2. CASE Enter
    BY <1>2, EnterGood
<1>3. CASE CtrlC
    BY <1>3, CtrlCGood
<1>4. CASE UNCHANGED <<lineVars, readerVars, ghostVars>>
    BY <1>4, SameGood DEF Same, lineVars, readerVars, ghostVars
<1> QED
    BY <1>1, <1>2, <1>3, <1>4
    DEF keyboard_handler, Shift, Control, LeftAlt, CapsLock, CtrlL, AltFn, vars

\* The reader of another terminal touches nothing here.
LEMMA ReaderSame ==
    ASSUME TypeOK, NEW u \in Terminals, ReadBegins(u) \/ terminal_read(u),
           NEW t \in Terminals, t # u
    PROVE  Same(t)
<1> USE DEF TypeOK, Same, Reader, ghostVars
<1>1. CASE ReadBegins(u)
    BY <1>1 DEF ReadBegins, Lock
<1>2. CASE ReadReleased(u)
    BY <1>2 DEF ReadReleased
<1>3. CASE ReadLast(u)
    BY <1>3 DEF ReadLast
<1>4. CASE ReadByte(u)
    <2>1. buffer'[t] = buffer[t]
        BY <1>4 DEF ReadByte
    <2> QED
        BY <1>4, <2>1 DEF ReadByte
<1>5. CASE ReadCheck(u)
    <2>1. PICK to \in {"done", "copy"} : Reader(u, "check", to)
        BY <1>5 DEF ReadCheck
    <2>2. pc'[t] = pc[t]
        BY <2>1
    <2> QED
        BY <1>5, <2>2 DEF ReadCheck
<1>6. CASE ReadReturns(u)
    BY <1>6 DEF ReadReturns
<1> QED
    BY <1>1, <1>2, <1>3, <1>4, <1>5, <1>6 DEF terminal_read

\* The flag is locked before it is tested, so a reader waits for a later ENTER;
\* once released it has copied nothing of at least a newline.
LEMMA ReadEntersGood ==
    ASSUME TypeOK, NEW t \in Terminals, Good(t), ReadBegins(t) \/ ReadReleased(t)
    PROVE  Good(t)'
<1>1. CASE ReadBegins(t)
    <2>1. pc[t] = "user" /\ pc'[t] \in {"user", "spin"} /\ readFlag'[t] = LOCK
        BY <1>1 DEF ReadBegins, Reader, Lock, TypeOK
    <2>2. UNCHANGED <<buffer, entered, fresh>>
        BY <1>1 DEF ReadBegins, ghostVars
    <2> QED
        BY <2>1, <2>2 DEF Good, Waiting
<1>2. CASE ReadReleased(t)
    <2>1. /\ pc[t] = "spin" /\ pc'[t] = (IF nbytes[t] = 0 THEN "done" ELSE "copy")
          /\ readFlag[t] = UNLOCK
          /\ UNCHANGED <<keyBuf, readFlag, nbytes, buffer, entered, fresh>>
        BY <1>2 DEF ReadReleased, Reader, TypeOK, ghostVars
    <2>2. buffer[t] = <<>> /\ entered[t] # <<>>
        BY <2>1 DEF Good, Waiting
    <2>3. Waiting(t)'
        BY <2>1, <2>2 DEF Waiting, Good
    <2>4. ASSUME fresh[t] PROVE LineHeld(t)' /\ LineCopied(t)'
        <3>1. LineHeld(t)'
            BY <2>1, <2>4 DEF Good, LineHeld
        <3>2. Len(buffer[t]) = 0 /\ Len(entered[t]) > 0 /\ nbytes[t] \in Nat
            BY <2>2, <2>4, SizeAssumption DEF Good, LineHeld, TypeOK
        <3>3. LineCopied(t)'
            BY <2>1, <2>2, <3>2 DEF LineCopied, Cut
        <3> QED
            BY <3>1, <3>3
    <2> QED
        BY <2>1, <2>3, <2>4 DEF Good
<1> QED
    BY <1>1, <1>2

\* The next byte of the buffer is the next byte of the line.
LEMMA ReadByteGood ==
    ASSUME TypeOK, NEW t \in Terminals, Good(t), ReadByte(t)
    PROVE  Good(t)'
<1>1. PICK c \in (IF i(t) \in Index THEN {keyBuf[t][i(t)]} ELSE Char) :
          buffer' = [buffer EXCEPT ![t] = Append(@, c)]
    BY DEF ReadByte
<1>2. /\ pc[t] = "copy" /\ pc'[t] = "check"
      /\ i(t) < nbytes[t] - 1
      /\ UNCHANGED <<keyBuf, readFlag, nbytes, entered, fresh>>
    BY DEF ReadByte, Reader, TypeOK, ghostVars
<1>3. Waiting(t)'
    BY <1>2 DEF Waiting, Good
<1>4. ASSUME fresh[t] PROVE LineHeld(t)' /\ LineCopied(t)'
    <2>1. LineHeld(t) /\ LineCopied(t)
        BY <1>4 DEF Good
    <2>2. LineHeld(t)'
        BY <1>2, <2>1 DEF LineHeld
    <2>3. /\ i(t) \in Nat /\ nbytes[t] \in Nat /\ Len(entered[t]) \in Nat
          /\ i(t) < Len(entered[t]) /\ Len(entered[t]) <= KEYBOARD_BUFFER_SIZE + 1
          /\ buffer[t] \in Seq(Char)
        BY <1>2, <2>1, SizeAssumption DEF LineCopied, LineHeld, TypeOK, i
    <2>4. i(t) \in Index
        BY <2>3, SizeAssumption DEF Index
    <2>5. c = entered[t][i(t) + 1]
        BY <1>1, <2>1, <2>3, <2>4 DEF LineHeld
    <2>6. c \in Char
        BY <1>1, <2>4 DEF TypeOK
    <2>7. buffer'[t] = Append(buffer[t], c)
        BY <1>1 DEF TypeOK
    <2>8. /\ Len(buffer'[t]) = i(t) + 1
          /\ buffer'[t][i(t) + 1] = c
          /\ \A k \in 1 .. i(t) : buffer'[t][k] = buffer[t][k]
        BY <2>3, <2>6, <2>7 DEF i
    <2>9. \A k \in 1 .. i(t) : buffer[t][k] = entered[t][k]
        BY <1>2, <2>1 DEF LineCopied, i
    <2>10. \A k \in 1 .. i(t) + 1 : buffer'[t][k] = entered[t][k]
        BY <2>3, <2>5, <2>8, <2>9
    <2>11. LineCopied(t)'
        BY <1>2, <2>3, <2>8, <2>10 DEF LineCopied
    <2> QED
        BY <2>2, <2>11
<1> QED
    BY <1>2, <1>3, <1>4 DEF Good

\* What has been copied ends in a newline exactly when it is the whole line.
LEMMA ReadCheckGood ==
    ASSUME TypeOK, NEW t \in Terminals, Good(t), ReadCheck(t)
    PROVE  Good(t)'
<1>1. PICK c \in (IF i(t) - 1 \in Index THEN {keyBuf[t][i(t) - 1]} ELSE Char) :
          Reader(t, "check", IF AtNewline(c) THEN "done" ELSE "copy")
    BY DEF ReadCheck
<1>2. /\ pc[t] = "check" /\ pc'[t] = (IF c = NEWLINE THEN "done" ELSE "copy")
      /\ UNCHANGED <<keyBuf, readFlag, nbytes, buffer, entered, fresh>>
    BY <1>1 DEF ReadCheck, Reader, AtNewline, TypeOK, ghostVars
<1>3. Waiting(t)'
    BY <1>2 DEF Waiting, Good
<1>4. ASSUME fresh[t] PROVE LineHeld(t)' /\ LineCopied(t)'
    <2>1. LineHeld(t) /\ LineCopied(t)
        BY <1>4 DEF Good
    <2>2. LineHeld(t)'
        BY <1>2, <2>1 DEF LineHeld
    <2>3. /\ i(t) \in Nat /\ nbytes[t] \in Nat /\ Len(entered[t]) \in Nat
          /\ 0 < i(t) /\ i(t) <= Len(entered[t]) /\ i(t) < nbytes[t]
          /\ Len(entered[t]) <= KEYBOARD_BUFFER_SIZE + 1
          /\ buffer[t] \in Seq(Char) /\ entered[t] \in Seq(Char)
          /\ \A k \in 1 .. i(t) : buffer[t][k] = entered[t][k]
        BY <1>2, <2>1, SizeAssumption DEF LineCopied, LineHeld, TypeOK, i
    <2>4. i(t) - 1 \in Index
        BY <2>3, SizeAssumption DEF Index
    <2>5. c = keyBuf[t][i(t) - 1]
        BY <1>1, <2>4
    <2>6. c = NEWLINE <=> i(t) = Len(entered[t])
        BY <2>1, <2>3, <2>5 DEF LineHeld
    <2>7. CASE c = NEWLINE
        <3>1. Len(buffer[t]) = Len(entered[t])
            BY <2>6, <2>7 DEF i
        <3>2. \A k \in 1 .. Len(buffer[t]) : buffer[t][k] = entered[t][k]
            BY <2>3 DEF i
        <3>3. buffer[t] = entered[t]
            BY <2>3, <3>1, <3>2, SeqEqual
        <3>4. entered[t] = Cut(entered[t], nbytes[t])
            BY <2>3, <2>6, <2>7 DEF Cut
        <3> QED
            BY <1>2, <2>2, <2>7, <3>3, <3>4 DEF LineCopied
    <2>8. CASE c # NEWLINE
        <3>1. i(t) < Len(entered[t])
            BY <2>3, <2>6, <2>8
        <3> QED
            BY <1>2, <2>2, <2>3, <2>8, <3>1 DEF LineCopied, i
    <2> QED
        BY <2>7, <2>8
<1> QED
    BY <1>2, <1>3, <1>4 DEF Good

\* The newline that ends a cut line stands in the place of its last byte.
LEMMA ReadLastGood ==
    ASSUME TypeOK, NEW t \in Terminals, Good(t), ReadLast(t)
    PROVE  Good(t)'
<1>1. /\ pc[t] = "copy" /\ pc'[t] = "done"
      /\ i(t) = nbytes[t] - 1
      /\ buffer'[t] = Append(buffer[t], NEWLINE)
      /\ UNCHANGED <<keyBuf, readFlag, nbytes, entered, fresh>>
    BY DEF ReadLast, Reader, TypeOK, ghostVars
<1>2. Waiting(t)'
    BY <1>1 DEF Waiting, Good
<1>3. ASSUME fresh[t] PROVE LineHeld(t)' /\ LineCopied(t)'
    <2>1. LineHeld(t) /\ LineCopied(t)
        BY <1>3 DEF Good
    <2>2. LineHeld(t)'
        BY <1>1, <2>1 DEF LineHeld
    <2>3. /\ i(t) \in Nat /\ nbytes[t] \in Nat /\ Len(entered[t]) \in Nat
          /\ i(t) < Len(entered[t])
          /\ buffer[t] \in Seq(Char) /\ entered[t] \in Seq(Char)
          /\ \A k \in 1 .. i(t) : buffer[t][k] = entered[t][k]
        BY <1>1, <2>1 DEF LineCopied, TypeOK, i
    <2> DEFINE head == SubSeq(entered[t], 1, nbytes[t] - 1)
    <2>4. /\ head \in Seq(Char) /\ Len(head) = i(t)
          /\ \A k \in 1 .. i(t) : head[k] = entered[t][k]
        <3>1. nbytes[t] - 1 \in 0 .. Len(entered[t])
            BY <1>1, <2>3
        <3> QED
            BY <1>1, <2>3, <3>1, SubSeqProperties
    <2> HIDE DEF head
    <2>5. buffer[t] = head
        <3>1. Len(buffer[t]) = Len(head)
            BY <2>4 DEF i
        <3>2. \A k \in 1 .. Len(buffer[t]) : buffer[t][k] = head[k]
            BY <2>3, <2>4 DEF i
        <3> QED
            BY <2>3, <2>4, <3>1, <3>2, SeqEqual
    <2>6. Cut(entered[t], nbytes[t]) = Append(head, NEWLINE)
        BY <1>1, <2>3 DEF Cut, head
    <2> QED
        BY <1>1, <2>2, <2>5, <2>6 DEF LineCopied
<1> QED
    BY <1>1, <1>2, <1>3 DEF Good

\* terminal_read keeps the invariant of every terminal.
LEMMA ReaderGood ==
    ASSUME TypeOK, NEW u \in Terminals, ReadBegins(u) \/ terminal_read(u),
           NEW t \in Terminals, Good(t)
    PROVE  Good(t)'
<1>1. CASE t # u
    BY <1>1, ReaderSame, SameGood
<1>2. CASE t = u
    <2>1. CASE ReadReturns(t)
        BY <2>1 DEF ReadReturns, Reader, TypeOK, Good, Waiting
    <2> QED
        BY <1>2, <2>1, ReadEntersGood, ReadByteGood, ReadCheckGood, ReadLastGood DEF terminal_read
<1> QED
    BY <1>1, <1>2

\* Every step keeps ReadInv.
LEMMA ReadStep == TypeOK /\ ReadInv /\ [Next]_vars => ReadInv'
<1> SUFFICES ASSUME TypeOK, ReadInv, [Next]_vars PROVE ReadInv'
    OBVIOUS
<1>1. LineClean'
    BY CleanStep DEF ReadInv
<1>2. ASSUME NEW t \in Terminals PROVE Good(t)'
    <2>0. Good(t) /\ LineClean
        BY DEF ReadInv, Good
    <2>1. CASE keyboard_handler
        BY <2>0, <2>1, HandlerGood
    <2>2. CASE UNCHANGED <<lineVars, readerVars, ghostVars>>
        BY <2>0, <2>2, SameGood DEF Same, lineVars, readerVars, ghostVars
    <2>3. ASSUME NEW u \in Terminals, ReadBegins(u) \/ terminal_read(u) PROVE Good(t)'
        BY <2>0, <2>3, ReaderGood
    <2> QED
        BY <2>1, <2>2, <2>3 DEF Next, Tick, vars
<1> QED
    BY <1>1, <1>2 DEF ReadInv, Good

\* A read returns only after an ENTER that came while it waited, and then, if
\* nothing was typed into it, the line that this ENTER ended, cut to the size
\* asked for: for every buffer size, every read size and every interleaving of
\* keys, Alt-Fn, Ctrl-C and ticks with the accesses of terminal_read.
THEOREM UndisturbedLine == Spec => []ReadsUndisturbedLine
<1>1. Init => ReadInv
    <2> SUFFICES ASSUME Init PROVE ReadInv
        OBVIOUS
    <2>1. LineClean
        BY DEF Init, LineClean
    <2>2. \A t \in Terminals : Waiting(t) /\ ~fresh[t]
        BY DEF Init, Waiting
    <2> QED
        BY <2>1, <2>2 DEF ReadInv
<1>2. ReadInv => ReadsUndisturbedLine
    BY DEF ReadInv, ReadsUndisturbedLine, Waiting, LineCopied
<1> QED
    BY <1>1, <1>2, TypeInit, TypeStep, ReadStep, PTL DEF Spec
=============================================================================
