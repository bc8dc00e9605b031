---------------------------- MODULE ScreenProofs ----------------------------
(***************************************************************************)
(* The screen, for any number of terminals and any size of the screen:     *)
(* the cursor stays on it, output stays on its own terminal and showing    *)
(* another terminal loses nothing.                                         *)
(***************************************************************************)
EXTENDS Screen, WellFoundedInduction, TLAPS

-----------------------------------------------------------------------------
(* Induction over the calls of putc that one key makes *)

Less == {mn \in Nat \X Nat : mn[1] < mn[2]}

\* A set of numbers with 0 and with the successor of each of its elements is all
\* of Nat: its complement would have a least element.
LEMMA Induction ==
    ASSUME NEW T, T \subseteq Nat, 0 \in T, \A n \in T : n + 1 \in T
    PROVE  Nat \subseteq T
<1> SUFFICES ASSUME Nat \ T # {} PROVE FALSE
    OBVIOUS
<1>1. IsWellFoundedOn(Less, Nat)
    BY NatLessThanWellFounded DEF OpToRel, Less
<1>2. PICK m \in Nat \ T : \A k \in Nat \ T : ~(<<k, m>> \in Less)
    BY <1>1, WFMin
<1>3. m - 1 \in Nat /\ <<m - 1, m>> \in Less
    BY DEF Less
<1>4. m - 1 \in T
    BY <1>2, <1>3
<1> QED
    BY <1>3, <1>4

\* Calls of putc one after the other: the surfaces between them.
Calls(s, s0, c, n) == s = [k \in 0 .. n |-> IF k = 0 THEN s0 ELSE Put(s[k - 1], c)]

\* There are such surfaces, for any number of calls.
LEMMA CallsExist ==
    ASSUME NEW s0, NEW c, NEW n \in Nat
    PROVE  \E s : Calls(s, s0, c, n)
<1> DEFINE T == {m \in Nat : \E s : Calls(s, s0, c, m)}
<1>1. 0 \in T
    <2> DEFINE s == [k \in 0 .. 0 |-> s0]
    <2>1. Calls(s, s0, c, 0)
        BY DEF Calls
    <2> QED
        BY <2>1
<1>2. ASSUME NEW m \in T PROVE m + 1 \in T
    <2>1. PICK s : Calls(s, s0, c, m)
        OBVIOUS
    <2> DEFINE r == [k \in 0 .. m + 1 |-> IF k = m + 1 THEN Put(s[m], c) ELSE s[k]]
    <2>2. ASSUME NEW k \in 0 .. m + 1
          PROVE  r[k] = IF k = 0 THEN s0 ELSE Put(r[k - 1], c)
        <3>1. CASE k = m + 1
            BY <3>1
        <3>2. CASE k # m + 1
            <4>1. k \in 0 .. m /\ (k # 0 => k - 1 \in 0 .. m /\ k - 1 # m + 1)
                BY <3>2
            <4>2. s[k] = IF k = 0 THEN s0 ELSE Put(s[k - 1], c)
                BY <2>1, <4>1 DEF Calls
            <4> QED
                BY <3>2, <4>1, <4>2
        <3> QED
            BY <3>1, <3>2
    <2>3. Calls(r, s0, c, m + 1)
        BY <2>2 DEF Calls
    <2> HIDE DEF r
    <2> QED
        BY <2>3
<1> HIDE DEF T
<1>3. T \subseteq Nat
    BY DEF T
<1>4. Nat \subseteq T
    BY <1>1, <1>2, <1>3, Induction
<1> QED
    BY <1>4 DEF T

\* What one call keeps, all of them keep.
LEMMA CallsKeep ==
    ASSUME NEW S, NEW s0 \in S, NEW c, NEW n \in Nat, NEW s, Calls(s, s0, c, n),
           \A r \in S : Put(r, c) \in S
    PROVE  s[n] \in S
<1> DEFINE T == {m \in Nat : m <= n => s[m] \in S}
<1>1. 0 \in T
    BY DEF Calls
<1>2. ASSUME NEW m \in T PROVE m + 1 \in T
    <2> SUFFICES ASSUME m + 1 <= n PROVE s[m + 1] \in S
        OBVIOUS
    <2>1. s[m + 1] = Put(s[m], c)
        BY DEF Calls
    <2> QED
        BY <2>1
<1> HIDE DEF T
<1>3. T \subseteq Nat
    BY DEF T
<1>4. n \in T
    BY <1>1, <1>2, <1>3, Induction
<1> QED
    BY <1>4 DEF T

\* The surface that the handler's putc finds.
Found == [cells |-> Surface(Foreground), x |-> x[Target(Foreground)],
          y |-> y[Target(Foreground)], wild |-> wild]

\* What the handler's calls of putc leave is in every set of surfaces that holds
\* the one they found and that putc does not lead out of.
LEMMA PutcKeeps ==
    ASSUME NEW S, Found \in S, NEW c, NEW n \in Nat, putc(c, n),
           \A r \in S : Put(r, c) \in S
    PROVE  \E s \in S : /\ SetSurface(Foreground, s.cells)
                        /\ SetCursor(Target(Foreground), s)
                        /\ wild' = s.wild
<1> DEFINE s == CHOOSE s : Calls(s, Found, c, n)
<1>1. /\ SetSurface(Foreground, s[n].cells)
      /\ SetCursor(Target(Foreground), s[n])
      /\ wild' = s[n].wild
    BY DEF putc, Calls, Found
<1>2. Calls(s, Found, c, n)
    BY CallsExist
<1> HIDE DEF s
<1>3. s[n] \in S
    BY <1>2, CallsKeep
<1> QED
    BY <1>1, <1>3

-----------------------------------------------------------------------------
(* Surfaces and cursors *)

Uint == 0 .. UINT - 1
Size == NUM_ROWS * NUM_COLS

\* Surfaces that show nothing but characters of A.
Surfaces(A) == [cells : [Cells -> A], x : Uint, y : Uint, wild : BOOLEAN]

\* A screen has a row, and unsigned numbers reach past the row below it.
LEMMA Sizes ==
    /\ NUM_COLS \in Nat /\ NUM_COLS > 0
    /\ Size \in Nat /\ Size >= NUM_COLS
    /\ UINT \in Nat /\ UINT > Size + NUM_COLS
<1>1. \A r, n \in Nat : r > 0 => r * n \in Nat /\ r * n >= n
    OBVIOUS
<1> QED
    BY <1>1, SizeAssumption, UintAssumption DEF Size

\* The cells of some rows, and of one row less.
LEMMA Products ==
    ASSUME NEW a \in Nat
    PROVE  /\ a * NUM_COLS \in Nat
           /\ a * NUM_COLS >= a
           /\ (a - 1) * NUM_COLS = a * NUM_COLS - NUM_COLS
           /\ 0 * NUM_COLS = 0
BY Sizes

\* An unsigned number that does not overflow is itself.
LEMMA Remainder ==
    ASSUME NEW n \in Nat
    PROVE  /\ n % UINT \in Uint
           /\ n < UINT => n % UINT = n
<1>1. UINT \in Nat /\ UINT > 0
    BY Sizes
<1> QED
    BY <1>1 DEF Uint

\* A cell is an unsigned number.
LEMMA CellType ==
    ASSUME NEW cx \in Uint, NEW cy \in Uint
    PROVE  /\ Cell(cx, cy) \in Uint
           /\ cy * NUM_COLS + cx \in Nat
           /\ cy * NUM_COLS + cx < UINT => Cell(cx, cy) = cy * NUM_COLS + cx
<1>1. cx \in Nat /\ cy \in Nat
    BY DEF Uint
<1>2. cy * NUM_COLS + cx \in Nat
    BY <1>1, Products
<1> QED
    BY <1>2, Remainder DEF Cell

\* An x that ran over the right edge is counted in whole rows.
LEMMA RowsOverType ==
    ASSUME NEW cx \in Nat
    PROVE  /\ RowsOver(cx) \in Nat
           /\ RowsOver(cx) * NUM_COLS <= cx
<1>0. NUM_COLS \in Nat /\ NUM_COLS > 0
    BY Sizes
<1>1. CASE cx > NUM_COLS
    <2> DEFINE q == (cx - 1) \div NUM_COLS
    <2>1. cx - 1 \in Nat
        BY <1>0, <1>1
    <2>2. q \in Nat /\ q * NUM_COLS <= cx - 1
        BY <1>0, <2>1
    <2>3. RowsOver(cx) = q
        BY <1>1 DEF RowsOver
    <2> HIDE DEF q
    <2>4. q * NUM_COLS \in Nat
        BY <2>2, Products
    <2> QED
        BY <2>2, <2>3, <2>4
<1>2. CASE ~(cx > NUM_COLS)
    BY <1>0, <1>2 DEF RowsOver
<1> QED
    BY <1>1, <1>2

\* Moving and scrolling keep a cursor unsigned.
LEMMA MovedType ==
    ASSUME NEW c, NEW cx \in Uint, NEW cy \in Uint
    PROVE  Moved(c, cx, cy).x \in Uint /\ Moved(c, cx, cy).y \in Uint
<1>1. cx \in Nat /\ cy \in Nat /\ 0 \in Uint
    BY Sizes DEF Uint
<1>2. cy + RowsOver(cx) + 1 \in Nat
    BY <1>1, RowsOverType
<1> QED
    BY <1>1, <1>2, Remainder DEF Moved, NewRow
\* Moving the cursor up yields unsigned coordinates.
LEMMA CursorUpType ==
    ASSUME NEW cx \in Uint, NEW cy \in Uint, MustScroll(cx, cy)
    PROVE  CursorUp(cx, cy).x \in Uint /\ CursorUp(cx, cy).y \in Uint
<1>1. CASE cy > 0
    BY <1>1, Sizes DEF CursorUp, Uint
<1>2. CASE ~(cy > 0)
    <2>1. cx \in Nat /\ cy = 0
        BY <1>2 DEF Uint
    <2>2. cy * NUM_COLS + cx = cx
        BY <2>1, Products
    <2>3. Cell(cx, cy) = cx
        BY <2>1, <2>2, CellType, Sizes DEF Uint
    <2>4. cx >= NUM_COLS
        BY <2>1, <2>3, Sizes DEF MustScroll, Size
    <2> QED
        BY <1>2, <2>1, <2>4, Sizes DEF CursorUp, Uint
<1> QED
    BY <1>1, <1>2

\* Drawing and scrolling bring in the character drawn and blanks.
LEMMA DrawType ==
    ASSUME NEW A, ASCII_SPACE \in A, NEW cells \in [Cells -> A]
    PROVE  /\ \A c \in A : \A cx, cy : Draw(cells, cx, cy, c) \in [Cells -> A]
           /\ ScrollUp(cells) \in [Cells -> A]
BY DEF Draw, ScrollUp

\* So does all of putc, and its cursor stays unsigned.
LEMMA PutType ==
    ASSUME NEW A, ASCII_SPACE \in A, NEW c \in A \cup {NEWLINE}, NEW s \in Surfaces(A)
    PROVE  Put(s, c) \in Surfaces(A)
<1> DEFINE drawn == IF c = NEWLINE THEN s.cells ELSE Draw(s.cells, s.x, s.y, c)
           moved == Moved(c, s.x, s.y)
           scrolls == MustScroll(moved.x, moved.y)
           cursor == IF scrolls THEN CursorUp(moved.x, moved.y) ELSE moved
           cells == IF scrolls THEN ScrollUp(drawn) ELSE drawn
           w == s.wild \/ (c # NEWLINE /\ Outside(s.x, s.y))
<1>0. Put(s, c) = [cells |-> cells, x |-> cursor.x, y |-> cursor.y, wild |-> w]
    BY DEF Put
<1>1. s.cells \in [Cells -> A] /\ s.x \in Uint /\ s.y \in Uint
    BY DEF Surfaces
<1>2. drawn \in [Cells -> A]
    BY <1>1, DrawType
<1>3. moved.x \in Uint /\ moved.y \in Uint
    BY <1>1, MovedType
<1>4. w \in BOOLEAN
    OBVIOUS
<1> HIDE DEF drawn, moved, w
<1>5. cells \in [Cells -> A]
    BY <1>2, DrawType
<1>6. cursor.x \in Uint /\ cursor.y \in Uint
    BY <1>3, CursorUpType
<1> HIDE DEF cells, cursor
<1> QED
    BY <1>0, <1>4, <1>5, <1>6 DEF Surfaces

-----------------------------------------------------------------------------
(* Types *)

Places == {"user", "draw_video", "draw_page", "move_video", "move_page",
           "scroll_video", "scroll_page"}

\* A terminal's page and cursor, and video memory, are set to typed values.
LEMMA SetType ==
    ASSUME TypeOK, NEW foreground \in BOOLEAN, NEW cells \in [Cells -> Drawn],
           SetSurface(foreground, cells)
    PROVE  video' \in [Cells -> Drawn] /\ vid_page' \in [Terminals -> [Cells -> Drawn]]
BY DEF TypeOK, SetSurface

\* Setting a cursor to unsigned coordinates keeps the cursors unsigned.
LEMMA CursorType ==
    ASSUME TypeOK, NEW t \in Terminals, NEW cursor, cursor.x \in Uint, cursor.y \in Uint,
           SetCursor(t, cursor)
    PROVE  x' \in [Terminals -> Uint] /\ y' \in [Terminals -> Uint]
BY DEF TypeOK, SetCursor, Uint

\* The surface and the cursor that are used are typed.
LEMMA TargetType ==
    ASSUME TypeOK, NEW foreground \in BOOLEAN
    PROVE  /\ Target(foreground) \in Terminals
           /\ Surface(foreground) \in [Cells -> Drawn]
           /\ x[Target(foreground)] \in Uint /\ y[Target(foreground)] \in Uint
BY DEF TypeOK, Target, Surface, Uint

\* A program's step of putc.
LEMMA ProgramType ==
    ASSUME TypeOK, NEW from, NEW to \in Places, Program(from, to)
    PROVE  /\ pc' \in [Terminals -> Places]
           /\ UNCHANGED <<keybufferCount, current_terminal, curr_scheduler, kb_irq,
                          race, stray, under>>
BY DEF TypeOK, Program, Places, schedVars, ghostVars

\* What a program prints is its terminal or a newline, so it can be drawn.
LEMMA CharType ==
    ASSUME TypeOK
    PROVE  /\ c0 \in Terminals \cup {NEWLINE}
           /\ c0 # NEWLINE => c0 \in Drawn
           /\ ASCII_SPACE \in Drawn
BY DEF TypeOK, c0, Drawn

\* A program's putc keeps the types.
LEMMA WriteType == ASSUME TypeOK, terminal_write PROVE TypeOK'
<1>1. CASE PutcChooses
    <2>1. pc' \in [Terminals -> Places]
        BY <1>1 DEF PutcChooses, Program, TypeOK, Places
    <2>2. char' \in [Terminals -> Terminals \cup {NEWLINE}]
        BY <1>1 DEF PutcChooses, TypeOK
    <2> QED
        BY <1>1, <2>1, <2>2
        DEF PutcChooses, Program, TypeOK, Places, surfaceVars, schedVars, ghostVars
<1>2. ASSUME NEW from, NEW to \in Places, NEW foreground \in BOOLEAN,
             PutcDraws(from, to, foreground)
      PROVE  TypeOK'
    <2> DEFINE t == Target(foreground)
    <2>0. Program(from, to)
        BY <1>2 DEF PutcDraws
    <2>1. video' \in [Cells -> Drawn] /\ vid_page' \in [Terminals -> [Cells -> Drawn]]
        <3>1. CASE c0 = NEWLINE
            BY <1>2, <3>1 DEF PutcDraws, TypeOK
        <3>2. CASE c0 # NEWLINE
            <4> DEFINE cells == Draw(Surface(foreground), x[t], y[t], c0)
            <4>1. SetSurface(foreground, cells)
                BY <1>2, <3>2 DEF PutcDraws
            <4>2. cells \in [Cells -> Drawn]
                BY <3>2, CharType, TargetType, DrawType
            <4> HIDE DEF cells
            <4> QED
                BY <4>1, <4>2, SetType
        <3> QED
            BY <3>1, <3>2
    <2>2. wild' \in BOOLEAN
        BY <1>2 DEF PutcDraws, TypeOK
    <2>3. UNCHANGED <<x, y, char>>
        BY <1>2 DEF PutcDraws
    <2> QED
        BY <2>0, <2>1, <2>2, <2>3, ProgramType DEF TypeOK, Places
<1>3. ASSUME NEW from, NEW to \in Places, NEW foreground \in BOOLEAN,
             PutcMoves(from, to, foreground)
      PROVE  TypeOK'
    <2> DEFINE t == Target(foreground)
               moved == Moved(c0, x[t], y[t])
    <2>0. Program(from, to) /\ UNCHANGED <<video, vid_page, wild, char>>
        BY <1>3 DEF PutcMoves
    <2>1. SetCursor(t, moved)
        BY <1>3 DEF PutcMoves
    <2>2. moved.x \in Uint /\ moved.y \in Uint /\ t \in Terminals
        BY TargetType, MovedType
    <2> HIDE DEF moved, t
    <2>3. x' \in [Terminals -> Uint] /\ y' \in [Terminals -> Uint]
        BY <2>1, <2>2, CursorType
    <2> QED
        BY <2>0, <2>3, ProgramType DEF TypeOK, Places, Uint
<1>4. ASSUME NEW from, NEW to \in Places, NEW foreground \in BOOLEAN,
             PutcScrolls(from, to, foreground)
      PROVE  TypeOK'
    <2> DEFINE t == Target(foreground)
    <2>0. Program(from, to) /\ UNCHANGED wild
        BY <1>4 DEF PutcScrolls
    <2>1. char' \in [Terminals -> Terminals \cup {NEWLINE}]
        BY <1>4 DEF PutcScrolls, TypeOK
    <2>2. /\ video' \in [Cells -> Drawn] /\ vid_page' \in [Terminals -> [Cells -> Drawn]]
          /\ x' \in [Terminals -> Uint] /\ y' \in [Terminals -> Uint]
        <3>1. CASE ~MustScroll(x[t], y[t])
            BY <1>4, <3>1 DEF PutcScrolls, TypeOK, Uint
        <3>2. CASE MustScroll(x[t], y[t])
            <4> DEFINE cells == ScrollUp(Surface(foreground))
                       cursor == CursorUp(x[t], y[t])
            <4>1. SetSurface(foreground, cells) /\ SetCursor(t, cursor)
                BY <1>4, <3>2 DEF PutcScrolls
            <4>2. cells \in [Cells -> Drawn]
                BY CharType, TargetType, DrawType
            <4>3. cursor.x \in Uint /\ cursor.y \in Uint /\ t \in Terminals
                BY <3>2, TargetType, CursorUpType
            <4> HIDE DEF cells, cursor, t
            <4> QED
                BY <4>1, <4>2, <4>3, SetType, CursorType
        <3> QED
            BY <3>1, <3>2
    <2> QED
        BY <2>0, <2>1, <2>2, ProgramType DEF TypeOK, Places, Uint
<1> QED
    BY <1>1, <1>2, <1>3, <1>4 DEF terminal_write, Places

\* A key's counters and flags.
LEMMA StruckType ==
    ASSUME TypeOK, NEW k, Struck(k)
    PROVE  /\ race' \in 0 .. MAX_RACE /\ stray' \in BOOLEAN /\ under' \in BOOLEAN
           /\ UNCHANGED <<curr_scheduler, kb_irq>>
<1>1. race' \in 0 .. MAX_RACE
    BY RaceAssumption DEF Struck, TypeOK
<1> QED
    BY <1>1 DEF Struck, TypeOK, schedVars

\* The surface that the handler's putc finds is typed, and so is what it leaves.
LEMMA PutcType ==
    ASSUME TypeOK, NEW c \in Drawn \cup {NEWLINE}, NEW n \in Nat, putc(c, n)
    PROVE  /\ video' \in [Cells -> Drawn] /\ vid_page' \in [Terminals -> [Cells -> Drawn]]
           /\ x' \in [Terminals -> Uint] /\ y' \in [Terminals -> Uint]
           /\ wild' \in BOOLEAN
<1>1. Foreground \in BOOLEAN
    BY DEF Foreground
<1>2. Found \in Surfaces(Drawn)
    BY <1>1, TargetType DEF Found, Surfaces, TypeOK
<1>3. \A r \in Surfaces(Drawn) : Put(r, c) \in Surfaces(Drawn)
    BY CharType, PutType
<1>4. PICK s \in Surfaces(Drawn) : /\ SetSurface(Foreground, s.cells)
                                   /\ SetCursor(Target(Foreground), s)
                                   /\ wild' = s.wild
    BY <1>2, <1>3, PutcKeeps
<1>5. s.cells \in [Cells -> Drawn] /\ s.x \in Uint /\ s.y \in Uint /\ s.wild \in BOOLEAN
    BY DEF Surfaces
<1> QED
    BY <1>1, <1>4, <1>5, TargetType, SetType, CursorType

\* The keyboard handler keeps the types; a line stays within its buffer.
LEMMA KeyType == ASSUME TypeOK, keyboard_handler PROVE TypeOK'
<1> USE LineAssumption
<1>0. count \in 0 .. KEYBOARD_BUFFER_SIZE /\ current_terminal \in Terminals
    BY DEF TypeOK, count
<1>1. ASSUME NEW c \in Drawn \cup {NEWLINE}, NEW n \in Nat, putc(c, n), NEW k, Struck(k),
             NEW m \in 0 .. KEYBOARD_BUFFER_SIZE, SetCount(m),
             UNCHANGED <<current_terminal, pc, char>>
      PROVE  TypeOK'
    <2>1. keybufferCount' \in [Terminals -> 0 .. KEYBOARD_BUFFER_SIZE]
        BY <1>1 DEF SetCount, TypeOK
    <2> QED
        BY <1>1, <2>1, PutcType, StruckType DEF TypeOK, Uint
<1>2. CASE EchoLetter
    <2>1. count + 1 \in 0 .. KEYBOARD_BUFFER_SIZE
        BY <1>0, <1>2 DEF EchoLetter, HasRoom
    <2>2. Echo(current_terminal) \in Drawn
        BY <1>0 DEF Drawn
    <2> QED
        BY <1>1, <1>2, <2>1, <2>2 DEF EchoLetter
<1>3. CASE EchoTab
    <2>1. Room(TAB_LENGTH) \in Nat /\ count + Room(TAB_LENGTH) \in 0 .. KEYBOARD_BUFFER_SIZE
        BY <1>0 DEF Room
    <2>2. ASCII_SPACE \in Drawn
        BY DEF Drawn
    <2> QED
        BY <1>1, <1>3, <2>1, <2>2 DEF EchoTab
<1>4. CASE EchoEnter
    <2>1. 0 \in 0 .. KEYBOARD_BUFFER_SIZE
        OBVIOUS
    <2> QED
        BY <1>1, <1>4, <2>1 DEF EchoEnter
<1>5. CASE CtrlC
    <2>1. pc' \in [Terminals -> Places] /\ char' \in [Terminals -> Terminals \cup {NEWLINE}]
        BY <1>5 DEF CtrlC, TypeOK, Places
    <2>2. putc(NEWLINE, 1) /\ Struck("ctrl_c") /\ UNCHANGED <<keybufferCount, current_terminal>>
        BY <1>5 DEF CtrlC
    <2> QED
        BY <2>1, <2>2, PutcType, StruckType DEF TypeOK, Places, Uint
<1>6. CASE delete
    <2>1. x' \in [Terminals -> Uint]
        <3>1. (x[current_terminal] - 1) % UINT \in Uint
            BY <1>0, Sizes DEF TypeOK, Uint
        <3> QED
            BY <1>6, <3>1 DEF delete, TypeOK, Uint
    <2>2. video' \in [Cells -> Drawn]
        BY <1>6, CharType, DrawType DEF delete, TypeOK
    <2>3. keybufferCount' \in [Terminals -> 0 .. KEYBOARD_BUFFER_SIZE]
        BY <1>0, <1>6 DEF delete, SetCount, TypeOK
    <2>4. wild' \in BOOLEAN /\ Struck("backspace")
          /\ UNCHANGED <<vid_page, y, current_terminal, pc, char>>
        BY <1>6 DEF delete, TypeOK
    <2> QED
        BY <2>1, <2>2, <2>3, <2>4, StruckType DEF TypeOK, Uint
<1>7. CASE CtrlL
    <2>1. Blank \in [Cells -> Drawn]
        BY DEF Blank, Drawn
    <2>2. x' \in [Terminals -> Uint] /\ y' \in [Terminals -> Uint]
        BY <1>7, Sizes DEF CtrlL, SetCursor, TypeOK, Uint
    <2>3. video' = Blank /\ Struck("ctrl_l")
          /\ UNCHANGED <<vid_page, keybufferCount, current_terminal, wild, pc, char>>
        BY <1>7 DEF CtrlL
    <2> QED
        BY <2>1, <2>2, <2>3, StruckType DEF TypeOK, Uint
<1>8. ASSUME NEW t \in Terminals, terminal_switch(t) PROVE TypeOK'
    <2>1. vid_page' \in [Terminals -> [Cells -> Drawn]] /\ video' \in [Cells -> Drawn]
        BY <1>8 DEF terminal_switch, Saved, TypeOK
    <2> QED
        BY <1>8, <2>1, StruckType DEF terminal_switch, TypeOK
<1> QED
    BY <1>2, <1>3, <1>4, <1>5, <1>6, <1>7, <1>8 DEF keyboard_handler

\* Every step keeps the types.
LEMMA TypeStep == TypeOK /\ [Next]_vars => TypeOK'
<1> SUFFICES ASSUME TypeOK, [Next]_vars PROVE TypeOK'
    OBVIOUS
<1>1. CASE Tick
    <2>1. (curr_scheduler + 1) % MAX_TERMINAL \in Terminals
        BY TerminalAssumption DEF TypeOK, Terminals
    <2> QED
        BY <1>1, <2>1 DEF Tick, TypeOK, surfaceVars, ghostVars
<1>2. CASE UNCHANGED vars
    BY <1>2 DEF vars, surfaceVars, schedVars, ghostVars, TypeOK
<1> QED
    BY <1>1, <1>2, WriteType, KeyType DEF Next

\* Blank screens, cursors in the corner.
LEMMA TypeInit == Init => TypeOK
<1> SUFFICES ASSUME Init PROVE TypeOK
    OBVIOUS
<1>1. Blank \in [Cells -> Drawn]
    BY DEF Blank, Drawn
<1>2. 0 \in Terminals /\ 0 \in 0 .. UINT - 1
    BY TerminalAssumption, Sizes DEF Terminals
<1>3. /\ video \in [Cells -> Drawn] /\ vid_page \in [Terminals -> [Cells -> Drawn]]
      /\ x \in [Terminals -> 0 .. UINT - 1] /\ y \in [Terminals -> 0 .. UINT - 1]
    BY <1>1, <1>2 DEF Init
<1>4. /\ keybufferCount \in [Terminals -> 0 .. KEYBOARD_BUFFER_SIZE]
      /\ current_terminal \in Terminals /\ curr_scheduler \in Terminals
      /\ race \in 0 .. MAX_RACE
    BY <1>2, LineAssumption, RaceAssumption DEF Init
<1>5. /\ pc \in [Terminals -> Places]
      /\ char \in [Terminals -> Terminals \cup {NEWLINE}]
    BY DEF Init, Places
<1>6. kb_irq \in BOOLEAN /\ wild \in BOOLEAN /\ stray \in BOOLEAN /\ under \in BOOLEAN
    BY DEF Init
<1> QED
    BY <1>3, <1>4, <1>5, <1>6 DEF TypeOK, Places

\* Cursors wrap around but stay unsigned, surfaces hold characters that somebody
\* printed, and lines fit, for any numbers of terminals, rows and columns.
THEOREM TypeCorrect == Spec => []TypeOK
BY TypeInit, TypeStep, PTL DEF Spec

-----------------------------------------------------------------------------
(* Showing another terminal *)

\* Only Alt-Fn shows another terminal.
LEMMA OnlySwitch ==
    ASSUME [Next]_vars, current_terminal' # current_terminal
    PROVE  \E t \in Terminals : terminal_switch(t)
BY DEF Next, terminal_write, PutcChooses, PutcDraws, PutcMoves, PutcScrolls, Program,
       keyboard_handler, EchoLetter, EchoTab, EchoEnter, delete, CtrlL, CtrlC, Tick, vars

\* The page of the terminal that was visible gets what video memory held.
LEMMA SwitchShows ==
    ASSUME TypeOK, NEW u \in Terminals, terminal_switch(u), NEW t \in Terminals
    PROVE  Shown(t)' = Shown(t)
<1>1. /\ vid_page' = [vid_page EXCEPT ![current_terminal] = video]
      /\ video' = vid_page'[u] /\ current_terminal' = u
    BY DEF terminal_switch, Saved
<1> QED
    BY <1>1 DEF Shown, TypeOK

\* Showing another terminal loses nothing of any terminal's text, in the middle
\* of a program's putc too.
THEOREM SwitchLosesNothing == Spec => SwitchKeepsText
<1>1. TypeOK /\ [Next]_vars =>
        [current_terminal' # current_terminal => \A t \in Terminals : Shown(t)' = Shown(t)]_vars
    BY OnlySwitch, SwitchShows
<1> QED
    BY <1>1, TypeCorrect, PTL DEF Spec, SwitchKeepsText

-----------------------------------------------------------------------------
(* Output stays on its terminal *)

\* A key that is no race finds every program outside putc.
LEMMA KeyAlone ==
    ASSUME TypeOK, NEW k, Struck(k), race' = 0
    PROVE  race = 0 /\ \A t \in Terminals : pc[t] = "user"
BY DEF Struck, InPutc, TypeOK

\* Every key is struck, and only Ctrl-C touches a program.
LEMMA Keys ==
    ASSUME keyboard_handler
    PROVE  /\ \E k : Struck(k)
           /\ \/ UNCHANGED <<pc, char>>
              \/ /\ pc' = [pc EXCEPT ![curr_scheduler] = "user"]
                 /\ char' = [char EXCEPT ![curr_scheduler] = NEWLINE]
BY DEF keyboard_handler, EchoLetter, EchoTab, EchoEnter, delete, CtrlL, CtrlC, terminal_switch

\* A program's step leaves the others where they are.
LEMMA ProgramAt ==
    ASSUME TypeOK, NEW from, NEW to, Program(from, to)
    PROVE  /\ curr_scheduler \in Terminals
           /\ pc[curr_scheduler] = from /\ pc'[curr_scheduler] = to
           /\ \A t \in Terminals \ {curr_scheduler} : pc'[t] = pc[t]
           /\ UNCHANGED <<current_terminal, curr_scheduler, race, stray, under>>
BY DEF Program, TypeOK, schedVars, ghostVars

\* putc chooses the surface of its terminal, and only Alt-Fn could change whose
\* it is.
LEMMA HomeStep == TypeOK /\ AtHome /\ [Next]_vars => AtHome'
<1> SUFFICES ASSUME TypeOK, AtHome, [Next]_vars PROVE AtHome'
    OBVIOUS
<1> USE DEF AtHome, OnVideo, OnPage
<1>1. CASE PutcChooses
    <2>1. Program("user", IF Foreground THEN "draw_video" ELSE "draw_page")
        BY <1>1 DEF PutcChooses
    <2>2. \A t \in Terminals : char'[t] \in {t, NEWLINE}
        BY <1>1 DEF PutcChooses, TypeOK
    <2> QED
        BY <2>1, <2>2, ProgramAt DEF Foreground
<1>2. ASSUME NEW from \in OnVideo, NEW to \in OnVideo \cup {"user"}, Program(from, to),
             UNCHANGED char \/ char' = [char EXCEPT ![curr_scheduler] = NEWLINE]
      PROVE  AtHome'
    <2>1. \A t \in Terminals : char'[t] \in {t, NEWLINE}
        BY <1>2 DEF TypeOK
    <2> QED
        BY <1>2, <2>1, ProgramAt
<1>3. ASSUME NEW from \in OnPage, NEW to \in OnPage \cup {"user"}, Program(from, to),
             UNCHANGED char \/ char' = [char EXCEPT ![curr_scheduler] = NEWLINE]
      PROVE  AtHome'
    <2>1. \A t \in Terminals : char'[t] \in {t, NEWLINE}
        BY <1>3 DEF TypeOK
    <2> QED
        BY <1>3, <2>1, ProgramAt
<1>4. CASE keyboard_handler
    <2>1. \A t \in Terminals : char'[t] \in {t, NEWLINE}
        BY <1>4, Keys DEF TypeOK
    <2>2. ASSUME race' = 0 PROVE \A t \in Terminals : pc'[t] = "user"
        BY <1>4, <2>2, Keys, KeyAlone DEF TypeOK
    <2> QED
        BY <2>1, <2>2
<1>5. CASE UNCHANGED <<pc, char, current_terminal, race>>
    BY <1>5
<1> QED
    BY <1>1, <1>2, <1>3, <1>4, <1>5
    DEF Next, terminal_write, PutcDraws, PutcMoves, PutcScrolls, Tick, vars, ghostVars

\* Every terminal shows its own characters.
Home == \A t \in Terminals : Shown(t) \in [Cells -> Own(t)]

\* Home is what OutputStaysHome says.
LEMMA HomeMeans ==
    ASSUME TypeOK
    PROVE  Home <=> \A t \in Terminals, k \in Cells : Shown(t)[k] \in {t, Echo(t), ASCII_SPACE}
<1>1. \A t \in Terminals : Shown(t) \in [Cells -> Drawn]
    BY DEF Shown, TypeOK
<1> QED
    BY <1>1 DEF Home, Own

\* putc's choice is right if only a terminal that is not shown uses its page.
Right(foreground) == foreground \/ curr_scheduler # current_terminal

\* The surface that putc writes to is what its terminal shows ...
LEMMA SurfaceShown ==
    ASSUME TypeOK, NEW foreground \in BOOLEAN, Right(foreground)
    PROVE  Surface(foreground) = Shown(Target(foreground)) /\ Target(foreground) \in Terminals
BY DEF Right, Surface, Shown, Target, TypeOK

\* ... and setting it changes what no other terminal shows.
LEMMA SetHome ==
    ASSUME TypeOK, Home, NEW foreground \in BOOLEAN, Right(foreground),
           NEW cells \in [Cells -> Own(Target(foreground))],
           SetSurface(foreground, cells), UNCHANGED current_terminal
    PROVE  Home'
<1> SUFFICES ASSUME NEW t \in Terminals PROVE Shown(t)' \in [Cells -> Own(t)]
    BY DEF Home, Own, Echo
<1>1. CASE t = Target(foreground)
    BY <1>1 DEF Right, SetSurface, Shown, Target, TypeOK
<1>2. CASE t # Target(foreground)
    <2>1. Shown(t)' = Shown(t)
        BY <1>2 DEF Right, SetSurface, Shown, Target, TypeOK
    <2> QED
        BY <2>1 DEF Home
<1> QED
    BY <1>1, <1>2

\* A program in putc is on the surface of its terminal, with its character.
LEMMA ProgramHome ==
    ASSUME TypeOK, AtHome, race = 0, NEW foreground \in BOOLEAN,
           pc[curr_scheduler] \in (IF foreground THEN OnVideo ELSE OnPage)
    PROVE  /\ Right(foreground) /\ Target(foreground) = curr_scheduler
           /\ c0 # NEWLINE => c0 \in Own(Target(foreground))
           /\ ASCII_SPACE \in Own(Target(foreground))
<1>1. curr_scheduler \in Terminals
    BY DEF TypeOK
<1> QED
    BY <1>1 DEF AtHome, Right, Target, c0, Own

\* The handler's putc, of a character of its target.
LEMMA PutcHome ==
    ASSUME TypeOK, Home, NEW c \in Own(Target(Foreground)) \cup {NEWLINE}, NEW n \in Nat,
           putc(c, n), UNCHANGED current_terminal
    PROVE  Home'
<1> DEFINE A == Own(Target(Foreground))
<1>1. Foreground \in BOOLEAN /\ Right(Foreground)
    BY DEF Foreground, Right
<1>2. Surface(Foreground) \in [Cells -> A]
    BY <1>1, SurfaceShown DEF Home
<1>3. Found \in Surfaces(A)
    BY <1>1, <1>2, TargetType DEF Found, Surfaces, TypeOK
<1>4. \A r \in Surfaces(A) : Put(r, c) \in Surfaces(A)
    <2>1. ASCII_SPACE \in A
        BY DEF Own
    <2> HIDE DEF A
    <2> QED
        BY <2>1, PutType DEF A
<1>5. PICK s \in Surfaces(A) : SetSurface(Foreground, s.cells)
    BY <1>3, <1>4, PutcKeeps
<1>6. s.cells \in [Cells -> A]
    BY DEF Surfaces
<1> QED
    BY <1>1, <1>5, <1>6, SetHome

\* A program's putc keeps every terminal's text its own.
LEMMA WriteHome ==
    ASSUME TypeOK, AtHome, Home, race = 0, terminal_write
    PROVE  Home'
<1>1. CASE UNCHANGED <<video, vid_page, current_terminal>>
    BY <1>1 DEF Home, Shown, Own, Echo
<1>2. ASSUME NEW from, NEW to, NEW foreground \in BOOLEAN,
             from \in (IF foreground THEN OnVideo ELSE OnPage), PutcDraws(from, to, foreground),
             c0 # NEWLINE
      PROVE  Home'
    <2> DEFINE t == Target(foreground)
               cells == Draw(Surface(foreground), x[t], y[t], c0)
    <2>0. Program(from, to) /\ SetSurface(foreground, cells)
        BY <1>2 DEF PutcDraws
    <2>1. /\ pc[curr_scheduler] \in (IF foreground THEN OnVideo ELSE OnPage)
          /\ UNCHANGED current_terminal
        BY <1>2, <2>0, ProgramAt
    <2>2. Right(foreground) /\ c0 \in Own(t) /\ ASCII_SPACE \in Own(t)
        BY <1>2, <2>1, ProgramHome
    <2>3. cells \in [Cells -> Own(t)]
        BY <2>2, SurfaceShown, DrawType DEF Home
    <2> HIDE DEF cells
    <2> QED
        BY <2>0, <2>1, <2>2, <2>3, SetHome
<1>3. ASSUME NEW from, NEW to, NEW foreground \in BOOLEAN,
             from \in (IF foreground THEN OnVideo ELSE OnPage), PutcScrolls(from, to, foreground),
             ~UNCHANGED <<video, vid_page>>
      PROVE  Home'
    <2> DEFINE t == Target(foreground)
               cells == ScrollUp(Surface(foreground))
    <2>0. Program(from, to) /\ SetSurface(foreground, cells)
        BY <1>3 DEF PutcScrolls
    <2>1. /\ pc[curr_scheduler] \in (IF foreground THEN OnVideo ELSE OnPage)
          /\ UNCHANGED current_terminal
        BY <1>3, <2>0, ProgramAt
    <2>2. Right(foreground) /\ ASCII_SPACE \in Own(t)
        BY <2>1, ProgramHome
    <2>3. cells \in [Cells -> Own(t)]
        BY <2>2, SurfaceShown, DrawType DEF Home
    <2> HIDE DEF cells
    <2> QED
        BY <2>0, <2>1, <2>2, <2>3, SetHome
<1>4. CASE PutcChooses
    BY <1>1, <1>4 DEF PutcChooses, Program, surfaceVars
<1>5. ASSUME NEW from, NEW to, NEW foreground \in BOOLEAN,
             from \in (IF foreground THEN OnVideo ELSE OnPage),
             \/ PutcDraws(from, to, foreground)
             \/ PutcMoves(from, to, foreground)
             \/ PutcScrolls(from, to, foreground)
      PROVE  Home'
    BY <1>1, <1>2, <1>3, <1>5 DEF PutcDraws, PutcMoves, PutcScrolls, Program
<1> QED
    BY <1>4, <1>5 DEF terminal_write, OnVideo, OnPage

\* So does the keyboard handler, unless it echoes a letter before the tick.
LEMMA KeyHome ==
    ASSUME TypeOK, Home, keyboard_handler, ~stray'
    PROVE  Home'
<1>1. CASE EchoLetter
    <2>1. Foreground
        BY <1>1 DEF EchoLetter, Struck
    <2>2. Echo(current_terminal) \in Own(Target(Foreground))
        BY <2>1 DEF Own, Target
    <2> QED
        BY <1>1, <2>2, PutcHome DEF EchoLetter
<1>2. CASE EchoTab
    <2>1. Room(TAB_LENGTH) \in Nat
        BY LineAssumption DEF Room, TypeOK, count
    <2>2. ASCII_SPACE \in Own(Target(Foreground))
        BY DEF Own
    <2> QED
        BY <1>2, <2>1, <2>2, PutcHome DEF EchoTab
<1>3. CASE EchoEnter \/ CtrlC
    BY <1>3, PutcHome DEF EchoEnter, CtrlC
<1>4. CASE delete \/ CtrlL
    <2>1. current_terminal \in Terminals /\ video = Shown(current_terminal)
        BY DEF TypeOK, Shown
    <2>2. video \in [Cells -> Own(current_terminal)] /\ ASCII_SPACE \in Own(current_terminal)
        BY <2>1 DEF Home, Own
    <2>3. /\ Blank \in [Cells -> Own(current_terminal)]
          /\ \A cx, cy : Draw(video, cx, cy, ASCII_SPACE) \in [Cells -> Own(current_terminal)]
        BY <2>2, DrawType DEF Blank
    <2>4. /\ video' \in [Cells -> Own(current_terminal)]
          /\ UNCHANGED <<vid_page, current_terminal>>
        BY <1>4, <2>3 DEF delete, CtrlL
    <2> QED
        BY <2>4 DEF Home, Shown, Own, Echo
<1>5. CASE \E u \in Terminals : terminal_switch(u)
    BY <1>5, SwitchShows DEF Home, Own, Echo
<1> QED
    BY <1>1, <1>2, <1>3, <1>4, <1>5 DEF keyboard_handler

\* Every step without a race and without an early echo keeps it so.
LEMMA OutputStep == TypeOK /\ AtHome /\ OutputStaysHome /\ [Next]_vars => OutputStaysHome'
<1> SUFFICES ASSUME TypeOK, AtHome, OutputStaysHome, [Next]_vars, race' = 0, ~stray'
             PROVE  Home'
    BY DEF OutputStaysHome, Home, Own
<1>1. race = 0 /\ ~stray
    <2>1. CASE keyboard_handler
        <3>1. PICK k : Struck(k)
            BY <2>1, Keys
        <3> QED
            BY <3>1, KeyAlone DEF Struck
    <2>2. CASE UNCHANGED <<race, stray>>
        BY <2>2
    <2> QED
        BY <2>1, <2>2 DEF Next, terminal_write, PutcChooses, PutcDraws, PutcMoves, PutcScrolls,
           Program, Tick, vars, ghostVars
<1>2. Home
    BY <1>1, HomeMeans DEF OutputStaysHome
<1>3. CASE terminal_write
    BY <1>1, <1>2, <1>3, WriteHome
<1>4. CASE keyboard_handler
    BY <1>2, <1>4, KeyHome
<1>5. CASE UNCHANGED <<video, vid_page, current_terminal>>
    BY <1>2, <1>5 DEF Home, Shown, Own, Echo
<1> QED
    BY <1>3, <1>4, <1>5 DEF Next, Tick, vars, surfaceVars

\* Nobody is in putc at first.
LEMMA HomeInit == Init => AtHome
BY DEF Init, AtHome, OnVideo, OnPage

\* What a program prints and the echo of what is typed appear on their own
\* terminal only, for any number of terminals and any interleaving of putc,
\* ticks and keys, as long as no key is handled inside putc and none is echoed
\* between Alt-Fn and the tick that masks the keyboard.
THEOREM OutputHome == Spec => []OutputStaysHome
<1>1. Init => OutputStaysHome
    BY DEF Init, OutputStaysHome, Shown, Blank
<1> QED
    BY <1>1, TypeInit, TypeStep, HomeInit, HomeStep, OutputStep, PTL DEF Spec

-----------------------------------------------------------------------------
(* The cursor stays on the screen *)

Place(cx, cy) == cy * NUM_COLS + cx

\* A place on the screen is a cell, and a place within a row of it is not
\* changed by the wrapping of unsigned numbers.
LEMMA PlaceCell ==
    ASSUME NEW cx \in Uint, NEW cy \in Uint
    PROVE  /\ Place(cx, cy) \in Nat
           /\ Place(cx, cy) < Size + NUM_COLS => Cell(cx, cy) = Place(cx, cy)
           /\ Place(cx, cy) < Size => ~Outside(cx, cy)
<1>1. /\ Place(cx, cy) \in Nat
      /\ Place(cx, cy) < UINT => Cell(cx, cy) = Place(cx, cy)
    BY CellType DEF Place
<1>2. \A n \in Nat : n < Size => n < Size + NUM_COLS /\ n < UINT /\ n \in Cells
    BY Sizes DEF Cells, Size
<1>3. \A n \in Nat : n < Size + NUM_COLS => n < UINT
    BY Sizes
<1> QED
    BY <1>1, <1>2, <1>3 DEF Outside

\* A character or a newline, with the rows that it skips, moves the cursor at
\* most into the row below the screen.
LEMMA MovedNear ==
    ASSUME NEW c, NEW cx \in Uint, NEW cy \in Uint, Place(cx, cy) < Size
    PROVE  Place(Moved(c, cx, cy).x, Moved(c, cx, cy).y) < Size + NUM_COLS
<1>0. /\ cx \in Nat /\ cy \in Nat /\ cy * NUM_COLS \in Nat
      /\ cy * NUM_COLS + cx < Size
      /\ NUM_COLS \in Nat /\ NUM_COLS > 0 /\ Size \in Nat /\ UINT \in Nat
      /\ UINT > Size + NUM_COLS
    BY Products, Sizes DEF Uint, Place
<1>1. CASE c = NEWLINE
    <2> DEFINE q == RowsOver(cx)
               row == cy + q + 1
    <2>1. q \in Nat /\ q * NUM_COLS <= cx
        BY <1>0, RowsOverType
    <2>2. row * NUM_COLS = cy * NUM_COLS + q * NUM_COLS + NUM_COLS
        BY <1>0, <2>1
    <2>3. q * NUM_COLS \in Nat
        BY <2>1, Products
    <2>4. row * NUM_COLS < Size + NUM_COLS
        BY <1>0, <2>1, <2>2, <2>3
    <2>5. row \in Nat /\ row <= row * NUM_COLS
        <3>1. row \in Nat
            BY <1>0, <2>1
        <3> HIDE DEF row
        <3> QED
            BY <3>1, Products
    <2>6. row * NUM_COLS \in Nat
        BY <2>5, Products
    <2>7. NewRow(cx, cy) = row
        <3>1. row < UINT
            BY <1>0, <2>4, <2>5, <2>6
        <3>2. row % UINT = row
            BY <2>5, <3>1, Remainder
        <3> QED
            BY <3>2 DEF NewRow
    <2>8. Moved(c, cx, cy).x = 0 /\ Moved(c, cx, cy).y = row
        BY <1>1, <2>7 DEF Moved
    <2> HIDE DEF row
    <2> QED
        BY <2>4, <2>6, <2>8 DEF Place
<1>2. CASE c # NEWLINE
    <2>1. (cx + 1) % UINT = cx + 1
        <3>1. cx + 1 \in Nat /\ cx + 1 < UINT
            BY <1>0
        <3> QED
            BY <3>1, Remainder
    <2>2. Moved(c, cx, cy).x = cx + 1 /\ Moved(c, cx, cy).y = cy
        BY <1>2, <2>1 DEF Moved
    <2> QED
        BY <1>0, <2>2 DEF Place
<1> QED
    BY <1>1, <1>2

\* One scroll brings it back.
LEMMA UpNear ==
    ASSUME NEW cx \in Uint, NEW cy \in Uint, Place(cx, cy) < Size + NUM_COLS
    PROVE  /\ MustScroll(cx, cy) => Place(CursorUp(cx, cy).x, CursorUp(cx, cy).y) < Size
           /\ ~MustScroll(cx, cy) => Place(cx, cy) < Size
<1>0. /\ cx \in Nat /\ cy \in Nat /\ Place(cx, cy) \in Nat
      /\ cy * NUM_COLS \in Nat /\ (cy - 1) * NUM_COLS = cy * NUM_COLS - NUM_COLS
      /\ NUM_COLS \in Nat /\ Size \in Nat
    BY Products, Sizes, PlaceCell DEF Uint
<1>1. MustScroll(cx, cy) <=> Place(cx, cy) >= Size
    BY PlaceCell DEF MustScroll, Size
<1>2. CASE MustScroll(cx, cy) /\ cy > 0
    <2>1. CursorUp(cx, cy).x = cx /\ CursorUp(cx, cy).y = cy - 1
        BY <1>2 DEF CursorUp
    <2> QED
        BY <1>0, <1>2, <2>1 DEF Place
<1>3. CASE MustScroll(cx, cy) /\ ~(cy > 0)
    <2>1. CursorUp(cx, cy).x = cx - NUM_COLS /\ CursorUp(cx, cy).y = cy
        BY <1>3 DEF CursorUp
    <2> QED
        BY <1>0, <1>3, <2>1 DEF Place
<1> QED
    BY <1>0, <1>1, <1>2, <1>3

\* Surfaces with the cursor on them.
OnScreen == {s \in Surfaces(Drawn) : ~s.wild /\ Place(s.x, s.y) < Size}

\* All of putc keeps the cursor on the surface and draws nothing elsewhere.
LEMMA PutNear ==
    ASSUME NEW c \in Drawn \cup {NEWLINE}, NEW s \in OnScreen
    PROVE  Put(s, c) \in OnScreen
<1> DEFINE moved == Moved(c, s.x, s.y)
           scrolls == MustScroll(moved.x, moved.y)
           cursor == IF scrolls THEN CursorUp(moved.x, moved.y) ELSE moved
<1>0. s \in Surfaces(Drawn) /\ ~s.wild /\ Place(s.x, s.y) < Size /\ ASCII_SPACE \in Drawn
    BY DEF OnScreen, Drawn
<1>1. s.x \in Uint /\ s.y \in Uint
    BY <1>0 DEF Surfaces
<1>2. Put(s, c).x = cursor.x /\ Put(s, c).y = cursor.y
    BY DEF Put
<1>3. Put(s, c).wild = (s.wild \/ (c # NEWLINE /\ Outside(s.x, s.y)))
    BY DEF Put
<1>4. ~Put(s, c).wild
    BY <1>0, <1>1, <1>3, PlaceCell
<1>5. moved.x \in Uint /\ moved.y \in Uint /\ Place(moved.x, moved.y) < Size + NUM_COLS
    BY <1>0, <1>1, MovedType, MovedNear
<1> HIDE DEF moved
<1>6. Place(cursor.x, cursor.y) < Size
    BY <1>5, UpNear
<1>7. Put(s, c) \in Surfaces(Drawn)
    BY <1>0, PutType
<1> QED
    BY <1>2, <1>4, <1>6, <1>7 DEF OnScreen

\* CursorNear in terms of places, and for the terminals one by one.
Near(t) == Place(x[t], y[t]) < Size + Below(t)
\* CursorNear, read terminal by terminal.
LEMMA NearMeans == CursorNear <=> (race = 0 /\ ~under => ~wild /\ \A t \in Terminals : Near(t))
BY DEF CursorNear, Near, Place, Size

\* A program moves its own cursor only.
LEMMA WriteNear ==
    ASSUME TypeOK, AtHome, race = 0, ~wild, \A t \in Terminals : Near(t), terminal_write
    PROVE  ~wild' /\ \A t \in Terminals : Near(t)'
<1> DEFINE me == curr_scheduler
<1> USE DEF Near, Below, Scrolling
<1>0. /\ me \in Terminals /\ x[me] \in Uint /\ y[me] \in Uint
      /\ NUM_COLS \in Nat /\ Size \in Nat
    BY Sizes DEF TypeOK, Uint
<1>1. CASE PutcChooses
    <2>1. /\ Program("user", IF Foreground THEN "draw_video" ELSE "draw_page")
          /\ UNCHANGED <<x, y, wild>>
        BY <1>1 DEF PutcChooses, surfaceVars
    <2>2. /\ pc[me] = "user" /\ pc'[me] \in {"draw_video", "draw_page"}
          /\ \A t \in Terminals \ {me} : pc'[t] = pc[t]
        BY <2>1, ProgramAt
    <2> QED
        BY <2>1, <2>2
<1>2. ASSUME NEW from \in {"draw_video", "draw_page"}, NEW to \in {"move_video", "move_page"},
             NEW foreground \in BOOLEAN, from \in (IF foreground THEN OnVideo ELSE OnPage),
             PutcDraws(from, to, foreground)
      PROVE  ~wild' /\ \A t \in Terminals : Near(t)'
    <2>1. Program(from, to) /\ UNCHANGED <<x, y>>
        BY <1>2 DEF PutcDraws
    <2>2. pc[me] = from /\ pc'[me] = to /\ \A t \in Terminals \ {me} : pc'[t] = pc[t]
        BY <2>1, ProgramAt
    <2>3. Target(foreground) = me
        BY <1>2, <2>2, ProgramHome
    <2>4. Place(x[me], y[me]) < Size
        BY <1>0, <1>2, <2>2, PlaceCell
    <2>5. ~wild'
        BY <1>0, <1>2, <2>3, <2>4, PlaceCell DEF PutcDraws
    <2> QED
        BY <1>2, <2>1, <2>2, <2>5
<1>3. ASSUME NEW from \in {"move_video", "move_page"}, NEW to \in {"scroll_video", "scroll_page"},
             NEW foreground \in BOOLEAN, from \in (IF foreground THEN OnVideo ELSE OnPage),
             PutcMoves(from, to, foreground)
      PROVE  ~wild' /\ \A t \in Terminals : Near(t)'
    <2>1. Program(from, to) /\ UNCHANGED wild
        BY <1>3 DEF PutcMoves
    <2>2. pc[me] = from /\ pc'[me] = to /\ \A t \in Terminals \ {me} : pc'[t] = pc[t]
        BY <2>1, ProgramAt
    <2>3. Target(foreground) = me
        BY <1>3, <2>2, ProgramHome
    <2>4. Place(x[me], y[me]) < Size
        BY <1>0, <1>3, <2>2, PlaceCell
    <2> DEFINE moved == Moved(c0, x[me], y[me])
    <2>5. Place(moved.x, moved.y) < Size + NUM_COLS
        BY <1>0, <2>4, MovedNear
    <2>6. SetCursor(me, moved)
        BY <1>3, <2>3 DEF PutcMoves
    <2> HIDE DEF moved
    <2>7. /\ x'[me] = moved.x /\ y'[me] = moved.y
          /\ \A t \in Terminals \ {me} : x'[t] = x[t] /\ y'[t] = y[t]
        BY <1>0, <2>6 DEF SetCursor, TypeOK
    <2> QED
        BY <1>3, <2>1, <2>2, <2>5, <2>7
<1>4. ASSUME NEW from \in {"scroll_video", "scroll_page"}, NEW foreground \in BOOLEAN,
             from \in (IF foreground THEN OnVideo ELSE OnPage),
             PutcScrolls(from, "user", foreground)
      PROVE  ~wild' /\ \A t \in Terminals : Near(t)'
    <2>1. Program(from, "user") /\ UNCHANGED wild
        BY <1>4 DEF PutcScrolls
    <2>2. pc[me] = from /\ pc'[me] = "user" /\ \A t \in Terminals \ {me} : pc'[t] = pc[t]
        BY <2>1, ProgramAt
    <2>3. Target(foreground) = me
        BY <1>4, <2>2, ProgramHome
    <2>4. Place(x[me], y[me]) < Size + NUM_COLS
        BY <1>0, <1>4, <2>2, PlaceCell
    <2> DEFINE up == CursorUp(x[me], y[me])
    <2>5. /\ MustScroll(x[me], y[me]) => Place(up.x, up.y) < Size
          /\ ~MustScroll(x[me], y[me]) => Place(x[me], y[me]) < Size
        BY <1>0, <2>4, UpNear
    <2>6. IF MustScroll(x[me], y[me]) THEN SetCursor(me, up) ELSE UNCHANGED <<x, y>>
        BY <1>4, <2>3 DEF PutcScrolls
    <2> HIDE DEF up
    <2>7. /\ Place(x'[me], y'[me]) < Size
          /\ \A t \in Terminals \ {me} : x'[t] = x[t] /\ y'[t] = y[t]
        BY <1>0, <2>5, <2>6 DEF SetCursor, TypeOK
    <2>8. ASSUME NEW t \in Terminals, t = me
          PROVE  Near(t)'
        <3>1. ~Scrolling(t)'
            BY <2>2, <2>8
        <3>2. Place(x'[t], y'[t]) < Size + 0
            BY <1>0, <2>7, <2>8
        <3> QED
            BY <3>1, <3>2
    <2>9. ASSUME NEW t \in Terminals, t # me
          PROVE  Near(t)'
        BY <2>2, <2>7, <2>9
    <2> QED
        BY <2>1, <2>8, <2>9
<1> QED
    BY <1>1, <1>2, <1>3, <1>4 DEF terminal_write, OnVideo, OnPage

\* A key that finds every program outside putc leaves the cursors on the screen.
LEMMA KeyNear ==
    ASSUME TypeOK, race' = 0, ~under', ~wild, \A t \in Terminals : Near(t), keyboard_handler
    PROVE  ~wild' /\ \A t \in Terminals : Near(t)'
<1>0. \A t \in Terminals : pc[t] = "user" /\ pc'[t] = "user"
    <2>1. PICK k : Struck(k)
        BY Keys
    <2> QED
        BY <2>1, Keys, KeyAlone DEF TypeOK
<1>1. \A t \in Terminals : /\ x[t] \in Uint /\ y[t] \in Uint
                           /\ Place(x[t], y[t]) < Size
                           /\ Near(t)' <=> Place(x'[t], y'[t]) < Size
    <2>1. Size + 0 = Size
        BY Sizes
    <2> QED
        BY <1>0, <2>1 DEF TypeOK, Uint, Near, Below, Scrolling
<1>2. ASSUME NEW c \in Drawn \cup {NEWLINE}, NEW n \in Nat, putc(c, n)
      PROVE  ~wild' /\ \A t \in Terminals : Near(t)'
    <2> DEFINE u == Target(Foreground)
    <2>1. Foreground \in BOOLEAN
        BY DEF Foreground
    <2>2. u \in Terminals
        BY <2>1, TargetType
    <2>3. Found \in OnScreen
        BY <1>1, <2>1, <2>2, TargetType DEF Found, OnScreen, Surfaces, TypeOK
    <2>4. PICK s \in OnScreen : SetCursor(u, s) /\ wild' = s.wild
        BY <1>2, <2>3, PutNear, PutcKeeps
    <2>5. ~s.wild /\ Place(s.x, s.y) < Size
        BY DEF OnScreen
    <2> HIDE DEF u
    <2>6. \A t \in Terminals : Place(x'[t], y'[t]) < Size
        BY <1>1, <2>2, <2>4, <2>5 DEF SetCursor, TypeOK
    <2> QED
        BY <1>1, <2>4, <2>5, <2>6
<1>3. CASE EchoLetter \/ EchoTab \/ EchoEnter \/ CtrlC
    <2>1. Echo(current_terminal) \in Drawn /\ ASCII_SPACE \in Drawn
        BY DEF TypeOK, Drawn
    <2>2. Room(TAB_LENGTH) \in Nat
        BY LineAssumption DEF Room, TypeOK, count
    <2> QED
        BY <1>2, <1>3, <2>1, <2>2 DEF EchoLetter, EchoTab, EchoEnter, CtrlC
<1>4. CASE delete
    <2> DEFINE u == current_terminal
    <2>1. u \in Terminals /\ x[u] \in Nat /\ y[u] \in Nat /\ x[u] # 0 /\ x[u] < UINT
        <3>1. u \in Terminals /\ x[u] \in 0 .. UINT - 1 /\ y[u] \in 0 .. UINT - 1
            BY DEF TypeOK
        <3>2. under' = (under \/ ("backspace" = "backspace" /\ x[u] = 0))
            BY <1>4 DEF delete, Struck
        <3>3. x[u] # 0
            BY <3>2
        <3> QED
            BY <3>1, <3>3, Sizes
    <2>2. (x[u] - 1) % UINT = x[u] - 1 /\ x[u] - 1 \in Uint
        <3>1. x[u] - 1 \in Nat /\ x[u] - 1 < UINT
            BY <2>1, Sizes
        <3> QED
            BY <3>1, Remainder
    <2>3. /\ x' = [x EXCEPT ![u] = x[u] - 1] /\ UNCHANGED y
          /\ wild' = (wild \/ Outside(x[u] - 1, y[u]))
        BY <1>4, <2>2 DEF delete
    <2>4. Place(x[u] - 1, y[u]) < Size
        <3>1. Place(x[u], y[u]) < Size /\ y[u] * NUM_COLS \in Nat /\ Size \in Nat
            BY <1>1, <2>1, Products, Sizes
        <3> QED
            BY <2>1, <3>1 DEF Place
    <2>5. ~wild'
        BY <1>1, <2>1, <2>2, <2>3, <2>4, PlaceCell
    <2>6. \A t \in Terminals : Place(x'[t], y'[t]) < Size
        BY <1>1, <2>1, <2>3, <2>4 DEF TypeOK
    <2> QED
        BY <1>1, <2>5, <2>6
<1>5. CASE CtrlL
    <2>1. Place(0, 0) < Size
        BY Sizes, Products DEF Place
    <2>2. SetCursor(current_terminal, [x |-> 0, y |-> 0]) /\ UNCHANGED wild
        BY <1>5 DEF CtrlL
    <2>3. \A t \in Terminals : Place(x'[t], y'[t]) < Size
        BY <1>1, <2>1, <2>2 DEF SetCursor, TypeOK
    <2> QED
        BY <1>1, <2>2, <2>3
<1>6. CASE \E t \in Terminals : terminal_switch(t)
    BY <1>1, <1>6 DEF terminal_switch
<1> QED
    BY <1>3, <1>4, <1>5, <1>6 DEF keyboard_handler

\* Every step keeps the cursors near.
LEMMA NearStep == TypeOK /\ AtHome /\ CursorNear /\ [Next]_vars => CursorNear'
<1> SUFFICES ASSUME TypeOK, AtHome, CursorNear, [Next]_vars, race' = 0, ~under'
             PROVE  ~wild' /\ \A t \in Terminals : Near(t)'
    BY DEF CursorNear, Near, Place, Size
<1>1. race = 0 /\ ~under
    <2>1. CASE keyboard_handler
        <3>1. PICK k : Struck(k)
            BY <2>1, Keys
        <3> QED
            BY <3>1, KeyAlone DEF Struck
    <2>2. CASE UNCHANGED <<race, under>>
        BY <2>2
    <2> QED
        BY <2>1, <2>2 DEF Next, terminal_write, PutcChooses, PutcDraws, PutcMoves, PutcScrolls,
           Program, Tick, vars, ghostVars
<1>2. ~wild /\ \A t \in Terminals : Near(t)
    BY <1>1, NearMeans
<1>3. CASE terminal_write
    BY <1>1, <1>2, <1>3, WriteNear
<1>4. CASE keyboard_handler
    BY <1>2, <1>4, KeyNear
<1>5. CASE UNCHANGED <<x, y, pc, wild>>
    BY <1>2, <1>5 DEF Near, Below, Scrolling
<1> QED
    BY <1>3, <1>4, <1>5 DEF Next, Tick, vars, surfaceVars

\* Between two calls of putc the cursor is on a cell of the screen, and nothing
\* is drawn elsewhere, for every size of the screen and however far screen_x ran
\* over the right edge; backspace in column 0 and keys inside putc excepted.
THEOREM CursorStays == Spec => []CursorOnScreen
<1>1. Init => CursorNear
    <2> SUFFICES ASSUME Init PROVE ~wild /\ \A t \in Terminals : Near(t)
        BY NearMeans
    <2>1. Place(0, 0) < Size /\ Size + 0 = Size
        BY Sizes, Products DEF Place
    <2> QED
        BY <2>1 DEF Init, Near, Below, Scrolling
<1>2. TypeOK /\ CursorNear => CursorOnScreen
    <2> SUFFICES ASSUME TypeOK, CursorNear, race = 0, ~under
                 PROVE  ~wild /\ \A t \in Terminals : ~Scrolling(t) => ~Outside(x[t], y[t])
        BY DEF CursorOnScreen
    <2>1. ~wild /\ \A t \in Terminals : Near(t)
        BY NearMeans
    <2>2. \A t \in Terminals : x[t] \in Uint /\ y[t] \in Uint
        BY DEF TypeOK, Uint
    <2>3. Size + 0 = Size
        BY Sizes
    <2> QED
        BY <2>1, <2>2, <2>3, PlaceCell DEF Near, Below
<1> QED
    BY <1>1, <1>2, TypeInit, TypeStep, HomeInit, HomeStep, NearStep, PTL DEF Spec
=============================================================================
