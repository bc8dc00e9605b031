------------------------------- MODULE Screen -------------------------------
(***************************************************************************)
(* Text output (lib.c) and the swapping of video memory when another       *)
(* terminal is shown (keyboard.c).  The visible terminal is drawn in video *)
(* memory, the others in a page of their own.                              *)
(*                                                                         *)
(* A program's putc runs with interrupts enabled: choosing the surface,    *)
(* drawing, moving the cursor and scrolling are separate actions.  The     *)
(* keyboard handler's putc, delete, clear and terminal_switch run inside   *)
(* an interrupt gate and are whole.                                        *)
(*                                                                         *)
(* A character is represented by who printed it: a program of terminal t   *)
(* as t, the echo of a key struck on terminal t as MAX_TERMINAL + t.       *)
(***************************************************************************)
EXTENDS Integers

CONSTANTS
    MAX_TERMINAL,
    NUM_ROWS, NUM_COLS,    \* 25 and 80
    UINT,                  \* 2^32: one more than the largest screen_x
    KEYBOARD_BUFFER_SIZE,  \* 127
    TAB_LENGTH,            \* 4
    Key,                   \* the keys that are struck
    MAX_RACE               \* bound: keys handled while a program is in putc

ASSUME TerminalAssumption == MAX_TERMINAL \in Nat \ {0}
ASSUME SizeAssumption == NUM_ROWS \in Nat \ {0} /\ NUM_COLS \in Nat \ {0}
ASSUME UintAssumption == UINT \in Nat /\ UINT > NUM_ROWS * NUM_COLS + NUM_COLS
ASSUME LineAssumption == KEYBOARD_BUFFER_SIZE \in Nat /\ TAB_LENGTH \in Nat
ASSUME RaceAssumption == MAX_RACE \in Nat

VARIABLES
    video,           \* video memory, cell by cell
    vid_page,        \* vid_page[t]: the page of terminal t
    x, y,            \* screen_x and screen_y of each terminal
    keybufferCount,  \* of each terminal
    current_terminal, curr_scheduler, kb_irq,
    pc, char,        \* of each terminal's program: its place in putc, and what it prints
    wild,            \* something was drawn outside the screen
    race,            \* how many keys were handled while a program was in putc
    stray,           \* a key was echoed between Alt-Fn and the next tick
    under            \* backspace was struck with the cursor in column 0

surfaceVars == <<video, vid_page, x, y, wild>>
schedVars == <<curr_scheduler, kb_irq>>
ghostVars == <<race, stray, under>>
vars == <<surfaceVars, keybufferCount, current_terminal, schedVars, pc, char, ghostVars>>

Terminals == 0 .. MAX_TERMINAL - 1
Cells == 0 .. NUM_ROWS * NUM_COLS - 1
ASCII_SPACE == -1
NEWLINE == -2
Echo(t) == MAX_TERMINAL + t
Drawn == Terminals \cup {Echo(t) : t \in Terminals} \cup {ASCII_SPACE}
Blank == [c \in Cells |-> ASCII_SPACE]

Init ==
    /\ video = Blank
    /\ vid_page = [t \in Terminals |-> Blank]
    /\ x = [t \in Terminals |-> 0]
    /\ y = [t \in Terminals |-> 0]
    /\ keybufferCount = [t \in Terminals |-> 0]
    /\ current_terminal = 0 /\ curr_scheduler = 0 /\ kb_irq = TRUE
    /\ pc = [t \in Terminals |-> "user"]
    /\ char = [t \in Terminals |-> NEWLINE]
    /\ wild = FALSE
    /\ race = 0 /\ stray = FALSE /\ under = FALSE

-----------------------------------------------------------------------------
(* putc, on a surface: cells and a cursor. *)

\* The cell of a cursor; both coordinates are unsigned.
Cell(cx, cy) == (cy * NUM_COLS + cx) % UINT

Draw(cells, cx, cy, c) ==
    [k \in Cells |-> IF k = Cell(cx, cy) THEN c ELSE cells[k]]
Outside(cx, cy) == Cell(cx, cy) \notin Cells

\* A newline first brings an x that ran over the right edge back into its
\* row, a row at a time.
RowsOver(cx) == IF cx > NUM_COLS THEN (cx - 1) \div NUM_COLS ELSE 0
NewRow(cx, cy) == (cy + RowsOver(cx) + 1) % UINT
Moved(c, cx, cy) ==
    IF c = NEWLINE THEN [x |-> 0, y |-> NewRow(cx, cy)]
                   ELSE [x |-> (cx + 1) % UINT, y |-> cy]

\* Past the last cell everything moves up, once.
MustScrollLate(cx, cy) == Cell(cx, cy) > NUM_ROWS * NUM_COLS
MustScroll(cx, cy) == Cell(cx, cy) >= NUM_ROWS * NUM_COLS
CursorUp(cx, cy) == IF cy > 0 THEN [x |-> cx, y |-> cy - 1]
                              ELSE [x |-> cx - NUM_COLS, y |-> cy]
ScrollUp(cells) ==
    [k \in Cells |-> IF k + NUM_COLS \in Cells THEN cells[k + NUM_COLS] ELSE ASCII_SPACE]

\* The surface that putc uses: video memory and the cursor of the visible
\* terminal, or the page and the cursor of the scheduled one.
Target(foreground) == IF foreground THEN current_terminal ELSE curr_scheduler
Surface(foreground) == IF foreground THEN video ELSE vid_page[curr_scheduler]
SetSurface(foreground, cells) ==
    IF foreground
    THEN video' = cells /\ UNCHANGED vid_page
    ELSE vid_page' = [vid_page EXCEPT ![curr_scheduler] = cells] /\ UNCHANGED video
SetCursor(t, cursor) ==
    /\ x' = [x EXCEPT ![t] = cursor.x]
    /\ y' = [y EXCEPT ![t] = cursor.y]

ForegroundAlways == TRUE
Foreground == curr_scheduler = current_terminal

\* The whole of putc on a surface s.
Put(s, c) ==
    LET drawn == IF c = NEWLINE THEN s.cells ELSE Draw(s.cells, s.x, s.y, c)
        moved == Moved(c, s.x, s.y)
        scrolls == MustScroll(moved.x, moved.y)
        cursor == IF scrolls THEN CursorUp(moved.x, moved.y) ELSE moved
    IN [cells |-> IF scrolls THEN ScrollUp(drawn) ELSE drawn,
        x |-> cursor.x, y |-> cursor.y,
        wild |-> s.wild \/ (c # NEWLINE /\ Outside(s.x, s.y))]

\* The keyboard handler calls putc n times; nothing comes in between.
putc(c, n) ==
    LET t == Target(Foreground)
        s0 == [cells |-> Surface(Foreground), x |-> x[t], y |-> y[t], wild |-> wild]
        s[k \in 0 .. n] == IF k = 0 THEN s0 ELSE Put(s[k - 1], c)
    IN /\ SetSurface(Foreground, s[n].cells)
       /\ SetCursor(t, s[n])
       /\ wild' = s[n].wild

-----------------------------------------------------------------------------
(* A program of the scheduled terminal prints a character. *)

Program(from, to) ==
    /\ pc[curr_scheduler] = from
    /\ pc' = [pc EXCEPT ![curr_scheduler] = to]
    /\ UNCHANGED <<keybufferCount, current_terminal, schedVars, ghostVars>>

\* Is the processor handling the current terminal?
PutcChooses ==
    /\ Program("user", IF Foreground THEN "draw_video" ELSE "draw_page")
    /\ \E c \in {curr_scheduler, NEWLINE} : char' = [char EXCEPT ![curr_scheduler] = c]
    /\ UNCHANGED surfaceVars

c0 == char[curr_scheduler]

PutcDraws(from, to, foreground) ==
    LET t == Target(foreground)
    IN /\ Program(from, to)
       /\ IF c0 = NEWLINE
          THEN UNCHANGED <<video, vid_page, wild>>
          ELSE /\ SetSurface(foreground, Draw(Surface(foreground), x[t], y[t], c0))
               /\ wild' = (wild \/ Outside(x[t], y[t]))
       /\ UNCHANGED <<x, y, char>>

PutcMoves(from, to, foreground) ==
    LET t == Target(foreground)
    IN /\ Program(from, to)
       /\ SetCursor(t, Moved(c0, x[t], y[t]))
       /\ UNCHANGED <<video, vid_page, wild, char>>

PutcScrolls(from, to, foreground) ==
    LET t == Target(foreground)
    IN /\ Program(from, to)
       /\ IF MustScroll(x[t], y[t])
          THEN /\ SetSurface(foreground, ScrollUp(Surface(foreground)))
               /\ SetCursor(t, CursorUp(x[t], y[t]))
          ELSE UNCHANGED <<video, vid_page, x, y>>
       /\ char' = [char EXCEPT ![curr_scheduler] = NEWLINE]
       /\ UNCHANGED wild

terminal_write ==
    \/ PutcChooses
    \/ PutcDraws("draw_video", "move_video", TRUE)
    \/ PutcDraws("draw_page", "move_page", FALSE)
    \/ PutcMoves("move_video", "scroll_video", TRUE)
    \/ PutcMoves("move_page", "scroll_page", FALSE)
    \/ PutcScrolls("scroll_video", "user", TRUE)
    \/ PutcScrolls("scroll_page", "user", FALSE)

-----------------------------------------------------------------------------
(* The keyboard handler's effects on the screen. *)

count == keybufferCount[current_terminal]
InPutc == \E t \in Terminals : pc[t] # "user"

Struck(k) ==
    /\ kb_irq
    /\ k \in Key
    /\ IF InPutc THEN race < MAX_RACE /\ race' = race + 1 ELSE race' = race
    /\ stray' = (stray \/ (k = "letter" /\ ~Foreground))
    /\ under' = (under \/ (k = "backspace" /\ x[current_terminal] = 0))
    /\ UNCHANGED schedVars

\* A key is echoed, if the line has room for it; a tab as spaces.
SetCount(n) == keybufferCount' = [keybufferCount EXCEPT ![current_terminal] = n]
HasRoomAlways == TRUE
HasRoom == count < KEYBOARD_BUFFER_SIZE
EchoLetter ==
    /\ Struck("letter")
    /\ HasRoom
    /\ SetCount(count + 1)
    /\ putc(Echo(current_terminal), 1)
    /\ UNCHANGED <<current_terminal, pc, char>>
Room(n) == IF count + n <= KEYBOARD_BUFFER_SIZE THEN n ELSE KEYBOARD_BUFFER_SIZE - count
EchoTab ==
    /\ Struck("tab")
    /\ SetCount(count + Room(TAB_LENGTH))
    /\ putc(ASCII_SPACE, Room(TAB_LENGTH))
    /\ UNCHANGED <<current_terminal, pc, char>>
EchoEnter ==
    /\ Struck("enter")
    /\ SetCount(0)
    /\ putc(NEWLINE, 1)
    /\ UNCHANGED <<current_terminal, pc, char>>

\* Ctrl-C: a newline, and the scheduled program is halted wherever it is.
CtrlC ==
    /\ Struck("ctrl_c")
    /\ putc(NEWLINE, 1)
    /\ pc' = [pc EXCEPT ![curr_scheduler] = "user"]
    /\ char' = [char EXCEPT ![curr_scheduler] = NEWLINE]
    /\ UNCHANGED <<keybufferCount, current_terminal>>

\* Backspace: delete, on the visible terminal.  (The 0 it draws shows as a
\* space.)
delete ==
    LET cx == (x[current_terminal] - 1) % UINT
        cy == y[current_terminal]
    IN /\ Struck("backspace")
       /\ count > 0
       /\ SetCount(count - 1)
       /\ x' = [x EXCEPT ![current_terminal] = cx]
       /\ video' = Draw(video, cx, cy, ASCII_SPACE)
       /\ wild' = (wild \/ Outside(cx, cy))
       /\ UNCHANGED <<vid_page, y, current_terminal, pc, char>>

\* Ctrl-L: clear and clear_set; the line being typed stays.
CtrlL ==
    /\ Struck("ctrl_l")
    /\ video' = Blank
    /\ SetCursor(current_terminal, [x |-> 0, y |-> 0])
    /\ UNCHANGED <<vid_page, keybufferCount, current_terminal, wild, pc, char>>

\* Alt-Fn: video memory goes to the old terminal's page and the new terminal's
\* page to video memory; the hardware cursor follows.
SavedNot == vid_page
Saved == [vid_page EXCEPT ![current_terminal] = video]
terminal_switch(t) ==
    /\ Struck("alt_fn")
    /\ vid_page' = Saved
    /\ video' = vid_page'[t]
    /\ current_terminal' = t
    /\ UNCHANGED <<x, y, keybufferCount, wild, pc, char>>

keyboard_handler ==
    \/ EchoLetter \/ EchoTab \/ EchoEnter \/ delete \/ CtrlL \/ CtrlC
    \/ \E t \in Terminals : terminal_switch(t)

Tick ==
    /\ curr_scheduler' = (curr_scheduler + 1) % MAX_TERMINAL
    /\ kb_irq' = (curr_scheduler' = current_terminal)
    /\ UNCHANGED <<surfaceVars, keybufferCount, current_terminal, pc, char, ghostVars>>

Next == terminal_write \/ keyboard_handler \/ Tick

Spec == Init /\ [][Next]_vars

-----------------------------------------------------------------------------
(* Properties *)

\* What terminal t shows, or would show.
Shown(t) == IF t = current_terminal THEN video ELSE vid_page[t]

\* Cursors are unsigned and wrap around, a line never outgrows its buffer, and
\* a surface only ever holds what somebody printed there.
TypeOK ==
    /\ video \in [Cells -> Drawn]
    /\ vid_page \in [Terminals -> [Cells -> Drawn]]
    /\ x \in [Terminals -> 0 .. UINT - 1]
    /\ y \in [Terminals -> 0 .. UINT - 1]
    /\ keybufferCount \in [Terminals -> 0 .. KEYBOARD_BUFFER_SIZE]
    /\ current_terminal \in Terminals /\ curr_scheduler \in Terminals
    /\ kb_irq \in BOOLEAN
    /\ pc \in [Terminals -> {"user", "draw_video", "draw_page", "move_video", "move_page",
                             "scroll_video", "scroll_page"}]
    /\ char \in [Terminals -> Terminals \cup {NEWLINE}]
    /\ wild \in BOOLEAN
    /\ race \in 0 .. MAX_RACE
    /\ stray \in BOOLEAN /\ under \in BOOLEAN

Scrolling(t) == pc[t] \in {"scroll_video", "scroll_page"}

\* putc keeps the cursor on the screen although screen_x may run far over the
\* right edge and a newline may skip rows while the screen scrolls only once:
\* between calls the cursor is on a cell, and nothing is drawn elsewhere.  It
\* takes a backspace in column 0, whose decrement of screen_x is not tested, or
\* a key inside putc to break this.
CursorOnScreen ==
    race = 0 /\ ~under =>
      /\ ~wild
      /\ \A t \in Terminals : ~Scrolling(t) => ~Outside(x[t], y[t])

\* What a program prints, and the echo of what is typed, appears on its own
\* terminal only, whichever terminals are shown and scheduled between two
\* characters.  It takes an Alt-Fn inside putc, between its test of
\* current_terminal and its use, or a key between Alt-Fn and the tick that masks
\* the keyboard to break this.
OutputStaysHome ==
    race = 0 /\ ~stray =>
      \A t \in Terminals, k \in Cells : Shown(t)[k] \in {t, Echo(t), ASCII_SPACE}

\* Showing another terminal loses nothing of any terminal's text.
SwitchKeepsText ==
    [][current_terminal' # current_terminal => \A t \in Terminals : Shown(t)' = Shown(t)]_vars

-----------------------------------------------------------------------------
(* The inductive invariants behind the above.                              *)

OnVideo == {"draw_video", "move_video", "scroll_video"}
OnPage == {"draw_page", "move_page", "scroll_page"}
Own(t) == {t, Echo(t), ASCII_SPACE}

\* A program prints its own characters, and as long as no key is handled inside
\* putc, the surface that it chose is still its own.
AtHome ==
    /\ \A t \in Terminals : char[t] \in {t, NEWLINE}
    /\ race = 0 => \A t \in Terminals : /\ pc[t] \in OnVideo => t = current_terminal
                                        /\ pc[t] \in OnPage => t # current_terminal

\* Before the screen scrolls, the cursor is at most a row below it.
Below(t) == IF Scrolling(t) THEN NUM_COLS ELSE 0
CursorNear ==
    race = 0 /\ ~under =>
      /\ ~wild
      /\ \A t \in Terminals : y[t] * NUM_COLS + x[t] < NUM_ROWS * NUM_COLS + Below(t)
=============================================================================
