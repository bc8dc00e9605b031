-------------------------------- MODULE Fish --------------------------------
(***************************************************************************)
(* The program fish (fish.c): it reads two pictures character by character *)
(* and in step, makes a blinking cell of every place where either has a    *)
(* mark, waits for ticks of the RTC, adds a cell of its own, brings it in  *)
(* step with the cell at the pictures' origin, and removes it again.  The  *)
(* library is also run under another caller, which makes any calls.        *)
(***************************************************************************)
EXTENDS Blink, FiniteSets, FiniteSetsExt

CONSTANTS
    COLS,                   \* columns of the screen, 80
    OFFSET,                 \* column where the pictures begin, 40
    SPOT,                   \* location of the program's own cell, 6*80+60
    WAIT,                   \* ticks of each waiting loop, 100
    FRAME_LENGTH,           \* on and off time of the pictures' cells, 15
    ON_LENGTH, OFF_LENGTH,  \* of the program's own cell, 7 and 6
    Text,                   \* the pictures to choose from
    Blinks,                 \* the cells that the other caller adds
    MAX_CELLS               \* bound: cells that it keeps at a time

ASSUME FishAssumption ==
    /\ COLS \in Nat /\ WAIT \in Nat \ {0}
    /\ OFFSET \in 1 .. COLS     \* location 0 would mark a structure as free
    /\ SPOT \in 1 .. SIZE - 1
    /\ {FRAME_LENGTH, ON_LENGTH, OFF_LENGTH} \subseteq Length
    /\ {"I", "M"} \subseteq Char
    /\ \A text \in Text : text \in Seq(Char \cup {"\n"})
    /\ \A b \in Blinks : b \in [location : Words \ {0}, on_char : Char, off_char : Char,
                               on_length : Length, off_length : Length]
    /\ MAX_CELLS \in Nat

MISSING == <<"missing">>  \* a picture that cannot be opened
NONE == "0"               \* c0 and c1 before a row's first character

VARIABLES
    pc,
    file,       \* of each picture: its text
    position,   \* of each picture: the characters read
    c,          \* of each picture: its last character
    eof,        \* of each picture: its end was reached
    row, col,
    i           \* the counter of the waiting loops

frameVars == <<position, c, eof, row, col>>
fishVars == <<pc, file, position, c, eof, row, col, i>>
vars == <<blinkVars, fishVars>>

File == {0, 1}

Init ==
    /\ BlinkInit
    /\ \/ pc = "open" /\ file \in [File -> Text \cup {MISSING}]
       \/ pc = "other" /\ file = [f \in File |-> MISSING]
    /\ position = [f \in File |-> 0]
    /\ c = [f \in File |-> NONE]
    /\ eof = [f \in File |-> FALSE]
    /\ row = 0 /\ col = 0
    /\ i = 0

Goto(from, to) == pc = from /\ pc' = to

\* mp1_set_video_mode fails if vidmap does, and main returns.
NoVideo ==
    /\ Goto("open", "done")
    /\ UNCHANGED <<blinkVars, file, frameVars, i>>

-----------------------------------------------------------------------------
(* add_frames *)

\* The pictures are opened; without one of them the program halts.
OpenFrames ==
    /\ Goto("open", IF \E f \in File : file[f] = MISSING THEN "done" ELSE "frames")
    /\ UNCHANGED <<blinkVars, file, frameVars, i>>

\* A character of every picture that is not at the end of its row; the end of
\* the file ends the row.
RowOverNever(f) == FALSE
RowOver(f) == c[f] = "\n"
AtEof(f) == ~RowOver(f) /\ position[f] = Len(file[f])
ReadChar(f) ==
    IF RowOver(f) \/ AtEof(f) THEN "\n" ELSE file[f][position[f] + 1]
Read ==
    /\ position' = [f \in File |-> IF RowOver(f) \/ AtEof(f) THEN position[f] ELSE position[f] + 1]
    /\ eof' = [f \in File |-> eof[f] \/ AtEof(f)]

Mark(ch) == ch # BLANK /\ ch # "\n"
Drawn(ch) == IF ch = "\n" THEN BLANK ELSE ch

\* One round of the inner loop.
AddChar ==
    /\ Goto("frames", "frames")
    /\ \E f \in File : ReadChar(f) # "\n"
    /\ Read
    /\ c' = [f \in File |-> ReadChar(f)]
    /\ IF \E f \in File : Mark(ReadChar(f))
       THEN mp1_ioctl_add([location |-> (row * COLS + col + OFFSET) % WORD,
                           on_char |-> Drawn(ReadChar(0)), off_char |-> Drawn(ReadChar(1)),
                           on_length |-> FRAME_LENGTH, off_length |-> FRAME_LENGTH])
       ELSE UNCHANGED blinkVars
    /\ col' = col + 1
    /\ UNCHANGED <<file, row, i>>

\* Both rows are at their end.  A picture at its end stays there.
FirstOfRow(f) == IF eof'[f] THEN "\n" ELSE NONE
EndRow ==
    /\ \A f \in File : ReadChar(f) = "\n"
    /\ Read
    /\ Goto("frames", IF \E f \in File : ~eof'[f] THEN "frames" ELSE "wait")
    /\ c' = [f \in File |-> FirstOfRow(f)]
    /\ row' = row + 1
    /\ col' = 0
    /\ UNCHANGED <<blinkVars, file, i>>

-----------------------------------------------------------------------------
(* main *)

\* Each waiting loop reads the RTC and passes the tick on.
CountedNot(n) == n
Counted(n) == n + 1
WaitLoop == {"wait", "wait_lone", "wait_synced", "wait_removed"}
AfterWait(loop) ==
    CASE loop = "wait" -> "add" [] loop = "wait_lone" -> "sync"
      [] loop = "wait_synced" -> "remove" [] loop = "wait_removed" -> "done"
Wait ==
    /\ pc \in WaitLoop
    /\ mp1_rtc_tasklet
    /\ i' = IF Counted(i) = WAIT THEN 0 ELSE Counted(i)
    /\ pc' = IF Counted(i) = WAIT THEN AfterWait(pc) ELSE pc
    /\ UNCHANGED <<file, frameVars>>

AddSpot ==
    /\ Goto("add", "wait_lone")
    /\ mp1_ioctl_add([location |-> SPOT, on_char |-> "I", off_char |-> "M",
                      on_length |-> ON_LENGTH, off_length |-> OFF_LENGTH])
    /\ UNCHANGED <<file, frameVars, i>>
SyncSpot ==
    /\ Goto("sync", "wait_synced")
    /\ mp1_ioctl_sync(OFFSET, SPOT)
    /\ UNCHANGED <<file, frameVars, i>>
RemoveSpot ==
    /\ Goto("remove", "wait_removed")
    /\ mp1_ioctl_remove(SPOT)
    /\ UNCHANGED <<file, frameVars, i>>

OtherCaller ==
    /\ pc = "other"
    /\ BlinkNext(Blinks, MAX_CELLS)
    /\ UNCHANGED fishVars

Done == pc = "done" /\ UNCHANGED vars

Next ==
    \/ NoVideo \/ OpenFrames \/ AddChar \/ EndRow
    \/ Wait \/ AddSpot \/ SyncSpot \/ RemoveSpot \/ Done
    \/ OtherCaller

\* Reads of files return, and so do reads of the RTC while its clock runs.  The
\* other caller need not call.
Spec == Init /\ [][Next]_vars /\ WF_vars(pc # "other" /\ Next)

-----------------------------------------------------------------------------
(* Properties *)

\* Locations, slots, words and places of the program are within their ranges.
TypeOK ==
    /\ BlinkTypeOK
    /\ pc \in {"open", "other", "frames", "add", "sync", "remove", "done"} \cup WaitLoop
    /\ position \in [File -> Nat]
    /\ c \in [File -> Char \cup {"\n", NONE}]
    /\ eof \in [File -> BOOLEAN]
    /\ row \in Nat /\ col \in Nat
    /\ i \in 0 .. WAIT - 1

\* Where a picture has its n-th character, and what it has at a place: a blank
\* if nothing.
Newlines(text, n) == {k \in 1 .. n - 1 : text[k] = "\n"}
RowOf(text, n) == Cardinality(Newlines(text, n))
ColOf(text, n) == n - 1 - Max({0} \cup Newlines(text, n))
Place(text, n) == <<RowOf(text, n), ColOf(text, n)>>
At(text, m) ==
    LET here == {n \in DOMAIN text : Place(text, n) = m /\ text[n] # "\n"}
    IN IF here = {} THEN BLANK ELSE text[CHOOSE n \in here : TRUE]
MarksOf(text) == {Place(text, n) : n \in {k \in DOMAIN text : Mark(text[k])}}
Marks == MarksOf(file[0]) \cup MarksOf(file[1])
Location(m) == m[1] * COLS + m[2] + OFFSET

\* A location is a word: no picture has more rows than that (818 of them).
ASSUME TextAssumption == \A text \in Text : \A m \in MarksOf(text) : Location(m) < WORD

\* The cells of the list are those of these places.
OnScreen == {m \in Marks : Location(m) < SIZE}
Shows(places) ==
    /\ Len(List) = Cardinality(places)
    /\ {<<blink_array[s].location, blink_array[s].on_char, blink_array[s].off_char>> :
           s \in {List[k] : k \in DOMAIN List}}
         = {<<Location(m), At(file[0], m), At(file[1], m)>> : m \in places}

\* Reading the pictures in step, whatever the lengths of their rows and however
\* they end, yields one cell for every place where one of them has a mark, lit
\* as the first picture and dark as the second; provided that the array has a
\* structure for each (rows longer than the screen's overlap).
FramesDrawn == pc = "wait" /\ Cardinality(OnScreen) <= SIZE => Shows(OnScreen)

\* The program comes to its end, through four waiting loops.
Ends == pc = "open" ~> pc = "done"

-----------------------------------------------------------------------------
(* The inductive invariant behind FramesDrawn.                              *)

\* The place (row, col) is the next one to be read.
Visited(m) == m[1] < row \/ (m[1] = row /\ m[2] < col)

\* How far picture f is read: the characters read are those of the places
\* visited; the next one is at this place, or behind the end of this row.
InStep(f) ==
    LET text == file[f]
        n == position[f]
    IN /\ text \in Text
       /\ n \in 0 .. Len(text)
       /\ eof[f] => n = Len(text) /\ RowOver(f)
       /\ \A k \in 1 .. n : text[k] # "\n" => Visited(Place(text, k))
       /\ RowOver(f) /\ ~eof[f] => n # 0 /\ text[n] = "\n" /\ RowOf(text, n) = row
       /\ ~RowOver(f) /\ n < Len(text) => Place(text, n + 1) = <<row, col>>

FramesInv ==
    /\ pc = "open" => /\ file \in [File -> Text \cup {MISSING}] /\ mp1_list_head = NULL
                      /\ row = 0 /\ col = 0
                      /\ \A f \in File : position[f] = 0 /\ c[f] = NONE /\ ~eof[f]
    /\ pc \in {"frames", "wait"} =>
          /\ \A f \in File : InStep(f)
          /\ Cardinality(OnScreen) <= SIZE => Shows({m \in OnScreen : Visited(m)})
    /\ pc = "wait" => \A f \in File : eof[f]
==============================================================================
