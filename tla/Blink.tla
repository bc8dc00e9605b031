-------------------------------- MODULE Blink --------------------------------
(***************************************************************************)
(* The blink library of fish: blink.S, and the allocator in fish.c.  Cells *)
(* are structures of one array, linked into a list; a structure is free if *)
(* its location is 0.  The library belongs to one program, which nothing   *)
(* else can disturb: every call is one action.                             *)
(***************************************************************************)
EXTENDS Integers, SequencesExt

CONSTANTS
    SIZE,      \* cells of the screen, and structures of the array: 80*25
    WORD,      \* values of a 16-bit word
    Char       \* characters

ASSUME SizeAssumption == SIZE \in Nat \ {0}
ASSUME WordAssumption == WORD \in Nat /\ WORD > 1
BLANK == " "
ASSUME CharAssumption == BLANK \in Char

NULL == -1
Slots == 0 .. SIZE - 1
Words == 0 .. WORD - 1
Length == {n \in 1 .. WORD : n * 2 <= WORD}   \* the times that a signed word counts down

VARIABLES
    blink_array,    \* the structures
    mp1_list_head,
    vmem,           \* the characters of video memory
    drawn           \* of each location: the slot that an add or a turn drew there last,
                    \* NULL if nothing or mp1_ioctl_sync did

blinkVars == <<blink_array, mp1_list_head, vmem, drawn>>

Cell == [location : Slots, on_char : Char, off_char : Char, on_length : Words,
         off_length : Words, countdown : Words, status : {0, 1}]
CellOf(b) == [location |-> b.location, on_char |-> b.on_char, off_char |-> b.off_char,
              on_length |-> b.on_length, off_length |-> b.off_length,
              countdown |-> b.countdown, status |-> b.status]

\* A structure full of zeros.  (Character 0 is drawn as a blank.)
Zero == [location |-> 0, on_char |-> BLANK, off_char |-> BLANK, on_length |-> 0,
         off_length |-> 0, countdown |-> 0, status |-> 0, next |-> NULL]

BlinkInit ==
    /\ blink_array = [s \in Slots |-> Zero]
    /\ mp1_list_head = NULL
    /\ vmem = [l \in Slots |-> BLANK]
    /\ drawn = [l \in Slots |-> NULL]

-----------------------------------------------------------------------------
(* Walking the list *)

\* The slots of the list, head first, cut off when it is longer than the array.
ListFrom(array, head) ==
    LET walk[k \in 1 .. SIZE + 1] ==
          IF k = 1 THEN head
          ELSE IF walk[k - 1] = NULL THEN NULL ELSE array[walk[k - 1]].next
    IN [k \in {n \in 1 .. SIZE + 1 : walk[n] # NULL} |-> walk[k]]
List == ListFrom(blink_array, mp1_list_head)

\* The place in the list of the first structure with this location, 0 if none.
mp1_find_helper(l) ==
    SelectInSeq(List, LAMBDA s : blink_array[s].location = l)

\* The first free structure.
mp1_malloc ==
    LET free == {s \in Slots : blink_array[s].location = 0}
    IN IF free = {} THEN NULL ELSE CHOOSE s \in free : \A r \in free : s <= r

-----------------------------------------------------------------------------
(* Calls *)

mp1_poke(l, c) == [vmem EXCEPT ![l] = c]

\* RTC_ADD: a structure at the head of the list, lit.
CanAddAlways(b) == mp1_malloc # NULL
CanAdd(b) == b.location < SIZE /\ mp1_malloc # NULL
mp1_ioctl_add(b) ==
    \/ /\ CanAdd(b)
       /\ blink_array' = [blink_array EXCEPT ![mp1_malloc] =
             [location |-> b.location, on_char |-> b.on_char, off_char |-> b.off_char,
              on_length |-> b.on_length, off_length |-> b.off_length,
              countdown |-> b.on_length, status |-> 1, next |-> mp1_list_head]]
       /\ mp1_list_head' = mp1_malloc
       /\ vmem' = mp1_poke(b.location, b.on_char)
       /\ drawn' = [drawn EXCEPT ![b.location] = mp1_malloc]
    \/ ~CanAdd(b) /\ UNCHANGED blinkVars

\* RTC_REMOVE: the structure leaves the list and is zeroed; the screen stays
\* as it is.
UnlinkedLate(k) ==
    [s \in Slots |-> CASE s = List[k] -> Zero
                       [] k > 1 /\ s = List[k - 1] -> [blink_array[s] EXCEPT !.next = Zero.next]
                       [] OTHER -> blink_array[s]]
UnlinkedLeak(k) ==
    [s \in Slots |-> CASE k > 1 /\ s = List[k - 1] ->
                             [blink_array[s] EXCEPT !.next = blink_array[List[k]].next]
                       [] OTHER -> blink_array[s]]
Unlinked(k) ==
    [s \in Slots |-> CASE s = List[k] -> Zero
                       [] k > 1 /\ s = List[k - 1] ->
                             [blink_array[s] EXCEPT !.next = blink_array[List[k]].next]
                       [] OTHER -> blink_array[s]]
mp1_ioctl_remove(l) ==
    LET k == mp1_find_helper(l)
    IN \/ /\ k # 0
          /\ blink_array' = Unlinked(k)
          /\ mp1_list_head' = IF k = 1 THEN blink_array[List[k]].next ELSE mp1_list_head
          /\ UNCHANGED <<vmem, drawn>>
       \/ k = 0 /\ UNCHANGED blinkVars

\* RTC_SYNC: the second structure takes over the first one's rhythm.  What is
\* drawn is its off_char: the conditional move tests "less", which never holds
\* after the test of the status.
mp1_ioctl_sync(from, to) ==
    LET k == mp1_find_helper(from)
        n == mp1_find_helper(to)
    IN \/ /\ k # 0 /\ n # 0
          /\ blink_array' = [blink_array EXCEPT ![List[n]] =
                [@ EXCEPT !.on_length = blink_array[List[k]].on_length,
                          !.off_length = blink_array[List[k]].off_length,
                          !.countdown = blink_array[List[k]].countdown,
                          !.status = blink_array[List[k]].status]]
          /\ vmem' = mp1_poke(to, blink_array[List[n]].off_char)
          /\ drawn' = [drawn EXCEPT ![to] = NULL]
          /\ UNCHANGED mp1_list_head
       \/ (k = 0 \/ n = 0) /\ UNCHANGED blinkVars

\* A tick counts every structure down, as a signed word, and turns those that
\* have come to 0.
Down(n) == (n + WORD - 1) % WORD
NotDueLate(n) == n * 2 < WORD
NotDue(n) == n # 0 /\ n * 2 < WORD
Turns(b) == ~NotDue(Down(b.countdown))
Ticked(b) ==
    IF Turns(b)
    THEN [b EXCEPT !.countdown = IF b.status = 1 THEN b.off_length ELSE b.on_length,
                   !.status = 1 - @]
    ELSE [b EXCEPT !.countdown = Down(@)]

\* The list is walked from its head, so the last one drawn at a location stays.
mp1_rtc_tasklet ==
    LET list == List
        turning(l) == {k \in DOMAIN list : /\ blink_array[list[k]].location = l
                                           /\ Turns(blink_array[list[k]])}
        last(l) == list[CHOOSE k \in turning(l) : \A j \in turning(l) : j <= k]
        char(b) == IF b.status = 1 THEN b.off_char ELSE b.on_char
        listed == {list[k] : k \in DOMAIN list}
    IN /\ blink_array' = [s \in Slots |-> IF s \in listed THEN Ticked(blink_array[s])
                                          ELSE blink_array[s]]
       /\ vmem' = [l \in Slots |-> IF turning(l) = {} THEN vmem[l] ELSE char(blink_array[last(l)])]
       /\ drawn' = [l \in Slots |-> IF turning(l) = {} THEN drawn[l] ELSE last(l)]
       /\ UNCHANGED mp1_list_head

\* The library under any caller, which keeps at most most cells.
BlinkNext(Blinks, most) ==
    \/ \E b \in Blinks : Len(List) < most /\ mp1_ioctl_add(b)
    \/ \E b \in Blinks : mp1_ioctl_remove(b.location)
    \/ \E a, b \in Blinks : mp1_ioctl_sync(a.location, b.location)
    \/ mp1_rtc_tasklet

-----------------------------------------------------------------------------
(* Properties *)

Struct == [location : Slots, on_char : Char, off_char : Char, on_length : Words,
           off_length : Words, countdown : Words, status : {0, 1}, next : Slots \cup {NULL}]
BlinkTypeOK ==
    /\ blink_array \in [Slots -> Struct]
    /\ mp1_list_head \in Slots \cup {NULL}
    /\ vmem \in [Slots -> Char]
    /\ drawn \in [Slots -> Slots \cup {NULL}]

\* Pointers, allocation by location 0 and unlinking implement a list of cells:
\* a call changes the list as Blinkers says or, if it fails, not at all; so no
\* structure is shared, handed out twice or still found after its removal.
Abstract == INSTANCE Blinkers WITH
    Capacity <- SIZE,
    cells <- LET list == List IN [k \in DOMAIN list |-> CellOf(blink_array[list[k]])]
ImplementsList == Abstract!Spec

\* mp1_free gives back what mp1_malloc took: however many cells were added and
\* removed, an add on the screen fails only if a whole array of them is listed.
AddsSucceed == Len(List) < SIZE => \A l \in Slots : CanAdd([location |-> l])

Time(b) == IF b.status = 1 THEN b.on_length ELSE b.off_length

\* Cells blink as they should: the screen shows a cell as its status says, as
\* long as it was the last to be drawn at its location (mp1_ioctl_sync draws it
\* dark whatever its status); and a cell is never further from its next turn
\* than its own on or off time: no countdown passes through 0 and wraps.
BlinksInTime ==
    \A k \in DOMAIN List :
       LET b == blink_array[List[k]]
       IN /\ drawn[b.location] = List[k] =>
               vmem[b.location] = IF b.status = 1 THEN b.on_char ELSE b.off_char
          /\ b.countdown \in 1 .. Time(b)

-----------------------------------------------------------------------------
(* The inductive invariant behind the above.                               *)

\* The structures of an array are linked in the order of q.
Links(array, head, q) ==
    /\ q \in Seq(Slots)
    /\ head = IF q = <<>> THEN NULL ELSE q[1]
    /\ \A k \in DOMAIN q : array[q[k]].next = IF k = Len(q) THEN NULL ELSE q[k + 1]
    /\ \A j, k \in DOMAIN q : q[j] = q[k] => j = k

\* The list ends, and what is in it is what is not free.
Linked ==
    /\ Links(blink_array, mp1_list_head, List)
    /\ \A s \in Slots : blink_array[s].location # 0 <=> \E k \in DOMAIN List : List[k] = s

\* Of every structure that is not free: what BlinksInTime says of those listed,
\* and that its times can be counted down.
InTime ==
    \A s \in Slots :
       LET b == blink_array[s]
       IN b.location # 0 =>
            /\ b.on_length \in Length /\ b.off_length \in Length
            /\ b.countdown \in 1 .. Time(b)
            /\ drawn[b.location] = s =>
                  vmem[b.location] = IF b.status = 1 THEN b.on_char ELSE b.off_char
==============================================================================
