------------------------------ MODULE Blinkers ------------------------------
(***************************************************************************)
(* What the blink library of fish (src/fish/blink.S) promises its caller:  *)
(* a list of blinking cells, newest first.  A cell is added while there is *)
(* room, the newest cell at a location is removed, a cell takes over the   *)
(* rhythm of another, and a tick moves every cell.  A call that fails      *)
(* changes nothing.                                                        *)
(***************************************************************************)
EXTENDS Integers, Sequences

CONSTANTS
    Capacity,     \* cells that fit in
    Cell,         \* the cells there can be
    Ticked(_)     \* a cell after a tick

VARIABLE cells

Init == cells = <<>>

\* The locations of a list of cells, and the newest cell at one of them.
Locations(list) == {list[k].location : k \in DOMAIN list}
Newest(list, l) == CHOOSE k \in DOMAIN list :
    list[k].location = l /\ \A j \in 1 .. k - 1 : list[j].location # l

\* A new cell starts lit, with its whole time to go.
Added(list, new) ==
    /\ Len(new) = Len(list) + 1
    /\ Len(list) < Capacity
    /\ Tail(new) = list
    /\ Head(new) \in Cell
    /\ Head(new).status = 1
    /\ Head(new).countdown = Head(new).on_length

Removed(list, new) ==
    /\ Len(new) = Len(list) - 1
    /\ \E l \in Locations(list) : LET n == Newest(list, l)
          IN new = SubSeq(list, 1, n - 1) \o SubSeq(list, n + 1, Len(list))

InRhythm(slave, master) ==
    [slave EXCEPT !.on_length = master.on_length, !.off_length = master.off_length,
                  !.countdown = master.countdown, !.status = master.status]
Synced(list, new) ==
    /\ Len(new) = Len(list)
    /\ \E from, to \in Locations(list) :
          new = [list EXCEPT ![Newest(list, to)] = InRhythm(@, list[Newest(list, from)])]

AfterTick(list, new) == new = [k \in DOMAIN list |-> Ticked(list[k])]

Next ==
    \E list \in {cells}, new \in {cells'} :
       Added(list, new) \/ Removed(list, new) \/ Synced(list, new) \/ AfterTick(list, new)

Spec == Init /\ [][Next]_cells
==============================================================================
