------------------------------- MODULE Stacks -------------------------------
(***************************************************************************)
(* What process management promises its terminals: each has a stack of     *)
(* processes, topmost first; the one on top may start another, end, or, if *)
(* it is the only one, be replaced by a fresh shell.  No process is on two *)
(* stacks, and no step touches two of them.                                *)
(***************************************************************************)
EXTENDS Integers, Sequences

CONSTANTS Terminal, Pid

VARIABLE stack

Init == stack = [t \in Terminal |-> <<>>]

Used(s) == UNION {{s[t][k] : k \in DOMAIN s[t]} : t \in Terminal}

Push(old, new, t) ==
    \E p \in Pid \ Used(old) : new = [old EXCEPT ![t] = <<p>> \o @]
Pop(old, new, t) ==
    old[t] # <<>> /\ new = [old EXCEPT ![t] = Tail(@)]
Relaunch(old, new, t) ==
    /\ Len(old[t]) = 1
    /\ \E p \in (Pid \ Used(old)) \cup {Head(old[t])} : new = [old EXCEPT ![t] = <<p>>]

Next ==
    \E old \in {stack}, new \in {stack'}, t \in Terminal :
       Push(old, new, t) \/ Pop(old, new, t) \/ Relaunch(old, new, t)

Spec == Init /\ [][Next]_stack
=============================================================================
