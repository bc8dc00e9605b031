----------------------------- MODULE MCKeyboard -----------------------------
(***************************************************************************)
(* The keyboard with two terminals, lines of one character, and reads that *)
(* are invalid, empty, truncating and larger than the buffer.  A behaviour *)
(* strikes the keys that write lines and one group of the others: those    *)
(* that choose the case, those that edit and end, or those that switch.    *)
(***************************************************************************)
EXTENDS Keyboard

CaseKeys == {"shift", "capslock", "letter", "enter"}
EditKeys == {"control", "l", "c", "tab", "backspace", "letter", "enter"}
SwitchKeys == {"alt", "fn", "letter", "enter"}
AllKeySets == {CaseKeys, EditKeys, SwitchKeys}
AllSizes == {-1, 0, 1, 3}
=============================================================================
