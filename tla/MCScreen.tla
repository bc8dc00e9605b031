------------------------------ MODULE MCScreen ------------------------------
(***************************************************************************)
(* The screen with two terminals of two cells, or with one of six.         *)
(***************************************************************************)
EXTENDS Screen

SwitchKeys == {"letter", "enter", "alt_fn"}
TypingKeys == {"letter", "backspace", "tab", "enter", "ctrl_l", "ctrl_c"}
=============================================================================
