------------------------------ MODULE MCFish ------------------------------
(***************************************************************************)
(* Pictures of up to three characters, blanks and ends of rows included, on *)
(* a screen of two rows of two cells; and the pictures that are missing.  *)
(* The cell in row 1, column 0 of the pictures is the program's own SPOT.  *)
(***************************************************************************)
EXTENDS Fish

MCChar == {"a", " ", "I", "M"}
MCText == UNION {[1 .. n -> {"a", " ", "\n"}] : n \in 0 .. 3}
MCBlinks == {[location |-> 1, on_char |-> "a", off_char |-> " ", on_length |-> 1, off_length |-> 2],
             [location |-> 2, on_char |-> "I", off_char |-> "M", on_length |-> 1, off_length |-> 1]}
=============================================================================
