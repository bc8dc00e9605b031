---------------------------- MODULE MCDirectory ----------------------------
(***************************************************************************)
(* Two processes list a directory of three entries, ".", "a" and "b"; the  *)
(* rest of the table is empty, as in the repository's image.               *)
(***************************************************************************)
EXTENDS Directory

CONSTANTS p1, p2

MCFileName == {".", "a", "b", ""}
MCfile_name_(n) == CASE n = 0 -> "a" [] n = 1 -> "b" [] OTHER -> ""
=============================================================================
