------------------------------ MODULE MCShell ------------------------------
(***************************************************************************)
(* Names of one or two characters, lines of up to five.  "x" and "xx" are  *)
(* executables, "t" is not, "e" stands for "exit", "s" for "shell".        *)
(***************************************************************************)
EXTENDS Shell

MCChar == {" ", "x", "s", "e", "t"}
MCSHELL == <<"s">>
MCEXIT == <<"e">>
MCKind == (<<"x">> :> "exe") @@ (<<"x", "x">> :> "exe") @@ (<<"s">> :> "exe")
          @@ (<<"t">> :> "other") @@ (<<>> :> "short")
MCLines ==
    (1 :> UNION {[1 .. n -> {" ", "x"}] : n \in 0 .. 5}
          \cup {<<"e">>, <<"e", " ">>, <<"s">>, <<"s", " ", "x">>, <<"t">>})
    @@ (2 :> {<<"x">>, <<"x", " ", "x">>, <<"s">>, <<"e">>})
=============================================================================
