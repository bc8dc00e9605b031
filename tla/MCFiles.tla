------------------------------ MODULE MCFiles ------------------------------
(***************************************************************************)
(* An image with blocks of two bytes: file a has five bytes in blocks 2, 1 *)
(* and 3, file b has two in block 0, and inode 0 is that of the directory. *)
(* Behind file a there is one byte of its last block, and then block 0.    *)
(* There is an entry for the RTC, which has no inode of its own.           *)
(***************************************************************************)
EXTENDS Programs

MCName == {".", "a", "b", "rtc"}
MCType == [n \in MCName |-> CASE n = "." -> DIR_TYPE [] n = "rtc" -> RTC_TYPE [] OTHER -> FILE_TYPE]
MCInode == [n \in MCName |-> CASE n = "a" -> 1 [] n = "b" -> 2 [] OTHER -> 0]
MCLength == [i \in 0 .. 2 |-> CASE i = 0 -> 0 [] i = 1 -> 5 [] i = 2 -> 2]
MCBlocks == [i \in 0 .. 2 |-> [k \in 0 .. 3 |-> CASE i = 1 /\ k = 0 -> 2
                                                  [] i = 1 /\ k = 1 -> 1
                                                  [] i = 1 /\ k = 2 -> 3
                                                  [] OTHER -> 0]]
MCSizes == {0, 1, 3}

\* Block 0 holds "x\n"; the bytes of file a and the one behind it vary.
MCImage ==
    {[b \in 0 .. 7 |-> CASE b = 0 -> "x" [] b = 1 -> "\n" [] b = 7 -> pad [] OTHER -> a[b]] :
        a \in [2 .. 6 -> {"x", "y", "\n"}], pad \in {NUL, "y"}}
MCSearch == {<<"x">>, <<"y", "x">>}
=============================================================================
