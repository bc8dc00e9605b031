------------------------------ MODULE Programs ------------------------------
(***************************************************************************)
(* The programs syserr and grep, and any program that Files allows, one    *)
(* after the other in the same PCB slot.                                   *)
(***************************************************************************)
EXTENDS Syserr, Grep

programVars == <<allVars, grepVars>>

ProgramsInit == SyserrInit /\ GrepInit

ProgramsNext ==
    \/ gpc = "off" /\ SyserrNext /\ UNCHANGED grepVars
    \/ pc = "none" /\ GrepNext(slot) /\ UNCHANGED testVars

ProgramsSpec == ProgramsInit /\ [][ProgramsNext]_programVars
=============================================================================
