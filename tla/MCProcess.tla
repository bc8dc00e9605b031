------------------------------ MODULE MCProcess ------------------------------
(***************************************************************************)
(* Process management on small instances.                                  *)
(***************************************************************************)
EXTENDS Process
=============================================================================
