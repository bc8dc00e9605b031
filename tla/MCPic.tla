-------------------------------- MODULE MCPic --------------------------------
(***************************************************************************)
(* The interrupt controller with the kernel's three terminals.             *)
(***************************************************************************)
EXTENDS Pic
=============================================================================
