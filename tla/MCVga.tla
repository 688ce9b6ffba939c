-------------------------------- MODULE MCVga --------------------------------
(***************************************************************************)
(* Instances of Vga for TLC.                                               *)
(***************************************************************************)
EXTENDS Vga
==============================================================================
