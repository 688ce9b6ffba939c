-------------------------- MODULE MCPhysicalCallers ---------------------------
(***************************************************************************)
(* Instances of PhysicalCallers for TLC.                                   *)
(***************************************************************************)
EXTENDS PhysicalCallers
==============================================================================
