-------------------------------- MODULE MCOut --------------------------------
(***************************************************************************)
(* An instance of OutFile for TLC.                                         *)
(***************************************************************************)
EXTENDS OutFile

CONSTANTS p1, p2
=============================================================================
