--------------------------- MODULE MCTestProgram ---------------------------
(* Instance of TestProgram for TLC: the constants are given in the .cfg. *)
EXTENDS TestProgram
=============================================================================
