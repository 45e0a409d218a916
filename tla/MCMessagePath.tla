--------------------------- MODULE MCMessagePath ----------------------------
(* Instance of MessagePath for TLC: the constants are given in the .cfg. *)
EXTENDS MessagePath
=============================================================================
