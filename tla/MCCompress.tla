----------------------------- MODULE MCCompress -----------------------------
(* Instance of Compress for TLC: the constants are given in the .cfg. *)
EXTENDS Compress
=============================================================================
