---------------------------- MODULE MCStreamLink ----------------------------
(* Instance of StreamLink for TLC: the constants are given in the .cfg. *)
EXTENDS StreamLink
=============================================================================
