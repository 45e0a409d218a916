----------------------------- MODULE MCPacked12 -----------------------------
(* Packed12 for TLC: one component takes every value from well below to    *)
(* well above the range, the other the values around its bit fields.       *)
EXTENDS Packed12

MCReals == -600..8800
MCImags == {-520, -3, -1, 0, 1, 29, 31, 32, 511, 512, 4095, 8189, 8190, 8191, 8300}
=============================================================================
