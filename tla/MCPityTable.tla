---------------------------- MODULE MCPityTable ----------------------------
(* A finite instance of PityTable for TLC. *)
EXTENDS PityTable

CONSTANTS b1, b2, g1, k1
=============================================================================
