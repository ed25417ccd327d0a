-------------------------- MODULE MCRecoveryQueue --------------------------
(* A finite instance of RecoveryQueue for TLC. *)
EXTENDS RecoveryQueue

CONSTANTS x1, x2, k1, k2, u, w1, w2

\* A hopeless row in front of the two queues that new operations join, and in the
\* third one what an older engine left to be refunded: a row that can be read, one
\* that no build can, or both.
HopelessFirst(rest) == [q \in Queues |-> CASE q = "processing" -> <<x1>>
                                           [] q = "delivery"   -> <<x2>>
                                           [] OTHER            -> rest]

Starts == {HopelessFirst(<<k2>>), HopelessFirst(<<u>>), HopelessFirst(<<u, k2>>)}

\* The build of w1 cannot read x2, a row of a later build.
TwoBuilds == [v \in Recoverers |-> IF v = w1 THEN {x2, u} ELSE {u}]
=============================================================================
