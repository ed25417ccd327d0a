---------------------------- MODULE MCPullAudit ----------------------------
(* A finite instance of PullAudit for TLC. *)
EXTENDS PullAudit

CONSTANTS p1, p2, h1, h2, h3, r1, r2, v1, v2, b1, b2, rng1, rng2

\* Two requests at a time in the first pod, one in the second.
Placement == [h \in Handlers |-> IF h = h3 THEN p2 ELSE p1]

Entry(v, from, to) == [version |-> v, from |-> from, to |-> to]

\* Release r1 replaces one version by another at tick 2; r2, a later release of
\* the same banner, has versions that overlap at tick 1 and a gap at tick 3.
Plan == [r \in Releases |->
           IF r = r1 THEN {Entry(v1, 0, 2), Entry(v2, 2, Horizon + 1)}
                     ELSE {Entry(v1, 0, 2), Entry(v2, 1, 3)}]

Generators == [b \in Builds |-> IF b = b1 THEN rng1 ELSE rng2]

\* An operation charged by an engine without audit metadata.
Unaudited == {[ctx |-> [config |-> [release |-> r1, version |-> v1],
                        accepted |-> None, audit |-> None],
               resp |-> None]}
=============================================================================
