---------------------------- MODULE MCResources -----------------------------
(* Two resources beside the default one, two voice names, one engine.       *)
EXTENDS Resources, TLC

CONSTANTS r1, r2, r3, v1, v2, d1, d2, ta, sg, default, toolong

MCTrunc == [n \in RName \cup LongRName |-> IF n = toolong THEN sg ELSE n]
Symm == Permutations({r1, r2, r3}) \cup Permutations({v1, v2}) \cup Permutations({d1, d2})
=============================================================================
