------------------------------- MODULE MCPsci -------------------------------
(* Psci on two clusters: CPUs a and b share one, c has its own.            *)
EXTENDS PsciPower

CONSTANTS a, b, c, X, Y

MCCPU == {a, b, c}
MCCluster == {X, Y}
MCClusterOf == [p \in MCCPU |-> IF p = c THEN Y ELSE X]

(* For the liveness properties: one cluster of three CPUs, or of two.      *)
MCOne == {X}
MCTrioOf == [p \in MCCPU |-> X]
MCPair == {a, b}
MCPairOf == [p \in MCPair |-> X]
=============================================================================
