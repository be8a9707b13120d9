--------------------------- MODULE MCInboundTurn ---------------------------
(* Instances of InboundTurn for TLC.                                       *)
EXTENDS InboundTurn, TLC

Symmetric == Permutations(Worker)
=============================================================================
