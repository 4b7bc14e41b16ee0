--------------------------- MODULE MCPoolContract ---------------------------
(* Model-checking instance of PoolContract: the connections are           *)
(* interchangeable.                                                        *)
EXTENDS PoolContract, TLC

Symmetry == Permutations(Conn)
=============================================================================
