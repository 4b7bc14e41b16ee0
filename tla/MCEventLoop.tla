----------------------------- MODULE MCEventLoop -----------------------------
(* Model-checking instance of EventLoop: clients and connections are      *)
(* interchangeable.                                                        *)
EXTENDS EventLoop

Symmetry == Permutations(Conn) \cup Permutations(Client)
=============================================================================
