----------------------------- MODULE MCSearchTree -----------------------------
(* Model-checking instance of SearchTree: paths that share prefixes, that  *)
(* are prefixes of others, and that begin to the left and to the right.    *)
EXTENDS SearchTree

Paths == {<<2>>, <<2, 2>>, <<2, 1>>, <<2, 3>>, <<2, 2, 1>>, <<1, 2>>, <<3>>}
Queries == Paths \cup {<<>>, <<1>>, <<1, 1>>, <<2, 1, 3>>, <<2, 2, 1, 2>>, <<3, 3>>}

Symmetry == Permutations(Func)
=============================================================================
