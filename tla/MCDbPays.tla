------------------------------ MODULE MCDbPays ------------------------------
(* Small instances of DbPays.                                              *)
EXTENDS DbPays, TLC

CONSTANTS p1, p2, p3, w1, w2

Symmetry == Permutations(Pays) \cup Permutations(Workers)
=============================================================================
