---------------------------- MODULE MCWorkerPool ----------------------------
(* Small instances of WorkerPool.                                           *)
EXTENDS WorkerPool, TLC

CONSTANTS w1, w2, w3, p1, p2, p3, sys, val, op

\* All pays use one module and one operator.
OneModule   == [p \in Pays |-> sys]
OneOperator == [p \in Pays |-> op]
NoOperator  == [p \in Pays |-> NULL]

Symmetry == Permutations(Workers)
=============================================================================
