--------------------------- MODULE MCRWSemaphore ---------------------------
(* Small instances of RWSemaphore.                                         *)
EXTENDS RWSemaphore, TLC

CONSTANTS t1, t2, t3
=============================================================================
