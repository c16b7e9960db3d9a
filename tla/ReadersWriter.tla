---------------------------- MODULE ReadersWriter ----------------------------
(* What the callers of CSemaphore rely on: a configuration is read by several *)
(* threads at a time, at most PARALLEL_READERS, or rewritten by one alone.    *)
EXTENDS Integers, FiniteSets

CONSTANTS Threads, PARALLEL_READERS

VARIABLES readers, writers

rwVars == <<readers, writers>>

Init == readers = {} /\ writers = {}

BeginRead(p) ==
  /\ p \notin readers /\ writers = {}
  /\ Cardinality(readers) < PARALLEL_READERS
  /\ readers' = readers \cup {p}
  /\ UNCHANGED writers

EndRead(p) ==
  /\ p \in readers
  /\ readers' = readers \ {p}
  /\ UNCHANGED writers

BeginWrite(p) ==
  /\ readers = {} /\ writers = {}
  /\ writers' = {p}
  /\ UNCHANGED readers

EndWrite(p) ==
  /\ writers = {p}
  /\ writers' = {}
  /\ UNCHANGED readers

Next == \E p \in Threads : BeginRead(p) \/ EndRead(p) \/ BeginWrite(p) \/ EndWrite(p)

Spec == Init /\ [][Next]_rwVars
=============================================================================
