----------------------------- MODULE RWSemaphore -----------------------------
(***************************************************************************)
(* sem.cpp: CSemaphore, the readers-writer lock of modules, operators and  *)
(* pays.  It is made of two POSIX semaphores: main_lock with               *)
(* PARALLEL_READERS units, of which a reader takes one and a writer all,   *)
(* one by one, and self_lock, which lets one writer collect at a time.     *)
(*                                                                         *)
(* Each unit of main_lock records the thread that took it (NULL when it    *)
(* is free): sem_wait takes any free unit, sem_post gives back one that    *)
(* the caller has.                                                         *)
(***************************************************************************)
EXTENDS Integers, FiniteSets

CONSTANTS Threads, NULL, PARALLEL_READERS

ASSUME SemConstants ==
  /\ IsFiniteSet(Threads) /\ NULL \notin Threads
  /\ PARALLEL_READERS \in Nat \ {0}

VARIABLES
  main_lock,  \* which thread has each unit
  self_lock,  \* value of self_lock
  pc,         \* where each thread is
  i           \* loop counter of LockWrite and UnLockWrite

vars == <<main_lock, self_lock, pc, i>>

Units == 1..PARALLEL_READERS
Owned(p) == {u \in Units : main_lock[u] = p}

\* "out" outside; "rwant" in LockRead; "read" after it; "want" in sem_wait(&self_lock);
\* "collect" in the loop of LockWrite; "write" after it; "release" in UnLockWrite.
Places == {"out", "rwant", "read", "want", "collect", "write", "release"}

Init ==
  /\ main_lock = [u \in Units |-> NULL]
  /\ self_lock = 1
  /\ pc = [p \in Threads |-> "out"]
  /\ i = [p \in Threads |-> 0]

Goto(p, from, to) == pc[p] = from /\ pc' = [pc EXCEPT ![p] = to]

\* A thread calls LockRead or LockWrite.
Call(p) ==
  /\ Goto(p, "out", "rwant") \/ Goto(p, "out", "want")
  /\ UNCHANGED <<main_lock, self_lock, i>>

SemWait(p, u) == main_lock[u] = NULL /\ main_lock' = [main_lock EXCEPT ![u] = p]
SemPost(p, u) == main_lock[u] = p /\ main_lock' = [main_lock EXCEPT ![u] = NULL]

\* Variant of LockRead: no sem_wait.
LockReadUnchecked(p) ==
  /\ Goto(p, "rwant", "read")
  /\ UNCHANGED <<main_lock, self_lock, i>>

LockRead(p) ==
  /\ Goto(p, "rwant", "read")
  /\ \E u \in Units : SemWait(p, u)
  /\ UNCHANGED <<self_lock, i>>

\* Variant of UnLockRead: no sem_post.
UnLockReadForgets(p) ==
  /\ Goto(p, "read", "out")
  /\ UNCHANGED <<main_lock, self_lock, i>>

UnLockRead(p) ==
  /\ Goto(p, "read", "out")
  /\ \E u \in Units : SemPost(p, u)
  /\ UNCHANGED <<self_lock, i>>

\* sem_wait(&self_lock) in LockWrite.
LockWrite(p) ==
  /\ Goto(p, "want", "collect")
  /\ self_lock > 0
  /\ self_lock' = self_lock - 1
  /\ i' = [i EXCEPT ![p] = 0]
  /\ UNCHANGED main_lock

\* Variant of Collect: with no unit free the writer gives all of its own back.
CollectOrBackOff(p) ==
  /\ pc[p] = "collect" /\ i[p] < PARALLEL_READERS
  /\ \/ /\ \E u \in Units : SemWait(p, u)
        /\ i' = [i EXCEPT ![p] = @ + 1]
     \/ /\ \A u \in Units : main_lock[u] # NULL
        /\ main_lock' = [u \in Units |-> IF main_lock[u] = p THEN NULL ELSE main_lock[u]]
        /\ i' = [i EXCEPT ![p] = 0]
  /\ UNCHANGED <<self_lock, pc>>

\* One round of the loop of LockWrite.
Collect(p) ==
  /\ pc[p] = "collect" /\ i[p] < PARALLEL_READERS
  /\ \E u \in Units : SemWait(p, u)
  /\ i' = [i EXCEPT ![p] = @ + 1]
  /\ UNCHANGED <<self_lock, pc>>

\* Variant of LockWriteDone: the loop stops one short.
LockWriteOneShort(p) ==
  /\ i[p] = PARALLEL_READERS - 1
  /\ Goto(p, "collect", "write")
  /\ self_lock' = self_lock + 1
  /\ UNCHANGED <<main_lock, i>>

\* sem_post(&self_lock) after the loop.
LockWriteDone(p) ==
  /\ i[p] = PARALLEL_READERS
  /\ Goto(p, "collect", "write")
  /\ self_lock' = self_lock + 1
  /\ UNCHANGED <<main_lock, i>>

UnLockWrite(p) ==
  /\ Goto(p, "write", "release")
  /\ i' = [i EXCEPT ![p] = 0]
  /\ UNCHANGED <<main_lock, self_lock>>

\* One round of the loop of UnLockWrite, and its return after the last.
Release(p) ==
  /\ pc[p] = "release" /\ i[p] < PARALLEL_READERS
  /\ \E u \in Units : SemPost(p, u)
  /\ i' = [i EXCEPT ![p] = @ + 1]
  /\ pc' = [pc EXCEPT ![p] = IF i[p] + 1 = PARALLEL_READERS THEN "out" ELSE @]
  /\ UNCHANGED self_lock

Step(p) ==
  \/ LockRead(p) \/ UnLockRead(p) \/ LockWrite(p) \/ Collect(p)
  \/ LockWriteDone(p) \/ UnLockWrite(p) \/ Release(p)

Next == \E p \in Threads : Call(p) \/ Step(p)

Spec == Init /\ [][Next]_vars

\* A thread that has called is scheduled, leaves its critical section, and is served
\* by a semaphore that becomes free again and again.
FairSpec == Spec /\ \A p \in Threads : SF_vars(Step(p))

-----------------------------------------------------------------------------

\* Type invariant.
TypeOK ==
  /\ main_lock \in [Units -> Threads \cup {NULL}]
  /\ self_lock \in Nat
  /\ pc \in [Threads -> Places]
  /\ i \in [Threads -> 0..PARALLEL_READERS]

\* A thread between LockWrite and UnLockWrite is alone: nobody reads or writes
\* beside it, although readers and writers come while it collects and releases.
WriterAlone ==
  \A p, q \in Threads : pc[p] = "write" /\ p # q => pc[q] \notin {"read", "write"}

\* CSemaphore implements the readers-writer lock its callers rely on.
RW == INSTANCE ReadersWriter WITH
        readers <- {p \in Threads : pc[p] = "read"},
        writers <- {p \in Threads : pc[p] = "write"}
ImplementsReadersWriter == RW!Spec

\* Every LockRead and LockWrite returns: two writers never hold part of the units
\* each, and a writer is not starved by readers that come and go.
EveryCallReturns ==
  \A p \in Threads : /\ pc[p] = "want" ~> pc[p] = "write"
                     /\ pc[p] = "rwant" ~> pc[p] = "read"

-----------------------------------------------------------------------------
(* Inductive invariant.                                                     *)

\* How many units a thread has at each place.
UnitsInv ==
  \A p \in Threads :
    Cardinality(Owned(p)) =
      CASE pc[p] = "read"    -> 1
        [] pc[p] = "collect" -> i[p]
        [] pc[p] = "write"   -> PARALLEL_READERS
        [] pc[p] = "release" -> PARALLEL_READERS - i[p]
        [] OTHER             -> 0

\* self_lock is taken exactly by the one thread that collects.
SelfInv ==
  /\ self_lock = 1 => \A p \in Threads : pc[p] # "collect"
  /\ self_lock = 0 => \E p \in Threads : /\ pc[p] = "collect"
                                         /\ \A q \in Threads : pc[q] = "collect" => q = p
  /\ self_lock \in {0, 1}

SemInv == UnitsInv /\ SelfInv
=============================================================================
