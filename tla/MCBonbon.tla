------------------------------ MODULE MCBonbon ------------------------------
(* Programs in which every lock is taken before the one that follows it in    *)
(* the ring m1, m2, lock1: each pair of them can deadlock with the third      *)
(* only.  No entry of the graph is soft: a reader asks while it has the       *)
(* lock for writing.  Each makes a call that is refused.                      *)
EXTENDS Bonbon, TLC

CONSTANTS t1, t2, t3, lock1, m1, m2

MCUnits == [l \in {lock1, m1, m2} |-> IF l = lock1 THEN 2 ELSE 1]

MutexMutex == <<<<"Lock", m1>>, <<"Lock", m2>>, <<"Lock", m1>>, <<"UnLock", m2>>, <<"UnLock", m1>>>>
MutexWrite == <<<<"Lock", m2>>, <<"LockWrite", lock1>>, <<"UnLockWrite", lock1>>, <<"UnLock", m2>>, <<"UnLock", m2>>>>
WriteMutex == <<<<"LockWrite", lock1>>, <<"LockRead", lock1>>, <<"Lock", m1>>, <<"LockWrite", lock1>>,
                <<"UnLock", m1>>, <<"UnLockRead", lock1>>, <<"UnLockWrite", lock1>>>>

MCPrograms == {MutexMutex, MutexWrite, WriteMutex}
Symmetric == Permutations({t1, t2, t3})
=============================================================================
