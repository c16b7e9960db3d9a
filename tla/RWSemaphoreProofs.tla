-------------------------- MODULE RWSemaphoreProofs --------------------------
(* CSemaphore implements a readers-writer lock, for any number of threads and *)
(* any PARALLEL_READERS.                                                      *)
EXTENDS RWSemaphore, FiniteSetTheorems, FunctionTheorems, TLAPS

\* There are PARALLEL_READERS units.
LEMMA UnitsFinite ==
  /\ IsFiniteSet(Units) /\ Cardinality(Units) = PARALLEL_READERS
  /\ \A S \in SUBSET Units :
       /\ IsFiniteSet(S) /\ Cardinality(S) \in Nat
       /\ Cardinality(S) = 0 <=> S = {}
       /\ Cardinality(S) = PARALLEL_READERS => S = Units
  <1>1. IsFiniteSet(Units) /\ Cardinality(Units) = PARALLEL_READERS
    BY FS_Interval, SemConstants DEF Units
  <1> QED
    BY <1>1, FS_Subset, FS_CardinalityType, FS_EmptySet

\* sem_wait gives the caller one unit more and nobody else any.
LEMMA SemWaitCounts ==
  ASSUME TypeOK, NEW p \in Threads, NEW u \in Units, SemWait(p, u)
  PROVE  \A q \in Threads : Cardinality(Owned(q)') =
                            Cardinality(Owned(q)) + (IF q = p THEN 1 ELSE 0)
  <1> SUFFICES ASSUME NEW q \in Threads
               PROVE  Cardinality(Owned(q)') = Cardinality(Owned(q)) + (IF q = p THEN 1 ELSE 0)
    OBVIOUS
  <1>1. IsFiniteSet(Owned(q)) /\ Cardinality(Owned(q)) \in Nat
    BY UnitsFinite DEF Owned
  <1>2. CASE q = p
    <2>1. Owned(p)' = Owned(p) \cup {u} /\ u \notin Owned(p)
      BY SemConstants DEF SemWait, Owned, TypeOK
    <2> QED
      BY <1>1, <1>2, <2>1, FS_AddElement
  <1>3. CASE q # p
    <2>1. Owned(q)' = Owned(q)
      BY <1>3, SemConstants DEF SemWait, Owned, TypeOK
    <2> QED
      BY <1>1, <1>3, <2>1
  <1> QED BY <1>2, <1>3

\* sem_post takes one unit from the caller and from nobody else.
LEMMA SemPostCounts ==
  ASSUME TypeOK, NEW p \in Threads, NEW u \in Units, SemPost(p, u)
  PROVE  \A q \in Threads : Cardinality(Owned(q)') =
                            Cardinality(Owned(q)) - (IF q = p THEN 1 ELSE 0)
  <1> SUFFICES ASSUME NEW q \in Threads
               PROVE  Cardinality(Owned(q)') = Cardinality(Owned(q)) - (IF q = p THEN 1 ELSE 0)
    OBVIOUS
  <1>1. IsFiniteSet(Owned(q)) /\ Cardinality(Owned(q)) \in Nat
    BY UnitsFinite DEF Owned
  <1>2. CASE q = p
    <2>1. Owned(p)' = Owned(p) \ {u} /\ u \in Owned(p)
      BY SemConstants DEF SemPost, Owned, TypeOK
    <2> QED
      BY <1>1, <1>2, <2>1, FS_RemoveElement
  <1>3. CASE q # p
    <2>1. Owned(q)' = Owned(q)
      BY <1>3, SemConstants DEF SemPost, Owned, TypeOK
    <2> QED
      BY <1>1, <1>3, <2>1
  <1> QED BY <1>2, <1>3

IInv == TypeOK /\ SemInv

\* Nobody has a unit to begin with.
LEMMA SemInit == Init => IInv
  <1> SUFFICES ASSUME Init PROVE IInv
    OBVIOUS
  <1>1. TypeOK
    BY SemConstants DEF Init, TypeOK, Places, Units
  <1>2. \A p \in Threads : Owned(p) = {}
    BY SemConstants DEF Init, Owned
  <1>3. UnitsInv
    BY <1>2, FS_EmptySet DEF UnitsInv, Init
  <1> QED
    BY <1>1, <1>3 DEF IInv, SemInv, SelfInv, Init

\* The type of every variable is kept.
LEMMA SemTypeStep == IInv /\ [Next]_vars => TypeOK'
  <1> SUFFICES ASSUME IInv, [Next]_vars PROVE TypeOK'
    OBVIOUS
  <1> USE SemConstants DEF IInv, TypeOK, SemInv, SelfInv, Places, Goto, SemWait, SemPost
  <1>1. ASSUME NEW p \in Threads, Call(p) PROVE TypeOK'
    BY <1>1 DEF Call
  <1>2. ASSUME NEW p \in Threads, LockRead(p) PROVE TypeOK'
    BY <1>2 DEF LockRead
  <1>3. ASSUME NEW p \in Threads, UnLockRead(p) PROVE TypeOK'
    BY <1>3 DEF UnLockRead
  <1>4. ASSUME NEW p \in Threads, LockWrite(p) PROVE TypeOK'
    BY <1>4 DEF LockWrite
  <1>5. ASSUME NEW p \in Threads, Collect(p) PROVE TypeOK'
    BY <1>5 DEF Collect
  <1>6. ASSUME NEW p \in Threads, LockWriteDone(p) PROVE TypeOK'
    BY <1>6 DEF LockWriteDone
  <1>7. ASSUME NEW p \in Threads, UnLockWrite(p) PROVE TypeOK'
    BY <1>7 DEF UnLockWrite
  <1>8. ASSUME NEW p \in Threads, Release(p) PROVE TypeOK'
    BY <1>8 DEF Release
  <1>9. CASE UNCHANGED vars
    BY <1>9 DEF vars
  <1> QED
    BY <1>1, <1>2, <1>3, <1>4, <1>5, <1>6, <1>7, <1>8, <1>9 DEF Next, Step

\* Every step keeps the count of units of every thread, and the one collector.
LEMMA SemStep == IInv /\ [Next]_vars => IInv'
  <1> SUFFICES ASSUME IInv, [Next]_vars PROVE IInv'
    OBVIOUS
  <1>t. TypeOK'
    BY SemTypeStep
  <1>n. \A q \in Threads : Cardinality(Owned(q)) \in Nat
    BY UnitsFinite DEF Owned
  <1>o. main_lock' = main_lock => \A q \in Threads : Owned(q)' = Owned(q)
    BY DEF Owned
  <1> USE SemConstants DEF IInv, TypeOK, SemInv, UnitsInv, SelfInv, Places, Goto
  <1>1. ASSUME NEW p \in Threads, Call(p) PROVE SemInv'
    BY <1>1, <1>o DEF Call
  <1>2. ASSUME NEW p \in Threads, LockRead(p) PROVE SemInv'
    BY <1>2, <1>n, SemWaitCounts DEF LockRead
  <1>3. ASSUME NEW p \in Threads, UnLockRead(p) PROVE SemInv'
    BY <1>3, <1>n, SemPostCounts DEF UnLockRead
  <1>4. ASSUME NEW p \in Threads, LockWrite(p) PROVE SemInv'
    BY <1>4, <1>o DEF LockWrite
  <1>5. ASSUME NEW p \in Threads, Collect(p) PROVE SemInv'
    BY <1>5, <1>n, SemWaitCounts DEF Collect
  <1>6. ASSUME NEW p \in Threads, LockWriteDone(p) PROVE SemInv'
    BY <1>6, <1>o DEF LockWriteDone
  <1>7. ASSUME NEW p \in Threads, UnLockWrite(p) PROVE SemInv'
    BY <1>7, <1>o DEF UnLockWrite
  <1>8. ASSUME NEW p \in Threads, Release(p) PROVE SemInv'
    BY <1>8, <1>n, SemPostCounts DEF Release
  <1>9. CASE UNCHANGED vars
    BY <1>9, <1>o DEF vars
  <1> QED
    BY <1>t, <1>1, <1>2, <1>3, <1>4, <1>5, <1>6, <1>7, <1>8, <1>9 DEF Next, Step

\* The semaphore counts its units right: a reader has one, a writer all of them,
\* and at most one thread collects.
THEOREM SemCorrect == Spec => [](TypeOK /\ SemInv)
  <1>1. Init => IInv
    BY SemInit
  <1>2. IInv /\ [Next]_vars => IInv'
    BY SemStep
  <1> QED
    BY <1>1, <1>2, PTL DEF Spec, IInv

\* A writer has every unit, so that nobody else has one.
LEMMA WriterHasAll ==
  ASSUME IInv, NEW p \in Threads, pc[p] = "write"
  PROVE  /\ \A u \in Units : main_lock[u] = p
         /\ \A q \in Threads : q # p => pc[q] \notin {"read", "write"}
  <1>1. Owned(p) = Units
    BY UnitsFinite DEF IInv, SemInv, UnitsInv, Owned
  <1>2. \A u \in Units : main_lock[u] = p
    BY <1>1 DEF Owned
  <1>3. ASSUME NEW q \in Threads, q # p PROVE pc[q] \notin {"read", "write"}
    <2>1. Owned(q) = {}
      BY <1>2, <1>3 DEF Owned
    <2>2. Cardinality(Owned(q)) = 0
      BY <2>1, FS_EmptySet
    <2> QED
      BY <2>2, SemConstants DEF IInv, SemInv, UnitsInv
  <1> QED BY <1>2, <1>3

\* LockWrite excludes readers and other writers.
THEOREM WriterAlwaysAlone == Spec => []WriterAlone
  <1>1. IInv => WriterAlone
    BY WriterHasAll DEF WriterAlone
  <1> QED
    BY <1>1, SemCorrect, PTL DEF IInv

Reading == {p \in Threads : pc[p] = "read"}

\* As long as a unit is free there are fewer than PARALLEL_READERS readers.
LEMMA ReadersBounded ==
  ASSUME IInv, NEW u \in Units, main_lock[u] = NULL
  PROVE  Cardinality(Reading) < PARALLEL_READERS
  <1> DEFINE T == Units \ {u}
             f == [p \in Reading |-> CHOOSE v \in Units : main_lock[v] = p]
  <1>1. IsFiniteSet(T) /\ Cardinality(T) = PARALLEL_READERS - 1
    BY UnitsFinite, FS_RemoveElement
  <1>2. \A p \in Reading : \E v \in Units : main_lock[v] = p
    <2> SUFFICES ASSUME NEW p \in Reading PROVE \E v \in Units : main_lock[v] = p
      OBVIOUS
    <2>1. Cardinality(Owned(p)) = 1 /\ Owned(p) \in SUBSET Units
      BY DEF IInv, SemInv, UnitsInv, Reading, Owned
    <2>2. Owned(p) # {}
      BY <2>1, UnitsFinite
    <2> QED BY <2>2 DEF Owned
  <1>3. \A p \in Reading : f[p] \in Units /\ main_lock[f[p]] = p
    BY <1>2
  <1>4. f \in [Reading -> T]
    <2>1. NULL \notin Reading
      BY SemConstants DEF Reading
    <2>2. \A p \in Reading : f[p] \in T
      BY <1>3, <2>1
    <2> QED BY <2>2
  <1>5. f \in Injection(Reading, T)
    <2>1. \A a, b \in Reading : f[a] = f[b] => a = b
      BY <1>3
    <2> HIDE DEF f
    <2> QED BY <2>1, <1>4, Fun_IsInj
  <1>6. IsFiniteSet(Reading) /\ Cardinality(Reading) <= Cardinality(T)
    <2> HIDE DEF f, T
    <2> QED BY <1>1, <1>5, FS_Injection
  <1>7. Cardinality(Reading) \in Nat
    BY <1>6, FS_CardinalityType
  <1> QED
    BY <1>1, <1>6, <1>7, SemConstants

\* Every step of the semaphore is a step of the abstract lock or none of it.
LEMMA SemRefinesStep == IInv /\ [Next]_vars => [RW!Next]_(RW!rwVars)
  <1> SUFFICES ASSUME IInv, [Next]_vars PROVE [RW!Next]_(RW!rwVars)
    OBVIOUS
  <1> DEFINE W == {p \in Threads : pc[p] = "write"}
  <1> USE DEF Goto, IInv, TypeOK, Places
  <1>s. ASSUME Reading' = Reading, W' = W PROVE UNCHANGED RW!rwVars
    BY <1>s DEF RW!rwVars, Reading
  <1>1. ASSUME NEW p \in Threads, Call(p) PROVE Reading' = Reading /\ W' = W
    BY <1>1 DEF Call, Reading
  <1>2. ASSUME NEW p \in Threads, LockRead(p) PROVE RW!BeginRead(p)
    <2>1. PICK u \in Units : main_lock[u] = NULL
      BY <1>2 DEF LockRead, SemWait
    <2>2. W = {}
      BY <2>1, WriterHasAll, SemConstants
    <2>3. Cardinality(Reading) < PARALLEL_READERS
      BY <2>1, ReadersBounded
    <2>4. p \notin Reading /\ Reading' = Reading \cup {p} /\ W' = W
      BY <1>2 DEF LockRead, Reading
    <2>5. RW!Cardinality(Reading) = Cardinality(Reading)
      BY DEF RW!Cardinality, Cardinality, RW!IsFiniteSet, IsFiniteSet
    <2> QED BY <2>2, <2>3, <2>4, <2>5 DEF RW!BeginRead, Reading
  <1>3. ASSUME NEW p \in Threads, UnLockRead(p) PROVE RW!EndRead(p)
    <2>1. p \in Reading /\ Reading' = Reading \ {p} /\ W' = W
      BY <1>3 DEF UnLockRead, Reading
    <2> QED BY <2>1 DEF RW!EndRead, Reading
  <1>4. ASSUME NEW p \in Threads, LockWrite(p) PROVE Reading' = Reading /\ W' = W
    BY <1>4 DEF LockWrite, Reading
  <1>5. ASSUME NEW p \in Threads, Collect(p) PROVE Reading' = Reading /\ W' = W
    BY <1>5 DEF Collect, Reading
  <1>6. ASSUME NEW p \in Threads, LockWriteDone(p) PROVE RW!BeginWrite(p)
    <2>1. IInv' /\ pc'[p] = "write" /\ \A q \in Threads : q # p => pc'[q] = pc[q]
      BY <1>6, SemStep DEF LockWriteDone
    <2>2. \A q \in Threads : q # p => pc'[q] \notin {"read", "write"}
      <3>1. Owned(p) = Units
        BY <1>6, UnitsFinite, ZenonT(30) DEF LockWriteDone, SemInv, UnitsInv, Owned
      <3>2. ASSUME NEW q \in Threads, q # p PROVE Cardinality(Owned(q)) = 0
        <4>1. Owned(q) = {}
          BY <3>1, <3>2 DEF Owned
        <4> QED BY <4>1, FS_EmptySet
      <3> QED BY <2>1, <3>2, SemConstants DEF SemInv, UnitsInv
    <2>3. Reading = {} /\ Reading' = {} /\ W = {} /\ W' = {p}
      BY <1>6, <2>1, <2>2 DEF LockWriteDone, Reading
    <2> QED BY <2>3 DEF RW!BeginWrite, Reading
  <1>7. ASSUME NEW p \in Threads, UnLockWrite(p) PROVE RW!EndWrite(p)
    <2>1. \A q \in Threads : q # p => pc[q] \notin {"read", "write"}
      BY <1>7, WriterHasAll DEF UnLockWrite
    <2>2. W = {p} /\ W' = {} /\ Reading' = Reading
      BY <1>7, <2>1 DEF UnLockWrite, Reading
    <2> QED BY <2>2 DEF RW!EndWrite, Reading
  <1>8. ASSUME NEW p \in Threads, Release(p) PROVE Reading' = Reading /\ W' = W
    BY <1>8 DEF Release, Reading
  <1>9. CASE UNCHANGED vars
    BY <1>9 DEF vars, RW!rwVars
  <1> QED
    BY <1>s, <1>1, <1>2, <1>3, <1>4, <1>5, <1>6, <1>7, <1>8, <1>9 DEF Next, Step, RW!Next

\* CSemaphore implements the readers-writer lock.
THEOREM SemRefines == Spec => ImplementsReadersWriter
  <1>1. Init => RW!Init
    BY DEF Init, RW!Init
  <1>2. IInv /\ [Next]_vars => [RW!Next]_(RW!rwVars)
    BY SemRefinesStep
  <1> QED
    BY <1>1, <1>2, SemCorrect, PTL DEF Spec, RW!Spec, ImplementsReadersWriter, IInv
=============================================================================
