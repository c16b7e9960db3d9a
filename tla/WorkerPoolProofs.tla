-------------------------- MODULE WorkerPoolProofs --------------------------
(***************************************************************************)
(* Theorems about WorkerPool for every number of workers, pays, modules    *)
(* and operators, every thread limit and every set of commands.            *)
(*                                                                         *)
(* PoolInv is inductive together with TypeOK: TypeOK alone is not, because *)
(* the steps of a thread read the module of its pay and only SemInv says   *)
(* that a thread past Wait has one.  The other invariants are inductive    *)
(* relative to PoolInv:                                                    *)
(*   CountInv           busy workers and the size of the pool;             *)
(*   SendInv            a pay that may still reach its module has not      *)
(*                      been there, if no KILL can arrive;                 *)
(*   ReadLocksBalanced  with SendInv, by which the worker that the drain   *)
(*                      removes is the one it has joined;                  *)
(*   UnitsBounded       whatever is killed;                                *)
(*   RetireInv          what ManagerEx leaves in the list.                 *)
(***************************************************************************)
EXTENDS WorkerPool, FiniteSetTheorems, TLAPS

\* TypeOK is preserved by every step from a state that satisfies PoolInv.
LEMMA TypeStep == TypeOK /\ PoolInv /\ [Next]_vars => TypeOK'
<1> SUFFICES ASSUME TypeOK, PoolInv, [Next]_vars PROVE TypeOK'
  OBVIOUS
<1> USE PoolConstants DEF TypeOK, vars, poolVars, modeVars, workerVars, mainVars, payVars,
      adminVars, workerFrame, IsFree, Busy, ListAlive, Gone,
      Locks, Phases, Fates, MainPhases
<1>a. \A w \in Workers : thread[w] \in Working => pay[w] \in Pays
  BY DEF PoolInv, ListInv, SemInv, Working
<1>1. ASSUME PollRetry PROVE TypeOK'
  BY <1>1 DEF PollRetry
<1>2. ASSUME PollNothing PROVE TypeOK'
  BY <1>2 DEF PollNothing, Available
<1>3. ASSUME DispatchFails PROVE TypeOK'
  BY <1>3 DEF DispatchFails
<1>4. ASSUME Tick PROVE TypeOK'
  BY <1>4 DEF Tick, LoopEnd
<1>5. ASSUME ManagerEnd PROVE TypeOK'
  BY <1>5 DEF ManagerEnd, Destroy, LoopEnd
<1>6. ASSUME DrainRemoveNone PROVE TypeOK'
  BY <1>6 DEF DrainRemoveNone
<1>7. ASSUME DrainEnd PROVE TypeOK'
  BY <1>7 DEF DrainEnd
<1>8. ASSUME Exit PROVE TypeOK'
  BY <1>8 DEF Exit
<1>9. ASSUME RebootBegin PROVE TypeOK'
  BY <1>9 DEF RebootBegin
<1>10. ASSUME CommandOnDeadList PROVE TypeOK'
  BY <1>10 DEF CommandOnDeadList
<1>11. ASSUME ReConfBegin PROVE TypeOK'
  BY <1>11 DEF ReConfBegin
<1>12. ASSUME Shutdown PROVE TypeOK'
  <2>1. working' \in BOOLEAN /\ quit' \in BOOLEAN
    BY <1>12, Zenon DEF Shutdown
  <2> QED BY <1>12, <2>1 DEF Shutdown
<1>13. ASSUME SigTerm PROVE TypeOK'
  <2>1. working' \in BOOLEAN /\ quit' \in BOOLEAN /\ force_quit' \in BOOLEAN
    BY <1>13, Zenon DEF SigTerm
  <2> QED BY <1>13, <2>1 DEF SigTerm
<1>14. ASSUME Reboot PROVE TypeOK'
  <2>1. working' \in BOOLEAN /\ quit' \in BOOLEAN
    BY <1>14, Zenon DEF Reboot
  <2>2. reboots' \in Nat
    BY <1>14 DEF Reboot
  <2> QED BY <1>14, <2>1, <2>2 DEF Reboot
<1>15. ASSUME NEW p \in Pays, PollTake(p) PROVE TypeOK'
  BY <1>15 DEF PollTake, Available
<1>16. ASSUME NEW p \in Pays, Arrive(p) PROVE TypeOK'
  BY <1>16 DEF Arrive
<1>17. ASSUME NEW w \in Workers, Wake(w) PROVE TypeOK'
  BY <1>17 DEF Wake, To
<1>18. ASSUME NEW w \in Workers, Start(w) PROVE TypeOK'
  BY <1>18 DEF Start, To
<1>19. ASSUME NEW w \in Workers, ClaimPaySys(w) PROVE TypeOK'
  <2>1. pay[w] \in Pays
    BY <1>19, <1>a DEF ClaimPaySys, To, Working
  <2> QED BY <1>19, <2>1 DEF ClaimPaySys, To, Take
<1>20. ASSUME NEW w \in Workers, ClaimOperator(w) PROVE TypeOK'
  BY <1>20 DEF ClaimOperator, To, Take
<1>21. ASSUME NEW w \in Workers, SkipValidator(w) PROVE TypeOK'
  BY <1>21 DEF SkipValidator, To
<1>22. ASSUME NEW w \in Workers, LockValidator(w) PROVE TypeOK'
  BY <1>22 DEF LockValidator, To, Take
<1>23. ASSUME NEW w \in Workers, Validate(w) PROVE TypeOK'
  BY <1>23 DEF Validate, To
<1>24. ASSUME NEW w \in Workers, Settle(w) PROVE TypeOK'
  BY <1>24 DEF Settle, To, ReleaseRoute
<1>25. ASSUME NEW w \in Workers, SettleWarning(w) PROVE TypeOK'
  BY <1>25 DEF SettleWarning, To
<1>26. ASSUME NEW w \in Workers, InitPay(w) PROVE TypeOK'
  BY <1>26 DEF InitPay, To, ReleaseRoute
<1>27. ASSUME NEW w \in Workers, SendPay(w) PROVE TypeOK'
  <2>1. pay[w] \in Pays
    BY <1>27, <1>a DEF SendPay, To, Working
  <2> QED BY <1>27, <2>1 DEF SendPay, To
<1>28. ASSUME NEW w \in Workers, DBSetState(w) PROVE TypeOK'
  <2>1. pay[w] \in Pays
    BY <1>28, <1>a DEF DBSetState, To, Working
  <2> QED BY <1>28, <2>1 DEF DBSetState, To
<1>29. ASSUME NEW w \in Workers, Finish(w) PROVE TypeOK'
  BY <1>29 DEF Finish, To
<1>30. ASSUME NEW w \in Workers, KillWorker(w) PROVE TypeOK'
  BY <1>30 DEF KillWorker, Destroy
<1>31. ASSUME NEW w \in Workers, CancelWorker(w) PROVE TypeOK'
  BY <1>31 DEF CancelWorker
<1>32. ASSUME NEW w \in Workers, DispatchToIdle(w) PROVE TypeOK'
  BY <1>32 DEF DispatchToIdle, Launch, LoopEnd, Idle, PoolInv, FateInv
<1>33. ASSUME NEW w \in Workers, DispatchToNew(w) PROVE TypeOK'
  BY <1>33 DEF DispatchToNew, Launch, LoopEnd, Idle, PoolInv, FateInv
<1>34. ASSUME NEW w \in Workers, DrainKill(w) PROVE TypeOK'
  BY <1>34 DEF DrainKill
<1>35. ASSUME NEW w \in Workers, DrainRemove(w) PROVE TypeOK'
  BY <1>35 DEF DrainRemove, Destroy
<1>36. ASSUME NEW S \in SUBSET Workers, ManagerBegin(S) PROVE TypeOK'
  BY <1>36 DEF ManagerBegin, Live, Expired
<1>37. ASSUME NEW S \in SUBSET Workers, RebootEnd(S) PROVE TypeOK'
  BY <1>37 DEF RebootEnd, Construct, Created
<1>38. ASSUME NEW m \in PaySystems, ReConfStep(m) PROVE TypeOK'
  BY <1>38 DEF ReConfStep
<1>39. CASE UNCHANGED vars
  BY <1>39
<1>40. QED
  BY <1>1, <1>2, <1>3, <1>4, <1>5, <1>6, <1>7, <1>8, <1>9, <1>10, <1>11, <1>12, <1>13, <1>14, <1>15, <1>16, <1>17, <1>18, <1>19, <1>20, <1>21, <1>22, <1>23, <1>24, <1>25, <1>26, <1>27, <1>28, <1>29, <1>30, <1>31, <1>32, <1>33, <1>34, <1>35, <1>36, <1>37, <1>38, <1>39
  DEF Next, MainStep, WorkerStep, Command, Stopped

\* PoolInv is preserved by every step.
LEMMA PoolStep == TypeOK /\ TypeOK' /\ PoolInv /\ [Next]_vars => PoolInv'
<1> SUFFICES ASSUME TypeOK, TypeOK', PoolInv, [Next]_vars PROVE PoolInv'
  OBVIOUS
<1> USE PoolConstants DEF TypeOK, vars, poolVars, modeVars, workerVars, mainVars, payVars,
      adminVars, workerFrame, IsFree, Busy, ListAlive, Gone,
      Working, Phases, Fates, MainPhases, Serving,
      PoolInv, ListInv, SemInv, KilledInv, FateInv,
      FreeWorkerReady, LockHolderAlive, PayHasOneOwner
<1>1. ASSUME PollRetry PROVE PoolInv'
  BY <1>1 DEF PollRetry
<1>2. ASSUME PollNothing PROVE PoolInv'
  BY <1>2 DEF PollNothing, Available
<1>3. ASSUME DispatchFails PROVE PoolInv'
  BY <1>3 DEF DispatchFails
<1>4. ASSUME Tick PROVE PoolInv'
  BY <1>4 DEF Tick, LoopEnd
<1>5. ASSUME ManagerEnd PROVE PoolInv'
  BY <1>5 DEF ManagerEnd, Destroy, LoopEnd
<1>6. ASSUME DrainRemoveNone PROVE PoolInv'
  BY <1>6 DEF DrainRemoveNone
<1>7. ASSUME DrainEnd PROVE PoolInv'
  BY <1>7 DEF DrainEnd
<1>8. ASSUME Exit PROVE PoolInv'
  BY <1>8 DEF Exit
<1>9. ASSUME RebootBegin PROVE PoolInv'
  BY <1>9 DEF RebootBegin
<1>10. ASSUME CommandOnDeadList PROVE PoolInv'
  BY <1>10 DEF CommandOnDeadList
<1>11. ASSUME ReConfBegin PROVE PoolInv'
  BY <1>11 DEF ReConfBegin
<1>12. ASSUME Shutdown PROVE PoolInv'
  BY <1>12 DEF Shutdown
<1>13. ASSUME SigTerm PROVE PoolInv'
  BY <1>13 DEF SigTerm
<1>14. ASSUME Reboot PROVE PoolInv'
  BY <1>14 DEF Reboot
<1>15. ASSUME NEW p \in Pays, PollTake(p) PROVE PoolInv'
  BY <1>15 DEF PollTake, Available
<1>16. ASSUME NEW p \in Pays, Arrive(p) PROVE PoolInv'
  BY <1>16 DEF Arrive
<1>17. ASSUME NEW w \in Workers, Wake(w) PROVE PoolInv'
  BY <1>17 DEF Wake, To
<1>18. ASSUME NEW w \in Workers, Start(w) PROVE PoolInv'
  BY <1>18 DEF Start, To
<1>19. ASSUME NEW w \in Workers, ClaimPaySys(w) PROVE PoolInv'
  BY <1>19 DEF ClaimPaySys, To, Take
<1>20. ASSUME NEW w \in Workers, ClaimOperator(w) PROVE PoolInv'
  BY <1>20 DEF ClaimOperator, To, Take
<1>21. ASSUME NEW w \in Workers, SkipValidator(w) PROVE PoolInv'
  BY <1>21 DEF SkipValidator, To
<1>22. ASSUME NEW w \in Workers, LockValidator(w) PROVE PoolInv'
  BY <1>22 DEF LockValidator, To, Take
<1>23. ASSUME NEW w \in Workers, Validate(w) PROVE PoolInv'
  BY <1>23 DEF Validate, To
<1>24. ASSUME NEW w \in Workers, Settle(w) PROVE PoolInv'
  BY <1>24 DEF Settle, To, ReleaseRoute
<1>25. ASSUME NEW w \in Workers, SettleWarning(w) PROVE PoolInv'
  BY <1>25 DEF SettleWarning, To
<1>26. ASSUME NEW w \in Workers, InitPay(w) PROVE PoolInv'
  BY <1>26 DEF InitPay, To, ReleaseRoute
<1>27. ASSUME NEW w \in Workers, SendPay(w) PROVE PoolInv'
  BY <1>27 DEF SendPay, To
<1>28. ASSUME NEW w \in Workers, DBSetState(w) PROVE PoolInv'
  BY <1>28 DEF DBSetState, To
<1>29. ASSUME NEW w \in Workers, Finish(w) PROVE PoolInv'
  BY <1>29 DEF Finish, To
<1>30. ASSUME NEW w \in Workers, KillWorker(w) PROVE PoolInv'
  BY <1>30 DEF KillWorker, Destroy
<1>31. ASSUME NEW w \in Workers, CancelWorker(w) PROVE PoolInv'
  BY <1>31 DEF CancelWorker
<1>32. ASSUME NEW w \in Workers, DispatchToIdle(w) PROVE PoolInv'
  BY <1>32 DEF DispatchToIdle, Launch, LoopEnd, Idle
<1>33. ASSUME NEW w \in Workers, DispatchToNew(w) PROVE PoolInv'
  BY <1>33 DEF DispatchToNew, Launch, LoopEnd, Idle
<1>34. ASSUME NEW w \in Workers, DrainKill(w) PROVE PoolInv'
  BY <1>34 DEF DrainKill
<1>35. ASSUME NEW w \in Workers, DrainRemove(w) PROVE PoolInv'
  BY <1>35 DEF DrainRemove, Destroy
<1>36. ASSUME NEW S \in SUBSET Workers, ManagerBegin(S) PROVE PoolInv'
  BY <1>36 DEF ManagerBegin, Live, Expired
<1>37. ASSUME NEW S \in SUBSET Workers, RebootEnd(S) PROVE PoolInv'
  BY <1>37 DEF RebootEnd, Construct, Created
<1>38. ASSUME NEW m \in PaySystems, ReConfStep(m) PROVE PoolInv'
  BY <1>38 DEF ReConfStep
<1>39. CASE UNCHANGED vars
  BY <1>39
<1>40. QED
  BY <1>1, <1>2, <1>3, <1>4, <1>5, <1>6, <1>7, <1>8, <1>9, <1>10, <1>11, <1>12, <1>13, <1>14, <1>15, <1>16, <1>17, <1>18, <1>19, <1>20, <1>21, <1>22, <1>23, <1>24, <1>25, <1>26, <1>27, <1>28, <1>29, <1>30, <1>31, <1>32, <1>33, <1>34, <1>35, <1>36, <1>37, <1>38, <1>39
  DEF Next, MainStep, WorkerStep, Command, Stopped

\* The daemon starts with an idle pool.
LEMMA PoolInit == Init => TypeOK /\ PoolInv
<1> SUFFICES ASSUME Init PROVE TypeOK /\ PoolInv
  OBVIOUS
<1> USE PoolConstants DEF Init
<1>1. TypeOK
  <2>1. /\ workers_list \subseteq Workers /\ free_worker \in Workers \cup {NULL}
        /\ thread \in [Workers -> Phases]
    BY DEF Phases
  <2>2. working \in BOOLEAN /\ quit \in BOOLEAN /\ force_quit \in BOOLEAN
    BY Zenon
  <2>3. working_state \in BOOLEAN /\ cancel_pays \in BOOLEAN
    BY Zenon
  <2> QED BY <2>1, <2>2, <2>3 DEF TypeOK, Locks, Fates, MainPhases
<1>2. ListInv /\ SemInv /\ KilledInv /\ FateInv
  BY <1>1 DEF TypeOK, Busy, ListAlive, ListInv, SemInv, KilledInv, FateInv, Working
<1>3. FreeWorkerReady /\ LockHolderAlive /\ PayHasOneOwner
  BY <1>1 DEF TypeOK, Busy, FreeWorkerReady, LockHolderAlive, PayHasOneOwner, Serving
<1> QED BY <1>1, <1>2, <1>3 DEF PoolInv

\* The inductive invariant holds in every reachable state of the pool.
THEOREM PoolCorrect == Spec => [](TypeOK /\ PoolInv)
<1>1. TypeOK /\ PoolInv /\ [Next]_vars => (TypeOK /\ PoolInv)'
  BY TypeStep, PoolStep
<1> QED BY PoolInit, <1>1, PTL DEF Spec

\* Type correctness of the pool (namespace.h, worker.h, main.cpp).
THEOREM PoolTypeCorrect == Spec => []TypeOK
BY PoolCorrect, PTL

\* SetFreeWorker's contract: whenever main dispatches, free_worker is NULL or an
\* idle, live, listed worker.
THEOREM FreeWorkerAlwaysReady == Spec => []FreeWorkerReady
<1>1. PoolInv => FreeWorkerReady
  BY DEF PoolInv
<1> QED BY PoolCorrect, <1>1, PTL

\* No thread exits, is killed or is deleted while it holds free_workers_lock, so
\* the exit of WorkEx that keeps the lock (pay==NULL) is never taken.
THEOREM LockHolderAlwaysAlive == Spec => []LockHolderAlive
<1>1. PoolInv => LockHolderAlive
  BY DEF PoolInv
<1> QED BY PoolCorrect, <1>1, PTL

\* Every accepted pay has exactly one owner, and that owner has been woken for it.
THEOREM PayAlwaysHasOneOwner == Spec => []PayHasOneOwner
<1>1. PoolInv => PayHasOneOwner
  BY DEF PoolInv
<1> QED BY PoolCorrect, <1>1, PTL

-----------------------------------------------------------------------------
(* Counting: thread_max and working_workers.                               *)

BusySet == {w \in workers_list : Busy(w)}
CountInv == PoolBounded /\ BusyCounted

\* Launch, FinishPay and KILL are the only steps that change the set of busy
\* workers, by one, and each adjusts working_workers by one.
LEMMA CountStep == TypeOK /\ TypeOK' /\ PoolInv /\ CountInv /\ [Next]_vars => CountInv'
<1> SUFFICES ASSUME TypeOK, TypeOK', PoolInv, CountInv, [Next]_vars PROVE CountInv'
  OBVIOUS
<1> DEFINE FiniteSets == /\ IsFiniteSet(workers_list) /\ IsFiniteSet(workers_list')
                        /\ IsFiniteSet(BusySet) /\ IsFiniteSet(BusySet')
<1>f. FiniteSets
  BY PoolConstants, FS_Subset DEF TypeOK, BusySet
<1>s. ASSUME workers_list' \subseteq workers_list, BusyCounted' PROVE CountInv'
  <2>1. Cardinality(workers_list') <= Cardinality(workers_list)
    BY <1>f, <1>s, FS_Subset DEF FiniteSets
  <2>2. Cardinality(workers_list') \in Nat /\ Cardinality(workers_list) \in Nat
    BY <1>f, FS_CardinalityType DEF FiniteSets
  <2> QED BY <1>s, <2>1, <2>2, PoolConstants DEF CountInv, PoolBounded
<1>u. ASSUME UNCHANGED <<workers_list, pay, working_workers>>, Serving' => Serving PROVE CountInv'
  BY <1>u DEF CountInv, PoolBounded, BusyCounted, Busy, Serving
<1> HIDE DEF FiniteSets
<1> USE DEF vars, poolVars, modeVars, workerVars, mainVars, payVars, adminVars, workerFrame, IsFree
<1>1. ASSUME PollRetry PROVE CountInv'
  BY <1>1, <1>u DEF Serving, PollRetry
<1>2. ASSUME PollNothing PROVE CountInv'
  BY <1>2, <1>u DEF Serving, PollNothing, Available
<1>3. ASSUME DispatchFails PROVE CountInv'
  BY <1>3, <1>u DEF Serving, DispatchFails
<1>4. ASSUME Tick PROVE CountInv'
  BY <1>4, <1>u DEF Serving, Tick, LoopEnd
<1>5. ASSUME ManagerEnd PROVE CountInv'
  <2>1. BusySet' = BusySet /\ working_workers' = working_workers /\ Serving
    BY <1>5, PoolConstants DEF TypeOK, ManagerEnd, Destroy, PoolInv, KilledInv, BusySet, Busy, Serving
  <2>2. BusyCounted'
    BY <2>1 DEF CountInv, BusyCounted, BusySet
  <2>3. workers_list' \subseteq workers_list
    BY <1>5 DEF ManagerEnd, Destroy
  <2> QED BY <2>2, <2>3, <1>s
<1>6. ASSUME DrainRemoveNone PROVE CountInv'
  BY <1>6, <1>u DEF Serving, DrainRemoveNone
<1>7. ASSUME DrainEnd PROVE CountInv'
  BY <1>7, <1>u DEF Serving, DrainEnd
<1>8. ASSUME Exit PROVE CountInv'
  BY <1>8, <1>u DEF Serving, Exit
<1>9. ASSUME RebootBegin PROVE CountInv'
  BY <1>9, <1>u DEF Serving, RebootBegin
<1>10. ASSUME CommandOnDeadList PROVE CountInv'
  BY <1>10, <1>u DEF Serving, CommandOnDeadList
<1>11. ASSUME ReConfBegin PROVE CountInv'
  BY <1>11, <1>u DEF Serving, ReConfBegin
<1>12. ASSUME Shutdown PROVE CountInv'
  BY <1>12, <1>u DEF Serving, Shutdown
<1>13. ASSUME SigTerm PROVE CountInv'
  BY <1>13, <1>u DEF Serving, SigTerm
<1>14. ASSUME Reboot PROVE CountInv'
  BY <1>14, <1>u DEF Serving, Reboot
<1>15. ASSUME NEW p \in Pays, PollTake(p) PROVE CountInv'
  BY <1>15, <1>u DEF Serving, PollTake, Available
<1>16. ASSUME NEW p \in Pays, Arrive(p) PROVE CountInv'
  BY <1>16, <1>u DEF Serving, Arrive
<1>17. ASSUME NEW w \in Workers, Wake(w) PROVE CountInv'
  BY <1>17, <1>u DEF Serving, Wake, To
<1>18. ASSUME NEW w \in Workers, Start(w) PROVE CountInv'
  BY <1>18, <1>u DEF Serving, Start, To
<1>19. ASSUME NEW w \in Workers, ClaimPaySys(w) PROVE CountInv'
  BY <1>19, <1>u DEF Serving, ClaimPaySys, To, Take
<1>20. ASSUME NEW w \in Workers, ClaimOperator(w) PROVE CountInv'
  BY <1>20, <1>u DEF Serving, ClaimOperator, To, Take
<1>21. ASSUME NEW w \in Workers, SkipValidator(w) PROVE CountInv'
  BY <1>21, <1>u DEF Serving, SkipValidator, To
<1>22. ASSUME NEW w \in Workers, LockValidator(w) PROVE CountInv'
  BY <1>22, <1>u DEF Serving, LockValidator, To, Take
<1>23. ASSUME NEW w \in Workers, Validate(w) PROVE CountInv'
  BY <1>23, <1>u DEF Serving, Validate, To
<1>24. ASSUME NEW w \in Workers, Settle(w) PROVE CountInv'
  BY <1>24, <1>u DEF Serving, Settle, To, ReleaseRoute
<1>25. ASSUME NEW w \in Workers, SettleWarning(w) PROVE CountInv'
  BY <1>25, <1>u DEF Serving, SettleWarning, To
<1>26. ASSUME NEW w \in Workers, InitPay(w) PROVE CountInv'
  BY <1>26, <1>u DEF Serving, InitPay, To, ReleaseRoute
<1>27. ASSUME NEW w \in Workers, SendPay(w) PROVE CountInv'
  BY <1>27, <1>u DEF Serving, SendPay, To
<1>28. ASSUME NEW w \in Workers, DBSetState(w) PROVE CountInv'
  BY <1>28, <1>u DEF Serving, DBSetState, To
<1>29. ASSUME NEW w \in Workers, Finish(w) PROVE CountInv'
  <2>1. /\ BusySet' = BusySet \ {w} /\ w \in BusySet
        /\ working_workers' = working_workers - 1 /\ (Serving' <=> Serving)
    BY <1>29, PoolConstants DEF TypeOK, Finish, To, PoolInv, ListInv, SemInv, Working, BusySet, Busy, Serving, mainVars
  <2>2. Cardinality(BusySet') = Cardinality(BusySet) - 1
    BY <2>1, <1>f,  FS_RemoveElement DEF FiniteSets
  <2>3. BusyCounted'
    BY <2>1, <2>2 DEF CountInv, BusyCounted, BusySet
  <2>4. workers_list' \subseteq workers_list
    BY <1>29 DEF Finish
  <2> QED BY <2>3, <2>4, <1>s
<1>30. ASSUME NEW w \in Workers, KillWorker(w) PROVE CountInv'
  <2>1. /\ BusySet' = BusySet \ {w} /\ w \in BusySet
        /\ working_workers' = working_workers - 1 /\ (Serving' <=> Serving)
    BY <1>30, PoolConstants DEF TypeOK, KillWorker, Destroy, PoolInv, ListInv, SemInv, Working, BusySet, Busy, Serving, mainVars
  <2>2. Cardinality(BusySet') = Cardinality(BusySet) - 1
    BY <2>1, <1>f,  FS_RemoveElement DEF FiniteSets
  <2>3. BusyCounted'
    BY <2>1, <2>2 DEF CountInv, BusyCounted, BusySet
  <2>4. workers_list' \subseteq workers_list
    BY <1>30 DEF KillWorker, Destroy
  <2> QED BY <2>3, <2>4, <1>s
<1>31. ASSUME NEW w \in Workers, CancelWorker(w) PROVE CountInv'
  BY <1>31, <1>u DEF Serving, CancelWorker
<1>32. ASSUME NEW w \in Workers, DispatchToIdle(w) PROVE CountInv'
  <2>1. /\ BusySet' = BusySet \cup {w} /\ w \notin BusySet
        /\ working_workers' = working_workers + 1 /\ Serving
    BY <1>32, PoolConstants DEF TypeOK, DispatchToIdle, Launch, Idle, PoolInv, ListInv, FateInv, FreeWorkerReady, BusySet, Busy, Serving
  <2>2. Cardinality(BusySet') = Cardinality(BusySet) + 1
    BY <2>1, <1>f,  FS_AddElement DEF FiniteSets
  <2>3. BusyCounted'
    BY <2>1, <2>2 DEF CountInv, BusyCounted, BusySet
  <2>4. workers_list' = workers_list
    BY <1>32, <2>1, PoolConstants DEF TypeOK, DispatchToIdle, Launch, Idle, PoolInv, FreeWorkerReady, Serving
  <2> QED BY <2>3, <2>4 DEF CountInv, PoolBounded
<1>33. ASSUME NEW w \in Workers, DispatchToNew(w) PROVE CountInv'
  <2>1. /\ BusySet' = BusySet \cup {w} /\ w \notin BusySet
        /\ working_workers' = working_workers + 1 /\ Serving
    BY <1>33, PoolConstants DEF TypeOK, DispatchToNew, Launch, Idle, PoolInv, ListInv, FateInv, FreeWorkerReady, BusySet, Busy, Serving
  <2>2. Cardinality(BusySet') = Cardinality(BusySet) + 1
    BY <2>1, <1>f,  FS_AddElement DEF FiniteSets
  <2>3. BusyCounted'
    BY <2>1, <2>2 DEF CountInv, BusyCounted, BusySet
  <2>4. Cardinality(workers_list) < ThreadMax /\ workers_list' = workers_list \cup {w}
    BY <1>33 DEF DispatchToNew, Launch
  <2>5. Cardinality(workers_list) \in Nat /\ Cardinality(workers_list') \in Nat
    BY <1>f,  FS_CardinalityType DEF FiniteSets
  <2>6. IsFiniteSet(workers_list)
    BY <1>f DEF FiniteSets
  <2>7. Cardinality(workers_list \cup {w}) = IF w \in workers_list THEN Cardinality(workers_list)
                                             ELSE Cardinality(workers_list) + 1
    BY ONLY <2>6, FS_AddElement
  <2>8. Cardinality(workers_list') <= Cardinality(workers_list) + 1
    BY <2>4, <2>5, <2>7
  <2>9. PoolBounded'
    BY <2>4, <2>8, <2>5, PoolConstants DEF PoolBounded
  <2> QED BY <2>3, <2>9 DEF CountInv
<1>34. ASSUME NEW w \in Workers, DrainKill(w) PROVE CountInv'
  BY <1>34, <1>u DEF Serving, DrainKill
<1>35. ASSUME NEW w \in Workers, DrainRemove(w) PROVE CountInv'
  <2>1. BusyCounted'
    BY <1>35 DEF DrainRemove, BusyCounted, Serving
  <2>2. workers_list' \subseteq workers_list
    BY <1>35 DEF DrainRemove, Destroy
  <2> QED BY <2>1, <2>2, <1>s
<1>36. ASSUME NEW S \in SUBSET Workers, ManagerBegin(S) PROVE CountInv'
  BY <1>36, <1>u DEF Serving, ManagerBegin, Live, Expired
<1>37. ASSUME NEW S \in SUBSET Workers, RebootEnd(S) PROVE CountInv'
  <2>1. BusySet' = {} /\ working_workers' = 0
    BY <1>37 DEF RebootEnd, Construct, BusySet, Busy
  <2>2. BusyCounted'
    BY <2>1, FS_EmptySet DEF BusyCounted, BusySet
  <2>3. workers_list' = S /\ Cardinality(S) <= ThreadMin
    BY <1>37 DEF RebootEnd, Created
  <2>4. Cardinality(S) \in Nat
    BY <2>3, <1>f,  FS_CardinalityType DEF FiniteSets
  <2>5. PoolBounded'
    BY <2>3, <2>4, PoolConstants DEF PoolBounded
  <2> QED BY <2>2, <2>5 DEF CountInv
<1>38. ASSUME NEW m \in PaySystems, ReConfStep(m) PROVE CountInv'
  BY <1>38, <1>u DEF ReConfStep, Serving
<1>39. CASE UNCHANGED vars
  BY <1>39, <1>u DEF Serving
<1>40. QED
  BY <1>1, <1>2, <1>3, <1>4, <1>5, <1>6, <1>7, <1>8, <1>9, <1>10, <1>11, <1>12, <1>13, <1>14, <1>15, <1>16, <1>17, <1>18, <1>19, <1>20, <1>21, <1>22, <1>23, <1>24, <1>25, <1>26, <1>27, <1>28, <1>29, <1>30, <1>31, <1>32, <1>33, <1>34, <1>35, <1>36, <1>37, <1>38, <1>39
  DEF Next, MainStep, WorkerStep, Command, Stopped

\* The pool never outgrows its limit and working_workers is the number of busy
\* workers whenever the daemon serves pays.
THEOREM CountCorrect == Spec => [](PoolBounded /\ BusyCounted)
<1>1. Init => CountInv
  <2> SUFFICES ASSUME Init PROVE CountInv
    OBVIOUS
  <2> PICK S \in SUBSET Workers : Created(S) /\ workers_list = S
    BY DEF Init
  <2>1. Cardinality(S) \in Nat
    BY PoolConstants, FS_Subset, FS_CardinalityType
  <2>2. PoolBounded
    BY <2>1, PoolConstants DEF PoolBounded, Created
  <2>3. {w \in workers_list : Busy(w)} = {} /\ working_workers = 0
    BY PoolConstants DEF Init, Busy
  <2> QED BY <2>2, <2>3, FS_EmptySet DEF CountInv, BusyCounted
<1>2. TypeOK /\ PoolInv /\ (TypeOK /\ PoolInv)' /\ CountInv /\ [Next]_vars => CountInv'
  BY CountStep
<1>3. CountInv <=> PoolBounded /\ BusyCounted
  BY DEF CountInv
<1> QED BY <1>1, <1>2, <1>3, PoolCorrect, PTL DEF Spec

\* CreateWorker and the workers of WorkInit never make more than the greater of thread_min
\* and thread_max threads, although killed, failed and retired ones come and go.
THEOREM PoolAlwaysBounded == Spec => []PoolBounded
BY CountCorrect, PTL

-----------------------------------------------------------------------------
(* A pay reaches its module at most once.                                  *)

\* SendInv is preserved by every step if KILL cannot arrive.
LEMMA SendStep ==
  ASSUME "KILL" \notin Commands, TypeOK, TypeOK', PoolInv, SendInv, [Next]_vars
  PROVE  SendInv'
<1> USE PoolConstants DEF TypeOK, vars, poolVars, modeVars, workerVars, mainVars, payVars,
      adminVars, workerFrame, IsFree, Busy, ListAlive, Gone,
      Working, SendInv, SendOnce, ListInv, SemInv, FateInv, PayHasOneOwner, PoolInv, KilledInv
<1>1. ASSUME PollRetry PROVE SendInv'
  BY <1>1 DEF PollRetry
<1>2. ASSUME PollNothing PROVE SendInv'
  BY <1>2 DEF PollNothing, Available
<1>3. ASSUME DispatchFails PROVE SendInv'
  BY <1>3 DEF DispatchFails
<1>4. ASSUME Tick PROVE SendInv'
  BY <1>4 DEF Tick, LoopEnd
<1>5. ASSUME ManagerEnd PROVE SendInv'
  BY <1>5 DEF ManagerEnd, Destroy, LoopEnd
<1>6. ASSUME DrainRemoveNone PROVE SendInv'
  BY <1>6 DEF DrainRemoveNone
<1>7. ASSUME DrainEnd PROVE SendInv'
  BY <1>7 DEF DrainEnd
<1>8. ASSUME Exit PROVE SendInv'
  BY <1>8 DEF Exit
<1>9. ASSUME RebootBegin PROVE SendInv'
  BY <1>9 DEF RebootBegin
<1>10. ASSUME CommandOnDeadList PROVE SendInv'
  BY <1>10 DEF CommandOnDeadList
<1>11. ASSUME ReConfBegin PROVE SendInv'
  BY <1>11 DEF ReConfBegin
<1>12. ASSUME Shutdown PROVE SendInv'
  BY <1>12 DEF Shutdown
<1>13. ASSUME SigTerm PROVE SendInv'
  BY <1>13 DEF SigTerm
<1>14. ASSUME Reboot PROVE SendInv'
  BY <1>14 DEF Reboot
<1>15. ASSUME NEW p \in Pays, PollTake(p) PROVE SendInv'
  BY <1>15 DEF PollTake, Available
<1>16. ASSUME NEW p \in Pays, Arrive(p) PROVE SendInv'
  BY <1>16 DEF Arrive
<1>17. ASSUME NEW w \in Workers, Wake(w) PROVE SendInv'
  BY <1>17 DEF Wake, To
<1>18. ASSUME NEW w \in Workers, Start(w) PROVE SendInv'
  BY <1>18 DEF Start, To
<1>19. ASSUME NEW w \in Workers, ClaimPaySys(w) PROVE SendInv'
  BY <1>19 DEF ClaimPaySys, To, Take
<1>20. ASSUME NEW w \in Workers, ClaimOperator(w) PROVE SendInv'
  BY <1>20 DEF ClaimOperator, To, Take
<1>21. ASSUME NEW w \in Workers, SkipValidator(w) PROVE SendInv'
  BY <1>21 DEF SkipValidator, To
<1>22. ASSUME NEW w \in Workers, LockValidator(w) PROVE SendInv'
  BY <1>22 DEF LockValidator, To, Take
<1>23. ASSUME NEW w \in Workers, Validate(w) PROVE SendInv'
  BY <1>23 DEF Validate, To
<1>24. ASSUME NEW w \in Workers, Settle(w) PROVE SendInv'
  BY <1>24 DEF Settle, To, ReleaseRoute
<1>25. ASSUME NEW w \in Workers, SettleWarning(w) PROVE SendInv'
  BY <1>25 DEF SettleWarning, To
<1>26. ASSUME NEW w \in Workers, InitPay(w) PROVE SendInv'
  BY <1>26 DEF InitPay, To, ReleaseRoute
<1>27. ASSUME NEW w \in Workers, SendPay(w) PROVE SendInv'
  BY <1>27 DEF SendPay, To
<1>28. ASSUME NEW w \in Workers, DBSetState(w) PROVE SendInv'
  BY <1>28 DEF DBSetState, To
<1>29. ASSUME NEW w \in Workers, Finish(w) PROVE SendInv'
  BY <1>29 DEF Finish, To
<1>30. ASSUME NEW w \in Workers, KillWorker(w) PROVE SendInv'
  BY <1>30 DEF KillWorker, Destroy
<1>31. ASSUME NEW w \in Workers, CancelWorker(w) PROVE SendInv'
  BY <1>31 DEF CancelWorker
<1>32. ASSUME NEW w \in Workers, DispatchToIdle(w) PROVE SendInv'
  BY <1>32 DEF DispatchToIdle, Launch, LoopEnd, Idle
<1>33. ASSUME NEW w \in Workers, DispatchToNew(w) PROVE SendInv'
  BY <1>33 DEF DispatchToNew, Launch, LoopEnd, Idle
<1>34. ASSUME NEW w \in Workers, DrainKill(w) PROVE SendInv'
  BY <1>34 DEF DrainKill
<1>35. ASSUME NEW w \in Workers, DrainRemove(w) PROVE SendInv'
  BY <1>35 DEF DrainRemove, Destroy
<1>36. ASSUME NEW S \in SUBSET Workers, ManagerBegin(S) PROVE SendInv'
  BY <1>36 DEF ManagerBegin, Live, Expired
<1>37. ASSUME NEW S \in SUBSET Workers, RebootEnd(S) PROVE SendInv'
  BY <1>37 DEF RebootEnd, Construct, Created
<1>38. ASSUME NEW m \in PaySystems, ReConfStep(m) PROVE SendInv'
  BY <1>38 DEF ReConfStep
<1>39. CASE UNCHANGED vars
  BY <1>39
<1>40. QED
  BY <1>1, <1>2, <1>3, <1>4, <1>5, <1>6, <1>7, <1>8, <1>9, <1>10, <1>11, <1>12, <1>13, <1>14, <1>15, <1>16, <1>17, <1>18, <1>19, <1>20, <1>21, <1>22, <1>23, <1>24, <1>25, <1>26, <1>27, <1>28, <1>29, <1>30, <1>31, <1>32, <1>33, <1>34, <1>35, <1>36, <1>37, <1>38, <1>39
  DEF Next, MainStep, WorkerStep, Command, Stopped

\* However shutdowns, reboots, cancellations and thread failures interleave, no pay
\* is handed to its module twice, as long as the administrator kills none.
THEOREM PaySentOnce == ASSUME "KILL" \notin Commands PROVE Spec => []SendOnce
<1>1. Init => SendInv
  BY PoolConstants DEF Init, SendInv, SendOnce, Busy
<1>2. TypeOK /\ PoolInv /\ (TypeOK /\ PoolInv)' /\ SendInv /\ [Next]_vars => SendInv'
  BY SendStep
<1>3. SendInv => SendOnce
  BY DEF SendInv
<1> QED BY <1>1, <1>2, <1>3, PoolCorrect, PTL DEF Spec

-----------------------------------------------------------------------------
(* The read locks of modules and operators.                                *)

\* Phases with a read lock; the locks that worker w has in its phase; the readers of a lock.
Reading == {"claimop", "vlock", "validate", "decide"}
Reads(w, l) == thread[w] \in Reading /\ PaySysOf[pay[w]] = l
ReadsOper(w, l) == thread[w] \in Reading \ {"claimop"} /\ OperOf[pay[w]] = l
ReadsVal(w, l) == thread[w] = "validate" /\ Validator = l
SysReaders(l) == {w \in Workers : Reads(w, l)}
OperReaders(l) == {w \in Workers : ReadsOper(w, l)}
ValReaders(l) == {w \in Workers : ReadsVal(w, l)}

\* The other workers stay where they are; no worker takes or gives back a read lock.
Others(w) == \A u \in Workers : u # w => thread'[u] = thread[u] /\ pay'[u] = pay[u]
Quiet == \A u \in Workers :
  \/ thread'[u] = thread[u] /\ pay'[u] = pay[u]
  \/ thread[u] \notin Reading /\ thread'[u] \notin Reading

\* A member more or less.
One(b) == IF b THEN 1 ELSE 0

\* Two sets of workers that differ at most in w.
LEMMA Differing ==
  ASSUME NEW P \in SUBSET Workers, NEW Q \in SUBSET Workers, NEW w \in Workers, P \ {w} = Q \ {w}
  PROVE  /\ Cardinality(P) \in Nat
         /\ Cardinality(Q) = Cardinality(P) - One(w \in P) + One(w \in Q)
<1>1. IsFiniteSet(P) /\ Cardinality(P) \in Nat /\ IsFiniteSet(Q)
  BY PoolConstants, FS_Subset, FS_CardinalityType
<1>2. Q = IF w \in Q THEN P \cup {w} ELSE P \ {w}
  OBVIOUS
<1>3. Cardinality(P \cup {w}) = IF w \in P THEN Cardinality(P) ELSE Cardinality(P) + 1
  BY <1>1, FS_AddElement
<1>4. Cardinality(P \ {w}) = IF w \in P THEN Cardinality(P) - 1 ELSE Cardinality(P)
  BY <1>1, FS_RemoveElement
<1>5. CASE w \in Q
  <2>1. Q = P \cup {w}
    BY <1>2, <1>5
  <2>2. Cardinality(Q) = IF w \in P THEN Cardinality(P) ELSE Cardinality(P) + 1
    BY <1>3, <2>1
  <2> QED BY <1>1, <1>5, <2>2 DEF One
<1>6. CASE w \notin Q
  BY <1>1, <1>2, <1>4, <1>6 DEF One
<1> QED BY <1>5, <1>6

\* The readers of a lock after a step of worker w.
LEMMA ReaderMoves ==
  ASSUME NEW w \in Workers, Others(w), NEW l
  PROVE  /\ Holding(l) \in Nat
         /\ Holding(l)' = Holding(l) - One(Reads(w, l)) + One(Reads(w, l)')
                                     - One(ReadsOper(w, l)) + One(ReadsOper(w, l)')
                                     - One(ReadsVal(w, l)) + One(ReadsVal(w, l)')
<1> DEFINE S == SysReaders(l)
           O == OperReaders(l)
           V == ValReaders(l)
<1>1. /\ S \in SUBSET Workers /\ S' \in SUBSET Workers /\ S \ {w} = S' \ {w}
      /\ (w \in S <=> Reads(w, l)) /\ (w \in S' <=> Reads(w, l)')
  BY DEF Others, SysReaders, Reads
<1>2. /\ O \in SUBSET Workers /\ O' \in SUBSET Workers /\ O \ {w} = O' \ {w}
      /\ (w \in O <=> ReadsOper(w, l)) /\ (w \in O' <=> ReadsOper(w, l)')
  BY DEF Others, OperReaders, ReadsOper
<1>3. /\ V \in SUBSET Workers /\ V' \in SUBSET Workers /\ V \ {w} = V' \ {w}
      /\ (w \in V <=> ReadsVal(w, l)) /\ (w \in V' <=> ReadsVal(w, l)')
  BY DEF Others, ValReaders, ReadsVal
<1>4. Holding(l) = Cardinality(S) + Cardinality(O) + Cardinality(V)
  BY DEF Holding, SysReaders, OperReaders, ValReaders, Reads, ReadsOper, ReadsVal, Reading
<1>5. Holding(l)' = Cardinality(S') + Cardinality(O') + Cardinality(V')
  BY DEF Holding, SysReaders, OperReaders, ValReaders, Reads, ReadsOper, ReadsVal, Reading
<1> HIDE DEF S, O, V
<1>6. /\ Cardinality(S) \in Nat
      /\ Cardinality(S') = Cardinality(S) - One(Reads(w, l)) + One(Reads(w, l)')
  BY <1>1, Differing DEF One
<1>7. /\ Cardinality(O) \in Nat
      /\ Cardinality(O') = Cardinality(O) - One(ReadsOper(w, l)) + One(ReadsOper(w, l)')
  BY <1>2, Differing DEF One
<1>8. /\ Cardinality(V) \in Nat
      /\ Cardinality(V') = Cardinality(V) - One(ReadsVal(w, l)) + One(ReadsVal(w, l)')
  BY <1>3, Differing DEF One
<1> QED BY <1>4, <1>5, <1>6, <1>7, <1>8 DEF One

\* Units that are free or with a reader: as many as before, or fewer.
Kept == \A l \in Locks : main_lock'[l] + Holding(l)' = main_lock[l] + Holding(l)
Fewer == \A l \in Locks : main_lock'[l] + Holding(l)' <= main_lock[l] + Holding(l)

\* The steps that end a thread, or a pay, with its read locks taken.
Loses == \E w \in Workers :
  KillWorker(w) \/ SettleWarning(w) \/ (DrainRemove(w) /\ w # join_target)

\* A worker stops reading without giving a unit back.
LEMMA UnitsLost ==
  ASSUME NEW w \in Workers, Others(w), UNCHANGED main_lock, thread'[w] \notin Reading, main_lock \in [Locks -> Nat]
  PROVE  Fewer
<1>1. ASSUME NEW l \in Locks PROVE main_lock'[l] + Holding(l)' <= main_lock[l] + Holding(l)
  <2>1. ~Reads(w, l)' /\ ~ReadsOper(w, l)' /\ ~ReadsVal(w, l)'
    BY DEF Reads, ReadsOper, ReadsVal, Reading
  <2>2. /\ Holding(l) \in Nat
        /\ Holding(l)' = Holding(l) - One(Reads(w, l)) + One(Reads(w, l)')
                                    - One(ReadsOper(w, l)) + One(ReadsOper(w, l)')
                                    - One(ReadsVal(w, l)) + One(ReadsVal(w, l)')
    BY ReaderMoves
  <2>3. main_lock[l] \in Nat
    OBVIOUS
  <2> QED BY <2>1, <2>2, <2>3 DEF One
<1> QED BY <1>1 DEF Fewer

\* Every LockRead of WorkEx has its UnLockRead, except where a thread is cancelled, is
\* removed in the place of another, or takes the branch of a validator's warning; a
\* restart makes new locks.
LEMMA LockUnits ==
  ASSUME TypeOK, PoolInv, [Next]_vars
  PROVE  Kept \/ (Fewer /\ Loses) \/ ReadLocksBalanced'
<1>t. /\ thread \in [Workers -> Phases] /\ pay \in [Workers -> Pays \cup {NULL}]
      /\ main_lock \in [Locks -> Nat]
  BY DEF TypeOK
<1>p. \A w \in Workers : thread[w] \in Working => pay[w] \in Pays
  BY PoolConstants DEF TypeOK, PoolInv, ListInv, SemInv, Working, Busy
<1>c. Validator \in PaySystems /\ PaySystems \cap Operators = {} /\ NULL \notin PaySystems \cup Operators
  BY PoolConstants DEF Locks
<1>i. \A w \in workers_list : ~Busy(w) => thread[w] \in {"wait", "exited"}
  BY <1>t DEF TypeOK, PoolInv, ListInv, SemInv, Working, Phases
<1>f. main_pc = "dispatch" /\ free_worker # NULL => free_worker \in workers_list /\ ~Busy(free_worker)
  BY DEF PoolInv, FreeWorkerReady, Serving
<1>q. ASSUME Quiet, UNCHANGED main_lock PROVE Kept
  <2>1. ASSUME NEW l \in Locks PROVE Holding(l)' = Holding(l)
    <3>1. \A u \in Workers : Reads(u, l)' = Reads(u, l) /\ ReadsOper(u, l)' = ReadsOper(u, l)
                             /\ ReadsVal(u, l)' = ReadsVal(u, l)
      BY <1>q DEF Quiet, Reads, ReadsOper, ReadsVal, Reading
    <3>2. SysReaders(l)' = SysReaders(l) /\ OperReaders(l)' = OperReaders(l) /\ ValReaders(l)' = ValReaders(l)
      BY <3>1 DEF SysReaders, OperReaders, ValReaders
    <3> QED BY <3>2 DEF Holding, SysReaders, OperReaders, ValReaders, Reads, ReadsOper, ReadsVal, Reading
  <2> QED BY <1>q, <2>1 DEF Kept
<1>s. ASSUME UNCHANGED <<thread, pay, main_lock>> PROVE Kept
  BY <1>s, <1>q DEF Quiet
<1> USE DEF poolVars, modeVars, workerVars, mainVars, payVars, adminVars, workerFrame
<1>1. ASSUME PollRetry PROVE Kept
  BY <1>1, <1>s DEF PollRetry
<1>2. ASSUME PollNothing PROVE Kept
  BY <1>2, <1>s DEF PollNothing
<1>3. ASSUME DispatchFails PROVE Kept
  BY <1>3, <1>s DEF DispatchFails
<1>4. ASSUME Tick PROVE Kept
  BY <1>4, <1>s DEF Tick
<1>5. ASSUME ManagerEnd PROVE Kept
  <2>1. Quiet
    BY <1>5, <1>t DEF ManagerEnd, Destroy, Quiet, Reading
  <2> QED BY <1>5, <1>q, <2>1 DEF ManagerEnd
<1>6. ASSUME DrainRemoveNone PROVE Kept
  BY <1>6, <1>s DEF DrainRemoveNone
<1>7. ASSUME DrainEnd PROVE Kept
  BY <1>7, <1>s DEF DrainEnd
<1>8. ASSUME Exit PROVE Kept
  BY <1>8, <1>s DEF Exit
<1>9. ASSUME RebootBegin PROVE Kept
  BY <1>9, <1>s DEF RebootBegin
<1>10. ASSUME CommandOnDeadList PROVE Kept
  BY <1>10, <1>s DEF CommandOnDeadList
<1>11. ASSUME ReConfBegin PROVE Kept
  BY <1>11, <1>s DEF ReConfBegin
<1>12. ASSUME Shutdown PROVE Kept
  BY <1>12, <1>s DEF Shutdown
<1>13. ASSUME SigTerm PROVE Kept
  BY <1>13, <1>s DEF SigTerm
<1>14. ASSUME Reboot PROVE Kept
  BY <1>14, <1>s DEF Reboot
<1>15. ASSUME NEW p \in Pays, PollTake(p) PROVE Kept
  BY <1>15, <1>s DEF PollTake
<1>16. ASSUME NEW p \in Pays, Arrive(p) PROVE Kept
  BY <1>16, <1>s DEF Arrive
<1>17. ASSUME NEW w \in Workers, Wake(w) PROVE Kept
  <2>1. Quiet
    BY <1>17, <1>t DEF Wake, To, Quiet, Reading
  <2> QED BY <1>17, <1>q, <2>1 DEF Wake
<1>18. ASSUME NEW w \in Workers, Start(w) PROVE Kept
  <2>1. Quiet
    BY <1>18, <1>t DEF Start, To, Quiet, Reading
  <2> QED BY <1>18, <1>q, <2>1 DEF Start
<1>19. ASSUME NEW w \in Workers, ClaimPaySys(w) PROVE Kept
  <2>1. thread[w] \in Working /\ pay[w] \in Pays /\ Others(w)
    BY <1>19, <1>t, <1>p DEF ClaimPaySys, To, Others, Working
  <2>2. PaySysOf[pay[w]] \in PaySystems /\ OperOf[pay[w]] \in Operators \cup {NULL}
    BY <2>1, PoolConstants
  <2>5. ASSUME NEW l \in Locks PROVE main_lock'[l] + Holding(l)' = main_lock[l] + Holding(l)
    <3>1. /\ (Reads(w, l) <=> FALSE) /\ (Reads(w, l)' <=> PaySysOf[pay[w]] = l)
          /\ (ReadsOper(w, l) <=> FALSE) /\ (ReadsOper(w, l)' <=> FALSE)
          /\ (ReadsVal(w, l) <=> FALSE) /\ (ReadsVal(w, l)' <=> FALSE)
      BY <1>19, <1>t, <2>1, PoolConstants DEF ClaimPaySys, To, Reads, ReadsOper, ReadsVal, Reading
    <3>2. main_lock'[l] = main_lock[l] - (IF PaySysOf[pay[w]] = l THEN 1 ELSE 0)
      BY <1>19, <1>t, <1>c, <2>1, <2>2, <3>1 DEF ClaimPaySys, Take, ReleaseRoute, Locks
    <3>3. main_lock[l] \in Nat
      BY <1>t
    <3>4. /\ Holding(l) \in Nat
          /\ Holding(l)' = Holding(l) - One(Reads(w, l)) + One(Reads(w, l)')
                                      - One(ReadsOper(w, l)) + One(ReadsOper(w, l)')
                                      - One(ReadsVal(w, l)) + One(ReadsVal(w, l)')
      BY <2>1, ReaderMoves
    <3> QED BY <3>1, <3>2, <3>3, <3>4 DEF One
  <2> QED BY <2>5 DEF Kept
<1>20. ASSUME NEW w \in Workers, ClaimOperator(w) PROVE Kept
  <2>1. thread[w] \in Working /\ pay[w] \in Pays /\ Others(w)
    BY <1>20, <1>t, <1>p DEF ClaimOperator, To, Others, Working
  <2>2. PaySysOf[pay[w]] \in PaySystems /\ OperOf[pay[w]] \in Operators \cup {NULL}
    BY <2>1, PoolConstants
  <2>5. ASSUME NEW l \in Locks PROVE main_lock'[l] + Holding(l)' = main_lock[l] + Holding(l)
    <3>1. /\ (Reads(w, l) <=> PaySysOf[pay[w]] = l) /\ (Reads(w, l)' <=> PaySysOf[pay[w]] = l)
          /\ (ReadsOper(w, l) <=> FALSE) /\ (ReadsOper(w, l)' <=> OperOf[pay[w]] = l)
          /\ (ReadsVal(w, l) <=> FALSE) /\ (ReadsVal(w, l)' <=> FALSE)
      BY <1>20, <1>t, <2>1, PoolConstants DEF ClaimOperator, To, Reads, ReadsOper, ReadsVal, Reading
    <3>2. main_lock'[l] = main_lock[l] - (IF OperOf[pay[w]] = l THEN 1 ELSE 0)
      BY <1>20, <1>t, <1>c, <2>1, <2>2, <3>1 DEF ClaimOperator, Take, ReleaseRoute, Locks
    <3>3. main_lock[l] \in Nat
      BY <1>t
    <3>4. /\ Holding(l) \in Nat
          /\ Holding(l)' = Holding(l) - One(Reads(w, l)) + One(Reads(w, l)')
                                      - One(ReadsOper(w, l)) + One(ReadsOper(w, l)')
                                      - One(ReadsVal(w, l)) + One(ReadsVal(w, l)')
      BY <2>1, ReaderMoves
    <3> QED BY <3>1, <3>2, <3>3, <3>4 DEF One
  <2> QED BY <2>5 DEF Kept
<1>21. ASSUME NEW w \in Workers, SkipValidator(w) PROVE Kept
  <2>1. thread[w] \in Working /\ pay[w] \in Pays /\ Others(w)
    BY <1>21, <1>t, <1>p DEF SkipValidator, To, Others, Working
  <2>2. PaySysOf[pay[w]] \in PaySystems /\ OperOf[pay[w]] \in Operators \cup {NULL}
    BY <2>1, PoolConstants
  <2>5. ASSUME NEW l \in Locks PROVE main_lock'[l] + Holding(l)' = main_lock[l] + Holding(l)
    <3>1. /\ (Reads(w, l) <=> PaySysOf[pay[w]] = l) /\ (Reads(w, l)' <=> PaySysOf[pay[w]] = l)
          /\ (ReadsOper(w, l) <=> OperOf[pay[w]] = l) /\ (ReadsOper(w, l)' <=> OperOf[pay[w]] = l)
          /\ (ReadsVal(w, l) <=> FALSE) /\ (ReadsVal(w, l)' <=> FALSE)
      BY <1>21, <1>t, <2>1, PoolConstants DEF SkipValidator, To, Reads, ReadsOper, ReadsVal, Reading
    <3>2. main_lock'[l] = main_lock[l]
      BY <1>21, <1>t, <1>c, <2>1, <2>2, <3>1 DEF SkipValidator, Take, ReleaseRoute, Locks
    <3>3. main_lock[l] \in Nat
      BY <1>t
    <3>4. /\ Holding(l) \in Nat
          /\ Holding(l)' = Holding(l) - One(Reads(w, l)) + One(Reads(w, l)')
                                      - One(ReadsOper(w, l)) + One(ReadsOper(w, l)')
                                      - One(ReadsVal(w, l)) + One(ReadsVal(w, l)')
      BY <2>1, ReaderMoves
    <3> QED BY <3>1, <3>2, <3>3, <3>4 DEF One
  <2> QED BY <2>5 DEF Kept
<1>22. ASSUME NEW w \in Workers, LockValidator(w) PROVE Kept
  <2>1. thread[w] \in Working /\ pay[w] \in Pays /\ Others(w)
    BY <1>22, <1>t, <1>p DEF LockValidator, To, Others, Working
  <2>2. PaySysOf[pay[w]] \in PaySystems /\ OperOf[pay[w]] \in Operators \cup {NULL}
    BY <2>1, PoolConstants
  <2>5. ASSUME NEW l \in Locks PROVE main_lock'[l] + Holding(l)' = main_lock[l] + Holding(l)
    <3>1. /\ (Reads(w, l) <=> PaySysOf[pay[w]] = l) /\ (Reads(w, l)' <=> PaySysOf[pay[w]] = l)
          /\ (ReadsOper(w, l) <=> OperOf[pay[w]] = l) /\ (ReadsOper(w, l)' <=> OperOf[pay[w]] = l)
          /\ (ReadsVal(w, l) <=> FALSE) /\ (ReadsVal(w, l)' <=> Validator = l)
      BY <1>22, <1>t, <2>1, PoolConstants DEF LockValidator, To, Reads, ReadsOper, ReadsVal, Reading
    <3>2. main_lock'[l] = main_lock[l] - (IF Validator = l THEN 1 ELSE 0)
      BY <1>22, <1>t, <1>c, <2>1, <2>2, <3>1 DEF LockValidator, Take, ReleaseRoute, Locks
    <3>3. main_lock[l] \in Nat
      BY <1>t
    <3>4. /\ Holding(l) \in Nat
          /\ Holding(l)' = Holding(l) - One(Reads(w, l)) + One(Reads(w, l)')
                                      - One(ReadsOper(w, l)) + One(ReadsOper(w, l)')
                                      - One(ReadsVal(w, l)) + One(ReadsVal(w, l)')
      BY <2>1, ReaderMoves
    <3> QED BY <3>1, <3>2, <3>3, <3>4 DEF One
  <2> QED BY <2>5 DEF Kept
<1>23. ASSUME NEW w \in Workers, Validate(w) PROVE Kept
  <2>1. thread[w] \in Working /\ pay[w] \in Pays /\ Others(w)
    BY <1>23, <1>t, <1>p DEF Validate, To, Others, Working
  <2>2. PaySysOf[pay[w]] \in PaySystems /\ OperOf[pay[w]] \in Operators \cup {NULL}
    BY <2>1, PoolConstants
  <2>5. ASSUME NEW l \in Locks PROVE main_lock'[l] + Holding(l)' = main_lock[l] + Holding(l)
    <3>1. /\ (Reads(w, l) <=> PaySysOf[pay[w]] = l) /\ (Reads(w, l)' <=> PaySysOf[pay[w]] = l)
          /\ (ReadsOper(w, l) <=> OperOf[pay[w]] = l) /\ (ReadsOper(w, l)' <=> OperOf[pay[w]] = l)
          /\ (ReadsVal(w, l) <=> Validator = l) /\ (ReadsVal(w, l)' <=> FALSE)
      BY <1>23, <1>t, <2>1, PoolConstants DEF Validate, To, Reads, ReadsOper, ReadsVal, Reading
    <3>2. main_lock'[l] = main_lock[l] + (IF Validator = l THEN 1 ELSE 0)
      BY <1>23, <1>t, <1>c, <2>1, <2>2, <3>1 DEF Validate, Take, ReleaseRoute, Locks
    <3>3. main_lock[l] \in Nat
      BY <1>t
    <3>4. /\ Holding(l) \in Nat
          /\ Holding(l)' = Holding(l) - One(Reads(w, l)) + One(Reads(w, l)')
                                      - One(ReadsOper(w, l)) + One(ReadsOper(w, l)')
                                      - One(ReadsVal(w, l)) + One(ReadsVal(w, l)')
      BY <2>1, ReaderMoves
    <3> QED BY <3>1, <3>2, <3>3, <3>4 DEF One
  <2> QED BY <2>5 DEF Kept
<1>24. ASSUME NEW w \in Workers, Settle(w) PROVE Kept
  <2>1. thread[w] \in Working /\ pay[w] \in Pays /\ Others(w)
    BY <1>24, <1>t, <1>p DEF Settle, To, Others, Working
  <2>2. PaySysOf[pay[w]] \in PaySystems /\ OperOf[pay[w]] \in Operators \cup {NULL}
    BY <2>1, PoolConstants
  <2>5. ASSUME NEW l \in Locks PROVE main_lock'[l] + Holding(l)' = main_lock[l] + Holding(l)
    <3>1. /\ (Reads(w, l) <=> PaySysOf[pay[w]] = l) /\ (Reads(w, l)' <=> FALSE)
          /\ (ReadsOper(w, l) <=> OperOf[pay[w]] = l) /\ (ReadsOper(w, l)' <=> FALSE)
          /\ (ReadsVal(w, l) <=> FALSE) /\ (ReadsVal(w, l)' <=> FALSE)
      BY <1>24, <1>t, <2>1, PoolConstants DEF Settle, To, Reads, ReadsOper, ReadsVal, Reading
    <3>2. main_lock'[l] = main_lock[l] + (IF PaySysOf[pay[w]] = l THEN 1 ELSE 0) + (IF OperOf[pay[w]] = l THEN 1 ELSE 0)
      BY <1>24, <1>t, <1>c, <2>1, <2>2, <3>1 DEF Settle, Take, ReleaseRoute, Locks
    <3>3. main_lock[l] \in Nat
      BY <1>t
    <3>4. /\ Holding(l) \in Nat
          /\ Holding(l)' = Holding(l) - One(Reads(w, l)) + One(Reads(w, l)')
                                      - One(ReadsOper(w, l)) + One(ReadsOper(w, l)')
                                      - One(ReadsVal(w, l)) + One(ReadsVal(w, l)')
      BY <2>1, ReaderMoves
    <3> QED BY <3>1, <3>2, <3>3, <3>4 DEF One
  <2> QED BY <2>5 DEF Kept
<1>25. ASSUME NEW w \in Workers, SettleWarning(w) PROVE Fewer /\ Loses
  <2>1. Others(w) /\ UNCHANGED main_lock /\ thread'[w] \notin Reading
    BY <1>25, <1>t DEF SettleWarning, To, Others, Reading
  <2> QED BY <1>25, <1>t, <2>1, UnitsLost DEF Loses
<1>26. ASSUME NEW w \in Workers, InitPay(w) PROVE Kept
  <2>1. thread[w] \in Working /\ pay[w] \in Pays /\ Others(w)
    BY <1>26, <1>t, <1>p DEF InitPay, To, Others, Working
  <2>2. PaySysOf[pay[w]] \in PaySystems /\ OperOf[pay[w]] \in Operators \cup {NULL}
    BY <2>1, PoolConstants
  <2>5. ASSUME NEW l \in Locks PROVE main_lock'[l] + Holding(l)' = main_lock[l] + Holding(l)
    <3>1. /\ (Reads(w, l) <=> PaySysOf[pay[w]] = l) /\ (Reads(w, l)' <=> FALSE)
          /\ (ReadsOper(w, l) <=> OperOf[pay[w]] = l) /\ (ReadsOper(w, l)' <=> FALSE)
          /\ (ReadsVal(w, l) <=> FALSE) /\ (ReadsVal(w, l)' <=> FALSE)
      BY <1>26, <1>t, <2>1, PoolConstants DEF InitPay, To, Reads, ReadsOper, ReadsVal, Reading
    <3>2. main_lock'[l] = main_lock[l] + (IF PaySysOf[pay[w]] = l THEN 1 ELSE 0) + (IF OperOf[pay[w]] = l THEN 1 ELSE 0)
      BY <1>26, <1>t, <1>c, <2>1, <2>2, <3>1 DEF InitPay, Take, ReleaseRoute, Locks
    <3>3. main_lock[l] \in Nat
      BY <1>t
    <3>4. /\ Holding(l) \in Nat
          /\ Holding(l)' = Holding(l) - One(Reads(w, l)) + One(Reads(w, l)')
                                      - One(ReadsOper(w, l)) + One(ReadsOper(w, l)')
                                      - One(ReadsVal(w, l)) + One(ReadsVal(w, l)')
      BY <2>1, ReaderMoves
    <3> QED BY <3>1, <3>2, <3>3, <3>4 DEF One
  <2> QED BY <2>5 DEF Kept
<1>27. ASSUME NEW w \in Workers, SendPay(w) PROVE Kept
  <2>1. Quiet
    BY <1>27, <1>t DEF SendPay, To, Quiet, Reading
  <2> QED BY <1>27, <1>q, <2>1 DEF SendPay
<1>28. ASSUME NEW w \in Workers, DBSetState(w) PROVE Kept
  <2>1. Quiet
    BY <1>28, <1>t DEF DBSetState, To, Quiet, Reading
  <2> QED BY <1>28, <1>q, <2>1 DEF DBSetState
<1>29. ASSUME NEW w \in Workers, Finish(w) PROVE Kept
  <2>1. Quiet
    BY <1>29, <1>t DEF Finish, To, Quiet, Reading
  <2> QED BY <1>29, <1>q, <2>1 DEF Finish
<1>30. ASSUME NEW w \in Workers, KillWorker(w) PROVE Fewer /\ Loses
  <2>1. Others(w) /\ UNCHANGED main_lock /\ thread'[w] \notin Reading
    BY <1>30, <1>t DEF KillWorker, Destroy, Others, Reading
  <2> QED BY <1>30, <1>t, <2>1, UnitsLost DEF Loses
<1>31. ASSUME NEW w \in Workers, CancelWorker(w) PROVE Kept
  BY <1>31, <1>s DEF CancelWorker
<1>32. ASSUME NEW w \in Workers, DispatchToIdle(w) PROVE Kept
  <2>1. w \in workers_list /\ ~Busy(w) /\ thread[w] \in {"wait", "exited"}
    BY <1>32, <1>f, <1>i, PoolConstants DEF DispatchToIdle, Idle
  <2>2. Quiet
    BY <1>32, <1>t, <2>1 DEF DispatchToIdle, Launch, Quiet, Reading
  <2> QED BY <1>32, <1>q, <2>2 DEF DispatchToIdle, Launch
<1>33. ASSUME NEW w \in Workers, DispatchToNew(w) PROVE Kept
  <2>1. Quiet
    BY <1>33, <1>t DEF DispatchToNew, Launch, Quiet, Reading
  <2> QED BY <1>33, <1>q, <2>1 DEF DispatchToNew, Launch
<1>34. ASSUME NEW w \in Workers, DrainKill(w) PROVE Kept
  BY <1>34, <1>s DEF DrainKill
<1>35. ASSUME NEW w \in Workers, DrainRemove(w) PROVE Kept \/ (Fewer /\ Loses)
  <2>1. CASE w = join_target
    <3>1. thread[w] \in {"exited", "none"}
      BY <1>35, <2>1 DEF DrainRemove
    <3>2. Quiet
      BY <1>35, <1>t, <3>1 DEF DrainRemove, Destroy, Quiet, Reading
    <3> QED BY <1>35, <1>q, <3>2 DEF DrainRemove
  <2>2. CASE w # join_target
    <3>1. Others(w) /\ UNCHANGED main_lock /\ thread'[w] \notin Reading
      BY <1>35, <1>t DEF DrainRemove, Destroy, Others, Reading
    <3> QED BY <1>35, <1>t, <2>2, <3>1, UnitsLost DEF Loses
  <2> QED BY <2>1, <2>2
<1>36. ASSUME NEW S \in SUBSET Workers, ManagerBegin(S) PROVE Kept
  BY <1>36, <1>s DEF ManagerBegin
<1>37. ASSUME NEW S \in SUBSET Workers, RebootEnd(S) PROVE ReadLocksBalanced'
  <2>1. workers_list = {}
    BY <1>37 DEF RebootEnd, PoolInv, ListInv, ListAlive
  <2>2. \A u \in Workers : thread[u] \in {"none", "orphan"}
    BY <1>t, <2>1 DEF PoolInv, ListInv
  <2>3. \A u \in Workers : thread'[u] \notin Reading
    BY <1>37, <2>2 DEF RebootEnd, Construct, Reading
  <2>4. ASSUME NEW l \in Locks PROVE main_lock'[l] + Holding(l)' = Readers
    <3>1. SysReaders(l)' = {} /\ OperReaders(l)' = {} /\ ValReaders(l)' = {}
      BY <2>3 DEF SysReaders, OperReaders, ValReaders, Reads, ReadsOper, ReadsVal, Reading
    <3>2. Holding(l)' = 0
      BY <3>1, FS_EmptySet
      DEF Holding, SysReaders, OperReaders, ValReaders, Reads, ReadsOper, ReadsVal, Reading
    <3>3. main_lock'[l] = Readers
      BY <1>37 DEF RebootEnd
    <3> QED BY <3>2, <3>3, PoolConstants
  <2> QED BY <2>4 DEF ReadLocksBalanced
<1>38. ASSUME NEW m \in PaySystems, ReConfStep(m) PROVE Kept
  BY <1>38, <1>s DEF ReConfStep
<1>39. CASE UNCHANGED vars
  BY <1>39, <1>s DEF vars
<1> QED
  BY <1>1, <1>2, <1>3, <1>4, <1>5, <1>6, <1>7, <1>8, <1>9, <1>10, <1>11, <1>12, <1>13, <1>14, <1>15, <1>16, <1>17, <1>18, <1>19, <1>20, <1>21, <1>22, <1>23, <1>24, <1>25, <1>26, <1>27, <1>28, <1>29, <1>30, <1>31, <1>32, <1>33, <1>34, <1>35, <1>36, <1>37, <1>38, <1>39
  DEF Next, MainStep, WorkerStep, Command, Stopped

\* Nothing is lost without KILL and without such warnings.
LEMMA ReadLocksStep ==
  ASSUME "KILL" \notin Commands, Strict \subseteq ValidatorOff, TypeOK, PoolInv, SendInv,
         ReadLocksBalanced, [Next]_vars
  PROVE  ReadLocksBalanced'
<1>1. ~Loses
  BY DEF Loses, KillWorker, SettleWarning, DrainRemove, SendInv
<1>2. Kept => ReadLocksBalanced'
  BY DEF Kept, ReadLocksBalanced
<1> QED BY <1>1, <1>2, LockUnits

\* All units are free at the start.
LEMMA ReadLocksInit == Init => ReadLocksBalanced
<1> SUFFICES ASSUME Init, NEW l \in Locks PROVE main_lock[l] + Holding(l) = Readers
  BY DEF ReadLocksBalanced
<1>1. \A w \in Workers : thread[w] \in {"wait", "none"}
  BY DEF Init
<1>2. SysReaders(l) = {} /\ OperReaders(l) = {} /\ ValReaders(l) = {}
  BY <1>1 DEF SysReaders, OperReaders, ValReaders, Reads, ReadsOper, ReadsVal, Reading
<1>3. Holding(l) = 0
  BY <1>2, FS_EmptySet
  DEF Holding, SysReaders, OperReaders, ValReaders, Reads, ReadsOper, ReadsVal, Reading
<1>4. main_lock[l] = Readers
  BY DEF Init
<1> QED BY <1>3, <1>4, PoolConstants

\* Unless threads are cancelled by KILL or a validator's warning ends a pay early, every read
\* lock of a module or an operator that a worker takes is given back: main_lock and the
\* workers past LockRead always add up to PARALLEL_READERS, through reboots and shutdowns.
THEOREM ReadLocksCorrect ==
  ASSUME "KILL" \notin Commands, Strict \subseteq ValidatorOff
  PROVE  Spec => []ReadLocksBalanced
<1>1. Init => SendInv /\ ReadLocksBalanced
  BY ReadLocksInit, PoolConstants DEF Init, SendInv, SendOnce, Busy
<1>2. TypeOK /\ PoolInv /\ (TypeOK /\ PoolInv)' /\ SendInv /\ [Next]_vars => SendInv'
  BY SendStep
<1>3. TypeOK /\ PoolInv /\ SendInv /\ ReadLocksBalanced /\ [Next]_vars => ReadLocksBalanced'
  BY ReadLocksStep
<1> QED BY <1>1, <1>2, <1>3, PoolCorrect, PTL DEF Spec

\* The units of a lock, free or with a reader, are never more than PARALLEL_READERS.
UnitsBounded == \A l \in Locks : main_lock[l] + Holding(l) <= Readers

\* Readers are numbers.
LEMMA HoldingNumber ==
  ASSUME NEW l
  PROVE  Holding(l) \in Nat /\ Holding(l)' \in Nat
<1> DEFINE S == SysReaders(l)
           O == OperReaders(l)
           V == ValReaders(l)
<1>1. /\ S \in SUBSET Workers /\ S' \in SUBSET Workers /\ O \in SUBSET Workers /\ O' \in SUBSET Workers
      /\ V \in SUBSET Workers /\ V' \in SUBSET Workers
  BY DEF SysReaders, OperReaders, ValReaders
<1>2. /\ Holding(l) = Cardinality(S) + Cardinality(O) + Cardinality(V)
      /\ Holding(l)' = Cardinality(S') + Cardinality(O') + Cardinality(V')
  BY DEF Holding, SysReaders, OperReaders, ValReaders, Reads, ReadsOper, ReadsVal, Reading
<1>3. \A T \in SUBSET Workers : Cardinality(T) \in Nat
  BY PoolConstants, FS_Subset, FS_CardinalityType
<1> HIDE DEF S, O, V
<1> QED BY <1>1, <1>2, <1>3

\* Whatever KILL cancels, the drain removes and a validator's warning leaves behind, no unit of
\* a read lock is given back twice: units can be lost, never gained, so that more than
\* PARALLEL_READERS readers are never admitted beside a writer that has collected them all.
THEOREM UnitsNeverGained == Spec => []UnitsBounded
<1>0. ReadLocksBalanced => UnitsBounded
  BY PoolConstants DEF ReadLocksBalanced, UnitsBounded
<1>1. Init => UnitsBounded
  BY <1>0, ReadLocksInit
<1>2. TypeOK /\ PoolInv /\ TypeOK' /\ UnitsBounded /\ [Next]_vars => UnitsBounded'
  <2> SUFFICES ASSUME TypeOK, PoolInv, TypeOK', UnitsBounded, [Next]_vars PROVE UnitsBounded'
    OBVIOUS
  <2>1. \A l \in Locks : /\ main_lock[l] \in Nat /\ main_lock'[l] \in Nat
                         /\ Holding(l) \in Nat /\ Holding(l)' \in Nat
    BY HoldingNumber DEF TypeOK
  <2>2. CASE Kept \/ Fewer
    BY <2>1, <2>2, PoolConstants DEF Kept, Fewer, UnitsBounded
  <2>3. CASE ReadLocksBalanced'
    BY <2>3, PoolConstants DEF ReadLocksBalanced, UnitsBounded
  <2> QED BY <2>2, <2>3, LockUnits
<1> QED BY <1>1, <1>2, PoolCorrect, PTL DEF Spec

-----------------------------------------------------------------------------
(* ManagerEx keeps thread_min workers.                                     *)

\* While ManagerEx joins its victims the list cannot shrink: it holds free_workers_lock.
RetireInv == main_pc = "mjoin" /\ victims # {} => Cardinality(workers_list \ victims) >= ThreadMin

\* RetireInv is preserved by every step.
LEMMA RetireStep == TypeOK /\ PoolInv /\ RetireInv /\ [Next]_vars => RetireInv'
<1> SUFFICES ASSUME TypeOK, PoolInv, RetireInv, [Next]_vars PROVE RetireInv'
  OBVIOUS
<1>u. ASSUME UNCHANGED <<workers_list, victims>>, main_pc' = "mjoin" => main_pc = "mjoin" PROVE RetireInv'
  BY <1>u DEF RetireInv
<1> USE DEF poolVars, modeVars, workerVars, mainVars, payVars, adminVars, workerFrame
<1>1. ASSUME PollRetry PROVE RetireInv'
  BY <1>1, <1>u DEF PollRetry
<1>2. ASSUME PollNothing PROVE RetireInv'
  BY <1>2, <1>u DEF PollNothing
<1>3. ASSUME DispatchFails PROVE RetireInv'
  BY <1>3, <1>u DEF DispatchFails
<1>4. ASSUME Tick PROVE RetireInv'
  BY <1>4, <1>u DEF Tick, LoopEnd
<1>5. ASSUME ManagerEnd PROVE RetireInv'
  BY <1>5 DEF ManagerEnd, LoopEnd, RetireInv
<1>6. ASSUME DrainRemoveNone PROVE RetireInv'
  BY <1>6, <1>u DEF DrainRemoveNone
<1>7. ASSUME DrainEnd PROVE RetireInv'
  BY <1>7, <1>u DEF DrainEnd
<1>8. ASSUME Exit PROVE RetireInv'
  BY <1>8, <1>u DEF Exit
<1>9. ASSUME RebootBegin PROVE RetireInv'
  BY <1>9, <1>u DEF RebootBegin
<1>10. ASSUME CommandOnDeadList PROVE RetireInv'
  BY <1>10, <1>u DEF CommandOnDeadList
<1>11. ASSUME ReConfBegin PROVE RetireInv'
  BY <1>11, <1>u DEF ReConfBegin
<1>12. ASSUME Shutdown PROVE RetireInv'
  BY <1>12, <1>u DEF Shutdown
<1>13. ASSUME SigTerm PROVE RetireInv'
  BY <1>13, <1>u DEF SigTerm
<1>14. ASSUME Reboot PROVE RetireInv'
  BY <1>14, <1>u DEF Reboot
<1>15. ASSUME NEW p \in Pays, PollTake(p) PROVE RetireInv'
  BY <1>15, <1>u DEF PollTake
<1>16. ASSUME NEW p \in Pays, Arrive(p) PROVE RetireInv'
  BY <1>16, <1>u DEF Arrive
<1>17. ASSUME NEW w \in Workers, Wake(w) PROVE RetireInv'
  BY <1>17, <1>u DEF Wake
<1>18. ASSUME NEW w \in Workers, Start(w) PROVE RetireInv'
  BY <1>18, <1>u DEF Start
<1>19. ASSUME NEW w \in Workers, ClaimPaySys(w) PROVE RetireInv'
  BY <1>19, <1>u DEF ClaimPaySys
<1>20. ASSUME NEW w \in Workers, ClaimOperator(w) PROVE RetireInv'
  BY <1>20, <1>u DEF ClaimOperator
<1>21. ASSUME NEW w \in Workers, SkipValidator(w) PROVE RetireInv'
  BY <1>21, <1>u DEF SkipValidator
<1>22. ASSUME NEW w \in Workers, LockValidator(w) PROVE RetireInv'
  BY <1>22, <1>u DEF LockValidator
<1>23. ASSUME NEW w \in Workers, Validate(w) PROVE RetireInv'
  BY <1>23, <1>u DEF Validate
<1>24. ASSUME NEW w \in Workers, Settle(w) PROVE RetireInv'
  BY <1>24, <1>u DEF Settle
<1>25. ASSUME NEW w \in Workers, SettleWarning(w) PROVE RetireInv'
  BY <1>25, <1>u DEF SettleWarning
<1>26. ASSUME NEW w \in Workers, InitPay(w) PROVE RetireInv'
  BY <1>26, <1>u DEF InitPay
<1>27. ASSUME NEW w \in Workers, SendPay(w) PROVE RetireInv'
  BY <1>27, <1>u DEF SendPay
<1>28. ASSUME NEW w \in Workers, DBSetState(w) PROVE RetireInv'
  BY <1>28, <1>u DEF DBSetState
<1>29. ASSUME NEW w \in Workers, Finish(w) PROVE RetireInv'
  BY <1>29, <1>u DEF Finish
<1>30. ASSUME NEW w \in Workers, KillWorker(w) PROVE RetireInv'
  BY <1>30, PoolConstants DEF KillWorker, RetireInv, PoolInv, LockHolderAlive, IsFree
<1>31. ASSUME NEW w \in Workers, CancelWorker(w) PROVE RetireInv'
  BY <1>31, <1>u DEF CancelWorker
<1>32. ASSUME NEW w \in Workers, DispatchToIdle(w) PROVE RetireInv'
  BY <1>32 DEF DispatchToIdle, Launch, LoopEnd, RetireInv
<1>33. ASSUME NEW w \in Workers, DispatchToNew(w) PROVE RetireInv'
  BY <1>33 DEF DispatchToNew, Launch, LoopEnd, RetireInv
<1>34. ASSUME NEW w \in Workers, DrainKill(w) PROVE RetireInv'
  BY <1>34, <1>u DEF DrainKill
<1>35. ASSUME NEW w \in Workers, DrainRemove(w) PROVE RetireInv'
  BY <1>35 DEF DrainRemove, RetireInv
<1>36. ASSUME NEW S \in SUBSET Workers, ManagerBegin(S) PROVE RetireInv'
  <2> SUFFICES ASSUME S # {} PROVE Cardinality(workers_list \ S) >= ThreadMin
    BY <1>36 DEF ManagerBegin, RetireInv
  <2> DEFINE n == Cardinality(workers_list)
             k == Cardinality(S)
  <2>1. S \subseteq Expired /\ Expired \subseteq workers_list /\ Expired \subseteq Workers
    BY <1>36 DEF ManagerBegin, Expired, TypeOK
  <2>2. /\ IsFiniteSet(workers_list) /\ IsFiniteSet(Expired) /\ IsFiniteSet(S)
        /\ n \in Nat /\ Cardinality(Expired) \in Nat /\ k \in Nat
    BY <2>1, PoolConstants, FS_Subset, FS_CardinalityType DEF TypeOK
  <2>3. k # 0
    BY <2>2, FS_EmptySet
  <2>4. k = IF Cardinality(Expired) < Surplus THEN Cardinality(Expired) ELSE Surplus
    BY <1>36 DEF ManagerBegin
  <2>5. Cardinality(workers_list \ S) = n - Cardinality(workers_list \cap S)
    BY <2>2, FS_Difference
  <2>6. workers_list \cap S = S
    BY <2>1
  <2>7. Surplus = IF n > ThreadMin THEN n - ThreadMin ELSE 0
    BY DEF Surplus
  <2> HIDE DEF n, k
  <2>8. k <= n - ThreadMin
    BY <2>2, <2>3, <2>4, <2>7, PoolConstants
  <2>9. Cardinality(workers_list \ S) = n - k
    BY <2>5, <2>6 DEF k
  <2> QED BY <2>2, <2>8, <2>9, PoolConstants
<1>37. ASSUME NEW S \in SUBSET Workers, RebootEnd(S) PROVE RetireInv'
  BY <1>37 DEF RebootEnd, RetireInv
<1>38. ASSUME NEW m \in PaySystems, ReConfStep(m) PROVE RetireInv'
  BY <1>38, <1>u DEF ReConfStep
<1>39. CASE UNCHANGED vars
  BY <1>39, <1>u DEF vars
<1> QED
  BY <1>1, <1>2, <1>3, <1>4, <1>5, <1>6, <1>7, <1>8, <1>9, <1>10, <1>11, <1>12, <1>13, <1>14, <1>15, <1>16, <1>17, <1>18, <1>19, <1>20, <1>21, <1>22, <1>23, <1>24, <1>25, <1>26, <1>27, <1>28, <1>29, <1>30, <1>31, <1>32, <1>33, <1>34, <1>35, <1>36, <1>37, <1>38, <1>39
  DEF Next, MainStep, WorkerStep, Command, Stopped

\* ManagerEx leaves at least thread_min workers and takes none that has a pay, although the
\* pool goes on dispatching, finishing and killing between two of its passes.
THEOREM ManagerKeepsMinimumCorrect == Spec => ManagerKeepsMinimum
<1> DEFINE Retired == main_pc = "mjoin" /\ main_pc' # "mjoin" /\ workers_list' # workers_list =>
                        /\ Cardinality(workers_list') >= ThreadMin
                        /\ \A w \in workers_list \ workers_list' : ~Busy(w)
<1>1. Init => RetireInv
  BY DEF Init, RetireInv
<1>2. TypeOK /\ PoolInv /\ RetireInv /\ [Next]_vars => RetireInv'
  BY RetireStep
<1>3. PoolInv /\ RetireInv /\ [Next]_vars => [Retired]_vars
  <2> SUFFICES ASSUME PoolInv, RetireInv, [Next]_vars, main_pc = "mjoin", main_pc' # "mjoin",
                      workers_list' # workers_list
               PROVE  /\ Cardinality(workers_list') >= ThreadMin
                      /\ \A w \in workers_list \ workers_list' : ~Busy(w)
    OBVIOUS
  <2>1. ManagerEnd
    <3> USE DEF vars, poolVars, modeVars, workerVars, mainVars, payVars, adminVars, workerFrame
    <3>1. CASE MainStep
      BY <3>1 DEF MainStep, PollTake, PollRetry, PollNothing, DispatchToIdle, DispatchToNew,
         DispatchFails, Tick, ManagerBegin, DrainKill, DrainRemove, DrainRemoveNone, DrainEnd, Exit,
         RebootBegin, RebootEnd
    <3>2. ASSUME NEW w \in Workers, WorkerStep(w) \/ Start(w) \/ Finish(w) PROVE FALSE
      BY <3>2 DEF WorkerStep, Start, Finish, Wake, ClaimPaySys, ClaimOperator, SkipValidator,
         LockValidator, Validate, Settle, SettleWarning, InitPay, SendPay, DBSetState
    <3>3. ASSUME Command PROVE FALSE
      BY <3>3 DEF Command, KillWorker, CancelWorker, CommandOnDeadList, ReConfBegin, ReConfStep,
         Shutdown, SigTerm, Reboot
    <3>4. ASSUME NEW p \in Pays, Arrive(p) PROVE FALSE
      BY <3>4 DEF Arrive
    <3> QED BY <3>1, <3>2, <3>3, <3>4 DEF Next, Stopped
  <2>2. workers_list' = workers_list \ victims /\ victims # {}
    BY <2>1 DEF ManagerEnd, Destroy
  <2>3. \A w \in victims : ~Busy(w)
    BY DEF PoolInv, KilledInv
  <2> QED BY <2>2, <2>3 DEF RetireInv
<1> QED BY <1>1, <1>2, <1>3, PoolCorrect, PTL DEF Spec, ManagerKeepsMinimum
=============================================================================
