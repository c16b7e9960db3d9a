----------------------------- MODULE WorkerPool -----------------------------
(***************************************************************************)
(* The worker pool of the payguide daemon: the main loop of main.cpp, the  *)
(* threads of worker.cpp (WorkEx), the idle-thread manager and the drain   *)
(* of thrdmngr.cpp, and the administrator's commands of ctl.cpp that touch *)
(* the pool.                                                               *)
(*                                                                         *)
(* One action is one stretch of code between two points where a thread can *)
(* block.  A critical section of free_workers_lock in which nothing blocks *)
(* is one action that needs the lock free; one that blocks inside (read    *)
(* locks of modules, pthread_join) is several actions, and                 *)
(* free_workers_lock names the thread that holds it in between.            *)
(*                                                                         *)
(* workers_list is kept as a set: where the code takes the first worker of *)
(* the list that qualifies, the model takes any.                           *)
(***************************************************************************)
EXTENDS Integers, FiniteSets

CONSTANTS
  Workers,      \* CWorker objects (heap slots)
  Pays,         \* SPay objects
  ChecksOnly,   \* pays that come from a paycheck front end (test # NO_TEST)
  PaySystems,   \* loaded pay modules (CPaySys)
  Operators,    \* COperator objects
  PaySysOf,     \* the module GetValidPaySys chooses for a pay
  OperOf,       \* the operator of a pay, or NULL
  Validator,    \* GetPaySysBySoName("validator.so")
  ValidatorOff, \* pays whose operator is configured with validator=off
  Strict,       \* ... with validator_ignore_warnings=off
  NULL,
  Main, Ctl,    \* the main thread and the thread that runs ExecCmd
  ThreadMin, ThreadMax, InactivityTime,
  LifetimeCap,  \* where CWorker::Live stops counting (604800)
  Readers,      \* PARALLEL_READERS of sem.cpp (10)
  ManagerPeriod,\* loop ticks between two calls of ManagerEx (20)
  Commands,     \* the administrator's commands that may arrive
  ThreadsCanFail, \* whether pthread_create may fail
  MaxReboots    \* bound: number of REBOOT commands

Locks == PaySystems \cup Operators

ASSUME PoolConstants ==
  /\ Workers # {} /\ IsFiniteSet(Workers) /\ IsFiniteSet(Pays)
  /\ ChecksOnly \subseteq Pays /\ ValidatorOff \subseteq Pays /\ Strict \subseteq Pays
  /\ PaySysOf \in [Pays -> PaySystems]
  /\ OperOf \in [Pays -> Operators \cup {NULL}]
  /\ Validator \in PaySystems
  /\ NULL \notin Workers \cup Pays \cup Locks
  /\ PaySystems \cap Operators = {}
  /\ Main \notin Workers /\ Ctl \notin Workers /\ Main # Ctl
  /\ NULL # Main /\ NULL # Ctl
  /\ ThreadMin \in Nat /\ ThreadMax \in Nat /\ InactivityTime \in Nat
  /\ LifetimeCap \in Nat /\ Readers \in Nat \ {0} /\ ManagerPeriod \in Nat \ {0}
  /\ ThreadsCanFail \in BOOLEAN /\ MaxReboots \in Nat

VARIABLES
  \* shared state of the daemon (namespace.h)
  workers_list, free_worker, working_workers, free_workers_lock,
  working, quit, force_quit,
  \* fields of each CWorker (killed is the set of those with killed==1), and
  \* where its thread is in WorkEx
  pay, killed, sem, lifetime, thread,
  \* main_lock of the CSemaphore of each module and operator
  main_lock,
  \* locals of the main thread
  main_pc, new_pay, sleep_count, working_state, cancel_pays, join_target, victims,
  \* the command thread: modules whose configuration RELOAD_SO still has to reread
  reconf,
  \* what has become of each pay
  fate, sent, canceled,
  \* reboots done
  reboots

poolVars   == <<workers_list, free_worker, working_workers, free_workers_lock>>
modeVars   == <<working, quit, force_quit>>
workerVars == <<pay, killed, sem, lifetime, thread>>
mainVars   == <<main_pc, new_pay, sleep_count, working_state, cancel_pays, join_target, victims>>
payVars    == <<fate, sent, canceled>>
adminVars  == <<reconf, reboots>>
vars == <<poolVars, modeVars, workerVars, main_lock, mainVars, payVars, adminVars>>

\* Where a thread can be in WorkEx.  "none": there is no thread.
\* "orphan": it still runs, but its CWorker has been deleted under it.
Phases == {"none", "wait", "start", "claim", "claimop", "vlock", "validate",
           "decide", "send", "setstate", "finish", "exited", "orphan"}

Fates == {"unseen", "queued", "held", "running", "recorded", "killed", "dropped"}

MainPhases == {"poll", "dispatch", "tick", "manage", "mjoin", "drain", "djoin",
               "dead", "reinit", "exit", "crash"}

\* workers_list is a valid pointer.
ListAlive == main_pc \notin {"dead", "reinit", "exit", "crash"}

\* The process is gone.
Gone == main_pc \in {"exit", "crash"}

Busy(w)  == pay[w] # NULL
IsFree   == free_workers_lock = NULL

-----------------------------------------------------------------------------
(* CWorker: construction and destruction.                                  *)

\* A new CWorker: the thread is created and waits for its first Run.
Construct(S) ==
  /\ thread'   = [w \in Workers |-> IF w \in S THEN "wait" ELSE thread[w]]
  /\ pay'      = [w \in Workers |-> IF w \in S THEN NULL ELSE pay[w]]
  /\ killed'   = killed \ S
  /\ sem'      = [w \in Workers |-> IF w \in S THEN 0 ELSE sem[w]]
  /\ lifetime' = [w \in Workers |-> IF w \in S THEN 0 ELSE lifetime[w]]

\* RemoveThis of the workers S: each object and the pay it holds are deleted.
\* A thread that has not exited is left running on a deleted object.
Destroy(S, after) ==
  /\ workers_list' = workers_list \ S
  /\ thread' = [w \in Workers |->
                  IF w \notin S THEN thread[w]
                  ELSE IF thread[w] \in {"exited", "none"} THEN "none" ELSE after]
  /\ pay'      = [w \in Workers |-> IF w \in S THEN NULL ELSE pay[w]]
  /\ killed'   = killed \ S
  /\ sem'      = [w \in Workers |-> IF w \in S THEN 0 ELSE sem[w]]
  /\ lifetime' = [w \in Workers |-> IF w \in S THEN 0 ELSE lifetime[w]]

\* Numbers of threads CreateWorkers(ThreadMin) can end up with.
Created(S) ==
  /\ Cardinality(S) <= ThreadMin
  /\ ~ThreadsCanFail => Cardinality(S) = ThreadMin

-----------------------------------------------------------------------------
(* The main loop.                                                          *)

\* The last iteration is run to its end after working has become false.
LoopEnd ==
  /\ main_pc' = IF working_state THEN "poll" ELSE "drain"
  /\ cancel_pays' = IF working_state THEN cancel_pays ELSE force_quit

\* Paycheck front ends are asked first, the database only on tick 1.
Available(p) ==
  /\ fate[p] = "queued"
  /\ \/ p \in ChecksOnly
     \/ /\ sleep_count = 1
        /\ \A q \in ChecksOnly : fate[q] # "queued"

PollTake(p) ==
  /\ main_pc = "poll" /\ new_pay = NULL /\ Available(p)
  /\ working_state' = working
  /\ new_pay' = p
  /\ fate' = [fate EXCEPT ![p] = "held"]
  /\ main_pc' = "dispatch"
  /\ UNCHANGED <<poolVars, modeVars, workerVars, main_lock, sleep_count,
                 cancel_pays, join_target, victims, sent, canceled, adminVars>>

\* A pay that found no worker in the previous iteration is tried again.
PollRetry ==
  /\ main_pc = "poll" /\ new_pay # NULL
  /\ working_state' = working
  /\ main_pc' = "dispatch"
  /\ UNCHANGED <<poolVars, modeVars, workerVars, main_lock, new_pay, sleep_count,
                 cancel_pays, join_target, victims, payVars, adminVars>>

PollNothing ==
  /\ main_pc = "poll" /\ new_pay = NULL
  /\ \A p \in Pays : ~Available(p)
  /\ working_state' = working
  /\ main_pc' = "tick"
  /\ UNCHANGED <<poolVars, modeVars, workerVars, main_lock, new_pay, sleep_count,
                 cancel_pays, join_target, victims, payVars, adminVars>>

\* Variant of Idle: Busy is not asked.
IdleIgnoringBusy == {w \in workers_list : w \notin killed}

Idle == {w \in workers_list : ~Busy(w) /\ w \notin killed}

\* Variant of Launch: new_pay is not reset once a worker has the pay.
LaunchKeepsNewPay(w, new) ==
  /\ workers_list' = workers_list \cup {w}
  /\ pay' = [pay EXCEPT ![w] = new_pay]
  /\ lifetime' = [lifetime EXCEPT ![w] = 0]
  /\ killed' = killed \ {w}
  /\ sem' = [sem EXCEPT ![w] = (IF new THEN 0 ELSE @) + 1]
  /\ thread' = [thread EXCEPT ![w] = IF new THEN "wait" ELSE @]
  /\ free_worker' = NULL
  /\ working_workers' = working_workers + 1
  /\ fate' = [fate EXCEPT ![new_pay] = "running"]
  /\ LoopEnd
  /\ UNCHANGED <<free_workers_lock, modeVars, main_lock, new_pay, sleep_count, working_state,
                 join_target, victims, sent, canceled, adminVars>>

\* Variant of Launch: the worker is not woken.
LaunchWithoutRun(w, new) ==
  /\ workers_list' = workers_list \cup {w}
  /\ pay' = [pay EXCEPT ![w] = new_pay]
  /\ lifetime' = [lifetime EXCEPT ![w] = 0]
  /\ killed' = killed \ {w}
  /\ sem' = [sem EXCEPT ![w] = IF new THEN 0 ELSE @]
  /\ thread' = [thread EXCEPT ![w] = IF new THEN "wait" ELSE @]
  /\ free_worker' = NULL
  /\ working_workers' = working_workers + 1
  /\ fate' = [fate EXCEPT ![new_pay] = "running"]
  /\ new_pay' = NULL
  /\ LoopEnd
  /\ UNCHANGED <<free_workers_lock, modeVars, main_lock, sleep_count, working_state,
                 join_target, victims, sent, canceled, adminVars>>

\* LaunchNewPay with free_worker = w, w having just been created if new.
Launch(w, new) ==
  /\ workers_list' = workers_list \cup {w}
  /\ pay' = [pay EXCEPT ![w] = new_pay]
  /\ lifetime' = [lifetime EXCEPT ![w] = 0]
  /\ killed' = killed \ {w}
  /\ sem' = [sem EXCEPT ![w] = (IF new THEN 0 ELSE @) + 1]
  /\ thread' = [thread EXCEPT ![w] = IF new THEN "wait" ELSE @]
  /\ free_worker' = NULL
  /\ working_workers' = working_workers + 1
  /\ fate' = [fate EXCEPT ![new_pay] = "running"]
  /\ new_pay' = NULL
  /\ LoopEnd
  /\ UNCHANGED <<free_workers_lock, modeVars, main_lock, sleep_count, working_state,
                 join_target, victims, sent, canceled, adminVars>>

\* SetFreeWorker(NULL) found an idle worker, or free_worker was set already.
DispatchToIdle(w) ==
  /\ main_pc = "dispatch" /\ IsFree
  /\ \/ free_worker = w
     \/ free_worker = NULL /\ w \in Idle
  /\ Launch(w, FALSE)

\* Variant of DispatchToNew: thread_max compared with <=.
DispatchToNewAtLimit(w) ==
  /\ main_pc = "dispatch" /\ IsFree
  /\ free_worker = NULL /\ Idle = {}
  /\ Cardinality(workers_list) <= ThreadMax
  /\ thread[w] = "none"
  /\ Launch(w, TRUE)

\* All threads are working: SetFreeWorker(NULL) adds one below the limit.
DispatchToNew(w) ==
  /\ main_pc = "dispatch" /\ IsFree
  /\ free_worker = NULL /\ Idle = {}
  /\ Cardinality(workers_list) < ThreadMax
  /\ thread[w] = "none"
  /\ Launch(w, TRUE)

\* Threads limit hit, or pthread_create failed: the pay is kept in new_pay.
DispatchFails ==
  /\ main_pc = "dispatch" /\ IsFree
  /\ free_worker = NULL /\ Idle = {}
  /\ ThreadsCanFail \/ Cardinality(workers_list) >= ThreadMax
  /\ main_pc' = "tick"
  /\ UNCHANGED <<poolVars, modeVars, workerVars, main_lock, new_pay, sleep_count,
                 working_state, cancel_pays, join_target, victims, payVars, adminVars>>

Tick ==
  /\ main_pc = "tick"
  /\ \/ /\ sleep_count # ManagerPeriod
        /\ sleep_count' = sleep_count + 1
        /\ LoopEnd
     \/ /\ sleep_count = ManagerPeriod
        /\ sleep_count' = 1
        /\ main_pc' = "manage"
        /\ UNCHANGED cancel_pays
  /\ UNCHANGED <<poolVars, modeVars, workerVars, main_lock, new_pay, working_state,
                 join_target, victims, payVars, adminVars>>

-----------------------------------------------------------------------------
(* thrdmngr.cpp: ManagerEx.                                                *)

\* Variant of Live: the count stops at the inactivity time.
LiveTooShort(n) == IF n < InactivityTime THEN n + 1 ELSE n

Live(n) == IF n < LifetimeCap THEN n + 1 ELSE n

\* Idle workers that have outlived the inactivity time.
Expired == {w \in workers_list : ~Busy(w) /\ Live(lifetime[w]) > InactivityTime}

\* Variant of Surplus: l is compared with >= thread_min.
SurplusOneMore == IF Cardinality(workers_list) >= ThreadMin
                  THEN Cardinality(workers_list) - ThreadMin + 1 ELSE 0

\* How many workers ManagerEx may remove: l shrinks down to thread_min.
Surplus == IF Cardinality(workers_list) > ThreadMin
           THEN Cardinality(workers_list) - ThreadMin ELSE 0

\* Under free_workers_lock: everybody ages, the victims are told to stop.
ManagerBegin(S) ==
  /\ main_pc = "manage" /\ IsFree
  /\ S \subseteq Expired
  /\ Cardinality(S) = IF Cardinality(Expired) < Surplus
                      THEN Cardinality(Expired) ELSE Surplus
  /\ free_workers_lock' = Main
  /\ free_worker' = IF free_worker \in S THEN NULL ELSE free_worker
  /\ lifetime' = [w \in Workers |-> IF w \in workers_list THEN Live(lifetime[w]) ELSE lifetime[w]]
  /\ killed' = killed \cup S
  /\ sem' = [w \in Workers |-> IF w \in S THEN sem[w] + 1 ELSE sem[w]]
  /\ victims' = S
  /\ main_pc' = "mjoin"
  /\ UNCHANGED <<workers_list, working_workers, modeVars, pay, thread, main_lock, new_pay,
                 sleep_count, working_state, cancel_pays, join_target, payVars, adminVars>>

\* pthread_join of every victim has returned; they leave the list.
ManagerEnd ==
  /\ main_pc = "mjoin"
  /\ \A w \in victims : thread[w] = "exited"
  /\ Destroy(victims, "orphan")
  /\ free_workers_lock' = NULL
  /\ victims' = {}
  /\ LoopEnd
  /\ UNCHANGED <<free_worker, working_workers, modeVars, main_lock, new_pay, sleep_count,
                 working_state, join_target, payVars, adminVars>>

-----------------------------------------------------------------------------
(* thrdmngr.cpp: WaitForAllPaysToFinish, and the end of main's loop body.  *)

\* Variant of DrainKill: the thread is told to stop but not woken.
DrainKillWithoutRun(w) ==
  /\ main_pc = "drain" /\ IsFree
  /\ w \in workers_list
  /\ canceled' = IF cancel_pays /\ Busy(w) THEN canceled \cup {pay[w]} ELSE canceled
  /\ killed' = killed \cup {w}
  /\ join_target' = w
  /\ main_pc' = "djoin"
  /\ UNCHANGED <<poolVars, modeVars, pay, sem, lifetime, thread, main_lock, new_pay, sleep_count,
                 working_state, cancel_pays, victims, fate, sent, adminVars>>

\* The first worker is told to stop; main waits for its thread without the lock.
DrainKill(w) ==
  /\ main_pc = "drain" /\ IsFree
  /\ w \in workers_list
  /\ canceled' = IF cancel_pays /\ Busy(w) THEN canceled \cup {pay[w]} ELSE canceled
  /\ killed' = killed \cup {w}
  /\ sem' = [sem EXCEPT ![w] = @ + 1]
  /\ join_target' = w
  /\ main_pc' = "djoin"
  /\ UNCHANGED <<poolVars, modeVars, pay, lifetime, thread, main_lock, new_pay, sleep_count,
                 working_state, cancel_pays, victims, fate, sent, adminVars>>

\* The thread has been joined; the first worker of the list is removed.  That is
\* the joined one unless a KILL command has removed it in the meantime.
DrainRemove(w) ==
  /\ main_pc = "djoin" /\ IsFree
  /\ thread[join_target] \in {"exited", "none"}
  /\ IF join_target \in workers_list THEN w = join_target ELSE w \in workers_list
  /\ Destroy({w}, "orphan")
  /\ fate' = [p \in Pays |-> IF p = pay[w] /\ fate[p] = "running" THEN "dropped" ELSE fate[p]]
  /\ join_target' = NULL
  /\ main_pc' = "drain"
  /\ UNCHANGED <<free_worker, working_workers, free_workers_lock, modeVars, main_lock, new_pay,
                 sleep_count, working_state, cancel_pays, victims, sent, canceled, adminVars>>

DrainRemoveNone ==
  /\ main_pc = "djoin" /\ IsFree
  /\ thread[join_target] \in {"exited", "none"}
  /\ workers_list = {}
  /\ join_target' = NULL
  /\ main_pc' = "drain"
  /\ UNCHANGED <<poolVars, modeVars, workerVars, main_lock, new_pay, sleep_count,
                 working_state, cancel_pays, victims, payVars, adminVars>>

\* The list is empty and is deleted; a pay still in new_pay is forgotten.
DrainEnd ==
  /\ main_pc = "drain" /\ IsFree
  /\ workers_list = {}
  /\ main_pc' = "dead"
  /\ fate' = [p \in Pays |-> IF p = new_pay THEN "dropped" ELSE fate[p]]
  /\ new_pay' = NULL
  /\ UNCHANGED <<poolVars, modeVars, workerVars, main_lock, sleep_count, working_state,
                 cancel_pays, join_target, victims, sent, canceled, adminVars>>

Exit ==
  /\ main_pc = "dead" /\ quit
  /\ main_pc' = "exit"
  /\ UNCHANGED <<poolVars, modeVars, workerVars, main_lock, new_pay, sleep_count,
                 working_state, cancel_pays, join_target, victims, payVars, adminVars>>

\* Not a shutdown: everything is torn down and the loop body starts over.
RebootBegin ==
  /\ main_pc = "dead" /\ ~quit
  /\ quit' = FALSE
  /\ main_pc' = "reinit"
  /\ UNCHANGED <<poolVars, working, force_quit, workerVars, main_lock, new_pay, sleep_count,
                 working_state, cancel_pays, join_target, victims, payVars, adminVars>>

\* WorkInit, then working=true.  Modules and operators are loaded anew (all read
\* locks are fresh) and rows of the database that have no result come back.
RebootEnd(S) ==
  /\ main_pc = "reinit" /\ IsFree
  /\ S \subseteq {w \in Workers : thread[w] = "none"} /\ Created(S)
  /\ workers_list' = S
  /\ Construct(S)
  /\ free_worker' \in (IF S = {} THEN {NULL} ELSE S)
  /\ working_workers' = 0
  /\ main_lock' = [l \in Locks |-> Readers]
  /\ fate' = [p \in Pays |-> IF p \notin ChecksOnly /\ fate[p] \in {"killed", "dropped"}
                             THEN "queued" ELSE fate[p]]
  /\ working' = TRUE /\ working_state' = TRUE
  /\ sleep_count' = 0
  /\ main_pc' = "poll"
  /\ UNCHANGED <<free_workers_lock, quit, force_quit, new_pay, cancel_pays, join_target,
                 victims, sent, canceled, adminVars>>

-----------------------------------------------------------------------------
(* worker.cpp: the thread of worker w.                                     *)

To(w, from, to) == thread[w] = from /\ thread' = [thread EXCEPT ![w] = to]

\* Variant of Take: sem_trywait whose result is not looked at.
TakeUnchecked(l) == main_lock' = [main_lock EXCEPT ![l] = @ - 1]

Take(l) == main_lock[l] > 0 /\ main_lock' = [main_lock EXCEPT ![l] = @ - 1]

\* Variant of ReleaseRoute: the operator's lock is forgotten.
ReleaseModuleOnly(p) == main_lock' = [main_lock EXCEPT ![PaySysOf[p]] = @ + 1]

\* UnLockRead of the paysys and of the operator, if the pay has one.
ReleaseRoute(p) ==
  main_lock' = [l \in Locks |-> IF l \in {PaySysOf[p], OperOf[p]}
                                THEN main_lock[l] + 1 ELSE main_lock[l]]

workerFrame == <<poolVars, modeVars, pay, killed, lifetime, mainVars, adminVars>>

\* Variant of Wake: the wake-up is not consumed.
WakeWithoutWait(w) ==
  /\ sem[w] > 0
  /\ To(w, "wait", IF w \in killed THEN "exited" ELSE "start")
  /\ UNCHANGED <<workerFrame, sem, main_lock, payVars>>

\* worker->Wait(), then Killed().
Wake(w) ==
  /\ sem[w] > 0
  /\ To(w, "wait", IF w \in killed THEN "exited" ELSE "start")
  /\ sem' = [sem EXCEPT ![w] = @ - 1]
  /\ UNCHANGED <<workerFrame, main_lock, payVars>>

\* free_workers_lock is taken; with no pay the thread exits and keeps it.
Start(w) ==
  /\ IsFree
  /\ To(w, "start", IF Busy(w) THEN "claim" ELSE "exited")
  /\ free_workers_lock' = w
  /\ UNCHANGED <<workers_list, free_worker, working_workers, modeVars, pay, killed, sem,
                 lifetime, main_lock, mainVars, payVars, adminVars>>

\* paysys->lock.LockRead(), still holding free_workers_lock.
ClaimPaySys(w) ==
  /\ To(w, "claim", "claimop")
  /\ Take(PaySysOf[pay[w]])
  /\ UNCHANGED <<workerFrame, sem, payVars>>

\* operat->lock.LockRead(), then free_workers_lock is released.
ClaimOperator(w) ==
  /\ To(w, "claimop", "vlock")
  /\ IF OperOf[pay[w]] = NULL THEN UNCHANGED main_lock ELSE Take(OperOf[pay[w]])
  /\ free_workers_lock' = NULL
  /\ UNCHANGED <<workers_list, free_worker, working_workers, modeVars, pay, killed, sem,
                 lifetime, mainVars, payVars, adminVars>>

SkipValidator(w) ==
  /\ pay[w] \in ValidatorOff
  /\ To(w, "vlock", "decide")
  /\ UNCHANGED <<workerFrame, sem, main_lock, payVars>>

\* validator->lock.LockRead()
LockValidator(w) ==
  /\ pay[w] \notin ValidatorOff
  /\ To(w, "vlock", "validate")
  /\ Take(Validator)
  /\ UNCHANGED <<workerFrame, sem, payVars>>

Validate(w) ==
  /\ To(w, "validate", "decide")
  /\ main_lock' = [main_lock EXCEPT ![Validator] = @ + 1]
  /\ UNCHANGED <<workerFrame, sem, payVars>>

\* Every outcome that is settled without the module: validation failed, a test
\* that needs no module, a data format that does not match.
Settle(w) ==
  /\ To(w, "decide", "setstate")
  /\ ReleaseRoute(pay[w])
  /\ UNCHANGED <<workerFrame, sem, payVars>>

\* The validator warned and warnings are not ignored: the result is stored at
\* once, and no read lock is released on this branch.
SettleWarning(w) ==
  /\ pay[w] \in Strict \ ValidatorOff
  /\ To(w, "decide", "setstate")
  /\ UNCHANGED <<workerFrame, sem, main_lock, payVars>>

\* InitPay of the module, then both read locks are released.
InitPay(w) ==
  /\ To(w, "decide", "send")
  /\ ReleaseRoute(pay[w])
  /\ UNCHANGED <<workerFrame, sem, payVars>>

SendPay(w) ==
  /\ To(w, "send", "setstate")
  /\ sent' = [sent EXCEPT ![pay[w]] = @ + 1]
  /\ UNCHANGED <<workerFrame, sem, main_lock, fate, canceled>>

DBSetState(w) ==
  /\ To(w, "setstate", "finish")
  /\ fate' = [fate EXCEPT ![pay[w]] = "recorded"]
  /\ UNCHANGED <<workerFrame, sem, main_lock, sent, canceled>>

\* Variant of Finish: the worker is offered as free with its pay still set.
FinishKeepsPay(w) ==
  /\ IsFree
  /\ To(w, "finish", "wait")
  /\ working_workers' = working_workers - 1
  /\ free_worker' = w
  /\ UNCHANGED <<workers_list, free_workers_lock, modeVars, pay, killed, sem, lifetime, main_lock,
                 mainVars, payVars, adminVars>>

\* Under free_workers_lock: FinishPay and SetFreeWorker(worker).
Finish(w) ==
  /\ IsFree
  /\ To(w, "finish", "wait")
  /\ pay' = [pay EXCEPT ![w] = NULL]
  /\ lifetime' = [lifetime EXCEPT ![w] = 0]
  /\ working_workers' = working_workers - 1
  /\ free_worker' = w
  /\ UNCHANGED <<workers_list, free_workers_lock, modeVars, killed, sem, main_lock,
                 mainVars, payVars, adminVars>>

-----------------------------------------------------------------------------
(* Commands and signals.                                                   *)

\* Variants of KillWorker: the counter is forgotten; free_workers_lock is not taken.
KillUncounted(w) ==
  /\ "KILL" \in Commands /\ ListAlive /\ IsFree
  /\ w \in workers_list /\ Busy(w)
  /\ free_worker' = IF free_worker = w THEN NULL ELSE free_worker
  /\ Destroy({w}, "none")
  /\ fate' = [fate EXCEPT ![pay[w]] = IF @ = "running" THEN "killed" ELSE @]
  /\ UNCHANGED <<working_workers, free_workers_lock, modeVars, main_lock, mainVars, sent, canceled,
                 adminVars>>

KillUnlocked(w) ==
  /\ "KILL" \in Commands /\ ListAlive
  /\ w \in workers_list /\ Busy(w)
  /\ working_workers' = working_workers - 1
  /\ free_worker' = IF free_worker = w THEN NULL ELSE free_worker
  /\ Destroy({w}, "none")
  /\ fate' = [fate EXCEPT ![pay[w]] = IF @ = "running" THEN "killed" ELSE @]
  /\ UNCHANGED <<free_workers_lock, modeVars, main_lock, mainVars, sent, canceled, adminVars>>

\* P_CMD_KILL: the thread is cancelled wherever it is; what it holds stays held.
KillWorker(w) ==
  /\ "KILL" \in Commands /\ ListAlive /\ IsFree
  /\ w \in workers_list /\ Busy(w)
  /\ working_workers' = working_workers - 1
  /\ free_worker' = IF free_worker = w THEN NULL ELSE free_worker
  /\ Destroy({w}, "none")
  /\ fate' = [fate EXCEPT ![pay[w]] = IF @ = "running" THEN "killed" ELSE @]
  /\ UNCHANGED <<free_workers_lock, modeVars, main_lock, mainVars, sent, canceled, adminVars>>

\* P_CMD_CANCEL
CancelWorker(w) ==
  /\ "CANCEL" \in Commands /\ ListAlive /\ IsFree
  /\ w \in workers_list /\ Busy(w)
  /\ canceled' = canceled \cup {pay[w]}
  /\ UNCHANGED <<poolVars, modeVars, workerVars, main_lock, mainVars, fate, sent, adminVars>>

\* KILL or CANCEL while workers_list is NULL: the pointer is dereferenced.
CommandOnDeadList ==
  /\ Commands \cap {"KILL", "CANCEL"} # {}
  /\ main_pc \in {"dead", "reinit"}
  /\ main_pc' = "crash"
  /\ UNCHANGED <<poolVars, modeVars, workerVars, main_lock, new_pay, sleep_count,
                 working_state, cancel_pays, join_target, victims, payVars, adminVars>>

\* P_CMD_RELOAD_SO: ReConfPaysys rereads each module's configuration under
\* free_workers_lock, with a read lock on that module.
ReConfBegin ==
  /\ "RELOAD_SO" \in Commands /\ ListAlive /\ IsFree
  /\ free_workers_lock' = Ctl
  /\ reconf' = PaySystems
  /\ UNCHANGED <<workers_list, free_worker, working_workers, modeVars, workerVars, main_lock,
                 mainVars, payVars, reboots>>

\* Variant of ReConfStep: the cursor of modules_list never advances.
ReConfAgain(m) ==
  /\ m \in reconf /\ main_lock[m] > 0
  /\ UNCHANGED vars

ReConfStep(m) ==
  /\ m \in reconf /\ main_lock[m] > 0
  /\ reconf' = reconf \ {m}
  /\ free_workers_lock' = IF reconf' = {} THEN NULL ELSE Ctl
  /\ UNCHANGED <<workers_list, free_worker, working_workers, modeVars, workerVars, main_lock,
                 mainVars, payVars, reboots>>

\* P_CMD_SHUTDOWN and SIGINT.
Shutdown ==
  /\ "SHUTDOWN" \in Commands /\ ~Gone
  /\ working' = FALSE /\ quit' = TRUE
  /\ UNCHANGED <<poolVars, force_quit, workerVars, main_lock, mainVars, payVars, adminVars>>

SigTerm ==
  /\ "SIGTERM" \in Commands /\ ~Gone
  /\ working' = FALSE /\ quit' = TRUE /\ force_quit' = TRUE
  /\ UNCHANGED <<poolVars, workerVars, main_lock, mainVars, payVars, adminVars>>

Reboot ==
  /\ "REBOOT" \in Commands /\ ~Gone /\ reboots < MaxReboots
  /\ working' = FALSE /\ quit' = FALSE
  /\ reboots' = reboots + 1
  /\ UNCHANGED <<poolVars, force_quit, workerVars, main_lock, mainVars, payVars, reconf>>

\* A client or the database offers a pay.
Arrive(p) ==
  /\ fate[p] = "unseen" /\ ~Gone
  /\ fate' = [fate EXCEPT ![p] = "queued"]
  /\ UNCHANGED <<poolVars, modeVars, workerVars, main_lock, mainVars, sent, canceled, adminVars>>

-----------------------------------------------------------------------------

Init ==
  /\ \E S \in SUBSET Workers :
       /\ Created(S)
       /\ workers_list = S
       /\ thread = [w \in Workers |-> IF w \in S THEN "wait" ELSE "none"]
       /\ free_worker \in (IF S = {} THEN {NULL} ELSE S)
  /\ working_workers = 0 /\ free_workers_lock = NULL
  /\ working = TRUE /\ quit = FALSE /\ force_quit = FALSE
  /\ pay = [w \in Workers |-> NULL]
  /\ killed = {}
  /\ sem = [w \in Workers |-> 0]
  /\ lifetime = [w \in Workers |-> 0]
  /\ main_lock = [l \in Locks |-> Readers]
  /\ main_pc = "poll" /\ new_pay = NULL /\ sleep_count = 0
  /\ working_state = TRUE /\ cancel_pays = FALSE
  /\ join_target = NULL /\ victims = {}
  /\ fate = [p \in Pays |-> "unseen"]
  /\ sent = [p \in Pays |-> 0]
  /\ canceled = {} /\ reconf = {} /\ reboots = 0

\* What the main thread does by itself.
MainStep ==
  \/ \E p \in Pays : PollTake(p)
  \/ PollRetry \/ PollNothing
  \/ \E w \in Workers : DispatchToIdle(w) \/ DispatchToNew(w)
  \/ DispatchFails \/ Tick
  \/ \E S \in SUBSET Workers : ManagerBegin(S)
  \/ ManagerEnd
  \/ \E w \in Workers : DrainKill(w) \/ DrainRemove(w)
  \/ DrainRemoveNone \/ DrainEnd \/ Exit \/ RebootBegin
  \/ \E S \in SUBSET Workers : RebootEnd(S)

\* Steps of a worker that do not need free_workers_lock.
WorkerStep(w) ==
  \/ Wake(w) \/ ClaimPaySys(w) \/ ClaimOperator(w)
  \/ SkipValidator(w) \/ LockValidator(w) \/ Validate(w)
  \/ Settle(w) \/ SettleWarning(w) \/ InitPay(w) \/ SendPay(w) \/ DBSetState(w)

Command ==
  \/ \E w \in Workers : KillWorker(w) \/ CancelWorker(w)
  \/ CommandOnDeadList
  \/ ReConfBegin \/ \E m \in PaySystems : ReConfStep(m)
  \/ Shutdown \/ SigTerm \/ Reboot

Stopped == Gone /\ UNCHANGED vars

Next ==
  \/ MainStep
  \/ \E w \in Workers : WorkerStep(w) \/ Start(w) \/ Finish(w)
  \/ Command
  \/ \E p \in Pays : Arrive(p)
  \/ Stopped

Spec == Init /\ [][Next]_vars

\* Every thread that can run again and again gets to run: the scheduler is fair
\* and so is sem_wait, main leaving free_workers_lock free for 50 ms per tick.
\* Clients and the administrator promise nothing.
Thread(w) == WorkerStep(w) \/ Start(w) \/ Finish(w)
CtlThread == \E m \in PaySystems : ReConfStep(m)

FairSpec ==
  /\ Spec
  /\ SF_vars(MainStep)
  /\ \A w \in Workers : SF_vars(Thread(w))
  /\ SF_vars(CtlThread)

-----------------------------------------------------------------------------
(* Properties.                                                             *)

\* Type invariant.
TypeOK ==
  /\ workers_list \subseteq Workers
  /\ free_worker \in Workers \cup {NULL}
  /\ working_workers \in Int
  /\ free_workers_lock \in Workers \cup {NULL, Main, Ctl}
  /\ working \in BOOLEAN /\ quit \in BOOLEAN /\ force_quit \in BOOLEAN
  /\ pay \in [Workers -> Pays \cup {NULL}]
  /\ killed \subseteq Workers
  /\ sem \in [Workers -> Nat]
  /\ lifetime \in [Workers -> Nat]
  /\ thread \in [Workers -> Phases]
  /\ main_lock \in [Locks -> Nat]
  /\ main_pc \in MainPhases
  /\ new_pay \in Pays \cup {NULL}
  /\ sleep_count \in Nat
  /\ working_state \in BOOLEAN /\ cancel_pays \in BOOLEAN
  /\ join_target \in Workers \cup {NULL}
  /\ victims \subseteq Workers
  /\ reconf \subseteq PaySystems
  /\ fate \in [Pays -> Fates]
  /\ sent \in [Pays -> Nat]
  /\ canceled \subseteq Pays
  /\ reboots \in Nat

Serving == main_pc \in {"poll", "dispatch", "tick", "manage", "mjoin"}

\* The contract of SetFreeWorker (worker.h): as long as main dispatches pays,
\* free_worker is a listed worker whose live thread waits with no pay, no pending
\* wake-up and no order to exit, whoever set it last.
FreeWorkerReady ==
  Serving /\ free_worker # NULL =>
    /\ free_worker \in workers_list
    /\ ~Busy(free_worker) /\ free_worker \notin killed
    /\ thread[free_worker] = "wait" /\ sem[free_worker] = 0

\* working_workers, which main, finishing workers and KILL change in different
\* threads, is the number of listed workers with a pay: what MONITOR reports.
BusyCounted ==
  Serving => working_workers = Cardinality({w \in workers_list : Busy(w)})

\* Whoever holds free_workers_lock is still running a critical section: no thread
\* ever exits (WorkEx, pay==NULL), is cancelled or is deleted while it holds it.
LockHolderAlive ==
  /\ \A w \in Workers : free_workers_lock = w <=> thread[w] \in {"claim", "claimop"}
  /\ free_workers_lock = Main <=> main_pc = "mjoin"
  /\ free_workers_lock = Ctl <=> reconf # {}

\* A pay is owned once: it is main's new_pay or the pay of one worker, and that
\* worker's thread has been woken for it and has not gone away.
PayHasOneOwner ==
  /\ \A p \in Pays : fate[p] = "held" <=> new_pay = p
  /\ \A p \in Pays : fate[p] = "running" => \E w \in workers_list : pay[w] = p
  /\ \A v, w \in Workers : Busy(v) /\ pay[v] = pay[w] => v = w
  /\ Serving => \A w \in workers_list : Busy(w) =>
        \/ thread[w] = "wait" /\ sem[w] > 0
        \/ thread[w] \notin {"none", "wait", "exited", "orphan"}

\* SetFreeWorker never grows the pool past thread_max (or the thread_min threads
\* that WorkInit creates, should thread_min be the larger).
PoolBounded ==
  Cardinality(workers_list) <= IF ThreadMax > ThreadMin THEN ThreadMax ELSE ThreadMin

\* ManagerEx never retires so many workers that fewer than thread_min are left,
\* and never one that a pay has been given to.
ManagerKeepsMinimum ==
  [][main_pc = "mjoin" /\ main_pc' # "mjoin" /\ workers_list' # workers_list =>
       /\ Cardinality(workers_list') >= ThreadMin
       /\ \A w \in workers_list \ workers_list' : ~Busy(w)]_vars

\* No pay is handed to its module twice, however it travels through the pool.
SendOnce == \A p \in Pays : sent[p] <= 1

\* Read locks of module and operator in use, by a worker that is past LockRead
\* and not yet past UnLockRead.
Holding(l) ==
    Cardinality({w \in Workers : /\ thread[w] \in {"claimop", "vlock", "validate", "decide"}
                                 /\ PaySysOf[pay[w]] = l})
  + Cardinality({w \in Workers : /\ thread[w] \in {"vlock", "validate", "decide"}
                                 /\ OperOf[pay[w]] = l})
  + Cardinality({w \in Workers : thread[w] = "validate" /\ Validator = l})

\* Every read lock a worker takes in WorkEx is given back on every path.
ReadLocksBalanced == \A l \in Locks : main_lock[l] + Holding(l) = Readers

\* Every pay offered to the daemon gets a result, unless it is told to stop (no KILL).
EveryPaySettled ==
  \A p \in Pays : fate[p] = "queued" ~> fate[p] = "recorded" \/ ~working

\* free_workers_lock, which main, workers, manager and commands share, is never
\* kept for ever.
LockReleased == []<>IsFree

\* When the load is gone ManagerEx brings the pool back to thread_min.
SurplusRetired ==
  (\A p \in Pays : fate[p] = "recorded") ~> Cardinality(workers_list) <= ThreadMin

\* "Waiting for all active pays to end - for safe exit": a shutdown request ends in
\* the exit of the daemon once the modules return.
ShutdownEnds == quit ~> main_pc = "exit"

-----------------------------------------------------------------------------
(* The inductive invariant behind FreeWorkerReady, LockHolderAlive and       *)
(* PayHasOneOwner.                                                           *)

Working == {"start", "claim", "claimop", "vlock", "validate", "decide", "send",
            "setstate", "finish"}

\* A worker is listed exactly while it has a thread; only a listed one has a pay.
ListInv ==
  /\ \A w \in Workers : w \in workers_list <=> thread[w] \notin {"none", "orphan"}
  /\ \A w \in Workers : Busy(w) => w \in workers_list
  /\ ~ListAlive => workers_list = {}

\* The wake-up semaphore matches what the thread has been woken for: one post for
\* a pay it has not started, none otherwise, at least one once it is to exit.
SemInv ==
  \A w \in workers_list :
    /\ thread[w] = "wait" => IF w \in killed THEN sem[w] > 0
                             ELSE IF Busy(w) THEN sem[w] = 1 ELSE sem[w] = 0
    /\ thread[w] \in Working => Busy(w) /\ (IF w \in killed THEN sem[w] > 0 ELSE sem[w] = 0)
    /\ thread[w] = "exited" => w \in killed

\* Only main tells workers to exit: the victims of ManagerEx, which are idle, while
\* it joins them, or the one worker the drain waits for.
KilledInv ==
  /\ main_pc = "mjoin" => /\ killed = victims /\ victims \subseteq workers_list
                          /\ \A w \in victims : ~Busy(w) /\ free_worker # w
  /\ main_pc = "djoin" => killed \subseteq {join_target} /\ join_target # NULL
  /\ main_pc \notin {"mjoin", "djoin"} => killed = {}
  /\ main_pc # "mjoin" => victims = {}
  /\ killed \subseteq workers_list

\* The fate of a pay agrees with the worker that has it.
FateInv ==
  /\ \A w \in Workers : Busy(w) =>
       fate[pay[w]] = IF thread[w] = "finish" THEN "recorded" ELSE "running"
  /\ main_pc = "dispatch" => new_pay # NULL

PoolInv ==
  /\ ListInv /\ SemInv /\ KilledInv /\ FateInv
  /\ FreeWorkerReady /\ LockHolderAlive /\ PayHasOneOwner

\* What SendOnce needs when no KILL can arrive: a pay that may still reach its
\* module has not been there.
SendInv ==
  /\ \A p \in Pays : fate[p] \in {"unseen", "queued", "held", "dropped"} => sent[p] = 0
  /\ \A w \in Workers : Busy(w) /\ thread[w] \notin {"setstate", "finish"} => sent[pay[w]] = 0
  /\ main_pc = "djoin" => join_target \in workers_list
  /\ \A p \in Pays : fate[p] # "killed"
  /\ SendOnce
=============================================================================
