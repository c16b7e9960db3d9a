----------------------------- MODULE CheckReqs ------------------------------
(***************************************************************************)
(* Online checks: the table check_reqs, the lock of its connection and the *)
(* threads that share them.  Both front ends look a request (bill_num, tid)*)
(* up, insert it with the result "unknown" and update it when a worker     *)
(* has the result; main hands a check to a worker in between.              *)
(***************************************************************************)
EXTENDS Integers, Sequences, FiniteSets, SequencesExt

CONSTANTS
  Keys,         \* requests: (bill_num, tid)
  NoId,         \* the requests with id 0, which are not recorded
  Workers,
  Results,      \* what a module may answer
  UNKNOWN, QUEUE_FULL, NULL

ASSUME CheckConstants ==
  /\ NULL \notin Keys \cup Workers \cup Results \cup {UNKNOWN, QUEUE_FULL}
  /\ UNKNOWN # QUEUE_FULL /\ NoId \in Keys /\ IsFiniteSet(Workers)
  /\ {"main", "GetData", "server"} \cap Workers = {}

VARIABLES
  check_reqs,           \* the result of each recorded request; NULL: no row
  db_lock_checkreqs,    \* value of the semaphore
  inside,               \* threads that are using db_checkreqs_connection
  at,                   \* where each thread stands
  pay                   \* the SPay and SPayResult each thread holds

checkVars == <<check_reqs, db_lock_checkreqs, inside, at, pay>>

Threads == {"main", "GetData", "server"} \cup Workers

\* An SPay: xml_sock is NULL for a pay of the binary front end.
SPay(k, s) == [key |-> k, xml_sock |-> s, code |-> NULL]

CheckInit ==
  /\ check_reqs = [k \in Keys |-> NULL]
  /\ db_lock_checkreqs = 1 /\ inside = {}
  /\ at = [t \in Threads |-> "loop"] /\ pay = [t \in Threads |-> NULL]

\* sem_wait(&db_lock_checkreqs), before a query.
Enter(t, from, to) ==
  /\ at[t] = from /\ db_lock_checkreqs > 0
  /\ db_lock_checkreqs' = db_lock_checkreqs - 1 /\ inside' = inside \cup {t}
  /\ at' = [at EXCEPT ![t] = to]
  /\ UNCHANGED <<check_reqs, pay>>

\* sem_post, after the query: my_db_query returns only when the query was executed, however
\* often it has to restore the connection first.
Leave(t) == db_lock_checkreqs' = db_lock_checkreqs + 1 /\ inside' = inside \ {t}

\* "insert into check_reqs": a row that is there stays.  Either the insert is refused, and
\* ER_DUP_ENTRY is not looked at, or the lookups go on to read the first row.
Insert(k) ==
  check_reqs' = IF check_reqs[k] # NULL THEN check_reqs ELSE [check_reqs EXCEPT ![k] = UNKNOWN]

\* "update check_reqs": a request that has no row stays without one.
Update(k, code) ==
  check_reqs' = IF check_reqs[k] = NULL THEN check_reqs ELSE [check_reqs EXCEPT ![k] = code]

\* What PCSetState and XMLSetState begin with: the result is recorded.
SetStateEnter(t) == Enter(t, "update", "updating")

SetStateLeave(t) ==
  /\ at[t] = "updating"
  /\ Update(pay[t].key, pay[t].code)
  /\ Leave(t)
  /\ at' = [at EXCEPT ![t] = IF pay[t].xml_sock = NULL THEN "find" ELSE "answer"]
  /\ UNCHANGED pay

\* Main has a check that no worker has yet; LaunchNewPay gives it to an idle one.
Launch(w) ==
  /\ at["main"] = "ready" /\ at[w] = "loop"
  /\ at' = [at EXCEPT !["main"] = "loop", ![w] = "run"]
  /\ pay' = [pay EXCEPT !["main"] = NULL, ![w] = pay["main"]]
  /\ UNCHANGED <<check_reqs, db_lock_checkreqs, inside>>

\* A module has answered: DBSetState sends the result to the front end of the check.
\* A request with id 0 is not updated by PCSetState.
DBSetState(w, r) ==
  /\ at[w] = "run"
  /\ pay' = [pay EXCEPT ![w].code = r]
  /\ at' = [at EXCEPT ![w] = IF pay[w].key = NoId /\ pay[w].xml_sock = NULL THEN "find" ELSE "update"]
  /\ UNCHANGED <<check_reqs, db_lock_checkreqs, inside>>

\* The thread is through: a worker is idle again, GetData goes on with its loop.
Done(t) == at' = [at EXCEPT ![t] = "loop"] /\ pay' = [pay EXCEPT ![t] = NULL]
=============================================================================
