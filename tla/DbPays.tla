------------------------------- MODULE DbPays -------------------------------
(***************************************************************************)
(* db.cpp: how pays are taken from the database (DBGetNextPay, main        *)
(* thread), how their results are stored (DBSetState, worker threads), and *)
(* how a lost connection is restored (DBFixConnection, either), with the   *)
(* commands of ctl.cpp that share the locks.                               *)
(*                                                                         *)
(* db_lock_read guards active_pays_list and the read connection,           *)
(* db_lock_write the write connection; DBFixConnection reopens both.       *)
(*                                                                         *)
(* active_pays_list has at most one entry per pay: it is a function from   *)
(* pays to the state of their entry.  Rows come in random order ("order by *)
(* rr"), so that pays_cash is a set.                                       *)
(***************************************************************************)
EXTENDS Integers, FiniteSets, Sequences

CONSTANTS
  Pays,            \* rows of pays_main
  Workers,         \* worker threads
  Main, NULL,
  SelectLimit,     \* "limit 150" of the select
  Attempts,        \* db_reconnect_attempts, if not negative
  Endless,         \* db_reconnect_attempts<0: attempts never end
  Results,         \* kinds of result a module gives
  QueryErrors,     \* whether a query may fail although the connection is up
  HeapReuse,       \* whether a new entry may get the memory of a deleted one
  Commands,        \* "STOP", "RUN", "RELOAD", "REBOOT"
  MaxLosses,       \* bound: times the connection is lost
  MaxReboots       \* bound: reboots

\* "final": SUCESS, FAILED, KILLED, CANCELED, NO_PAY_SYS, 31, 101, 106, 109 and unknown
\* codes, after which the select finds the row no more; "sleep": SAVE_STATE with sleep>0;
\* "nothing": DO_NOTHING, or SAVE_STATE with sleep=0, which update nothing.
ResultKinds == {"final", "sleep", "nothing"}

ASSUME DbConstants ==
  /\ IsFiniteSet(Pays) /\ NULL \notin Pays
  /\ {Main, NULL} \cap Workers = {}
  /\ NULL # Main
  /\ SelectLimit \in Nat \ {0} /\ Attempts \in Nat /\ Endless \in BOOLEAN
  /\ Results \subseteq ResultKinds
  /\ QueryErrors \in BOOLEAN /\ HeapReuse \in BOOLEAN
  /\ MaxLosses \in Nat /\ MaxReboots \in Nat

VARIABLES
  row,            \* external: "absent", "new" (the select finds it), "sleeping", "final"
  active_pays,    \* entry of each pay in active_pays_list: "none", "active" (0), "done" (1)
  pays_cash, any_results, db_down, db_accept_new_pays,
  db_lock_read, db_lock_write,  \* the holder, or NULL
  server,         \* external: the MySQL server can be reached
  link,           \* the read and write connections are open
  main_pc, new_pay,
  pc, job, result,
  frames,         \* tmp of each DBSetState call of a worker, the innermost last
  made_reconnects,
  losses, reboots,
  verdict         \* history: what the module last said about a pay

listVars  == <<active_pays, pays_cash, any_results>>
flagVars  == <<db_down, db_accept_new_pays>>
lockVars  == <<db_lock_read, db_lock_write>>
linkVars  == <<server, link, losses>>
mainVars  == <<main_pc, new_pay>>
workVars  == <<pc, job, result, frames, verdict>>
vars == <<row, listVars, flagVars, lockVars, linkVars, mainVars, workVars,
          made_reconnects, reboots>>

Init ==
  /\ row = [p \in Pays |-> "absent"]
  /\ active_pays = [p \in Pays |-> "none"]
  /\ pays_cash = {} /\ any_results = 0 /\ db_down = FALSE /\ db_accept_new_pays = TRUE
  /\ db_lock_read = NULL /\ db_lock_write = NULL
  /\ server = TRUE /\ link = TRUE /\ losses = 0
  /\ main_pc = "idle" /\ new_pay = NULL
  /\ pc = [w \in Workers |-> "idle"]
  /\ job = [w \in Workers |-> NULL]
  /\ result = [w \in Workers |-> "nothing"]
  /\ frames = [w \in Workers |-> <<>>]
  /\ verdict = [p \in Pays |-> "none"]
  /\ made_reconnects = 0 /\ reboots = 0

-----------------------------------------------------------------------------
(* DBGetNextPay, in the main thread.                                       *)

\* Called when main has no pay left over; with a cash the database is not asked.
PollBegin ==
  /\ main_pc = "idle" /\ new_pay = NULL
  /\ \/ any_results = 0 /\ ~db_down /\ main_pc' = "rlock"
     \/ any_results = 1 /\ main_pc' = "take"
  /\ UNCHANGED <<row, listVars, flagVars, lockVars, linkVars, new_pay, workVars,
                 made_reconnects, reboots>>

\* Variant of Purge: the state of the entry is not looked at.
PurgeAll ==
  /\ active_pays' = [p \in Pays |-> "none"]
  /\ frames' = [w \in Workers |-> [k \in DOMAIN frames[w] |-> "deleted"]]

\* Entries whose pay is complete leave active_pays_list and are deleted.
Purge ==
  LET Gone == {p \in Pays : active_pays[p] = "done"} IN
  /\ active_pays' = [p \in Pays |-> IF p \in Gone THEN "none" ELSE active_pays[p]]
  /\ frames' = [w \in Workers |->
                  IF job[w] \in Gone THEN [k \in DOMAIN frames[w] |-> "deleted"] ELSE frames[w]]

\* Under db_lock_read: nothing while stopped, otherwise the list is cleared.
PollLock ==
  /\ main_pc = "rlock" /\ db_lock_read = NULL
  /\ \/ /\ ~db_accept_new_pays
        /\ main_pc' = "idle"
        /\ UNCHANGED <<active_pays, frames, db_lock_read>>
     \/ /\ db_accept_new_pays
        /\ main_pc' = "query"
        /\ db_lock_read' = Main
        /\ Purge
  /\ UNCHANGED <<row, pays_cash, any_results, flagVars, db_lock_write, linkVars,
                 new_pay, pc, job, result, verdict, made_reconnects, reboots>>

\* The rows the select returns: at most SelectLimit of those it finds.
Selected(S) ==
  LET Found == {p \in Pays : row[p] = "new"} IN
  /\ S \subseteq Found
  /\ Cardinality(S) = IF Cardinality(Found) < SelectLimit THEN Cardinality(Found) ELSE SelectLimit

\* Variant of PollQuery: any_results is not set.
PollQueryForgets(S) ==
  LET New == {p \in S : active_pays[p] = "none"} IN
  /\ main_pc = "query" /\ link
  /\ Selected(S)
  /\ active_pays' = [p \in Pays |-> IF p \in New THEN "active" ELSE active_pays[p]]
  /\ pays_cash' = pays_cash \cup New
  /\ db_lock_read' = NULL
  /\ main_pc' = "idle"
  /\ UNCHANGED <<row, any_results, flagVars, db_lock_write, linkVars, new_pay, workVars,
                 made_reconnects, reboots>>

\* Rows that are not in progress get an entry and go to the cash.
PollQuery(S) ==
  LET New == {p \in S : active_pays[p] = "none"} IN
  /\ main_pc = "query" /\ link
  /\ Selected(S)
  /\ active_pays' = [p \in Pays |-> IF p \in New THEN "active" ELSE active_pays[p]]
  /\ pays_cash' = pays_cash \cup New
  /\ any_results' = IF New # {} THEN 1 ELSE any_results
  /\ db_lock_read' = NULL
  /\ main_pc' = IF any_results' = 1 THEN "take" ELSE "idle"
  /\ UNCHANGED <<row, flagVars, db_lock_write, linkVars, new_pay, workVars,
                 made_reconnects, reboots>>

\* The query failed: db_lock_write is awaited with db_lock_read held.
PollFails ==
  /\ main_pc = "query" /\ (~link \/ QueryErrors)
  /\ any_results' = 0
  /\ main_pc' = "wlock"
  /\ UNCHANGED <<row, active_pays, pays_cash, flagVars, lockVars, linkVars, new_pay,
                 workVars, made_reconnects, reboots>>

\* DBFixConnection returns at once unless the connection is gone.
PollFix ==
  /\ main_pc = "wlock" /\ db_lock_write = NULL
  /\ \/ /\ ~link
        /\ main_pc' = "fix" /\ made_reconnects' = 1
        /\ db_lock_write' = Main /\ UNCHANGED db_lock_read
     \/ /\ link
        /\ main_pc' = "idle"
        /\ db_lock_read' = NULL
        /\ UNCHANGED <<db_lock_write, made_reconnects>>
  /\ UNCHANGED <<row, listVars, flagVars, linkVars, new_pay, workVars, reboots>>

\* Variant of Take: any_results is reset with every pay.
TakeOne(p) ==
  /\ main_pc = "take" /\ p \in pays_cash
  /\ pays_cash' = pays_cash \ {p}
  /\ any_results' = 0
  /\ new_pay' = p
  /\ main_pc' = "idle"
  /\ UNCHANGED <<row, active_pays, flagVars, lockVars, linkVars, workVars,
                 made_reconnects, reboots>>

\* The next pay leaves the cash, and DBGetNextPay returns it.
Take(p) ==
  /\ main_pc = "take" /\ p \in pays_cash
  /\ pays_cash' = pays_cash \ {p}
  /\ any_results' = IF pays_cash' = {} THEN 0 ELSE any_results
  /\ new_pay' = p
  /\ main_pc' = "idle"
  /\ UNCHANGED <<row, active_pays, flagVars, lockVars, linkVars, workVars,
                 made_reconnects, reboots>>

\* any_results survives a reboot, the cash does not.
TakeNothing ==
  /\ main_pc = "take" /\ pays_cash = {}
  /\ any_results' = 0
  /\ main_pc' = "idle"
  /\ UNCHANGED <<row, active_pays, pays_cash, flagVars, lockVars, linkVars, new_pay,
                 workVars, made_reconnects, reboots>>

\* LaunchNewPay: an idle worker gets the pay.
Launch(w) ==
  /\ main_pc = "idle" /\ new_pay # NULL /\ pc[w] = "idle"
  /\ pc' = [pc EXCEPT ![w] = "send"]
  /\ job' = [job EXCEPT ![w] = new_pay]
  /\ new_pay' = NULL
  /\ UNCHANGED <<row, listVars, flagVars, lockVars, linkVars, main_pc, result, frames,
                 verdict, made_reconnects, reboots>>

\* ReloadConfigIfImportant between two polls: ReloadConfigValues takes both locks,
\* db_lock_read first.
ReloadBegin ==
  /\ "RELOAD" \in Commands /\ main_pc = "idle" /\ db_lock_read = NULL
  /\ db_lock_read' = Main
  /\ main_pc' = "reload"
  /\ UNCHANGED <<row, listVars, flagVars, db_lock_write, linkVars, new_pay, workVars,
                 made_reconnects, reboots>>

\* Variant of ReloadEnd: a loop on sem_trywait that never leaves.
ReloadSpins == main_pc = "reload" /\ UNCHANGED vars

ReloadEnd ==
  /\ main_pc = "reload" /\ db_lock_write = NULL
  /\ db_lock_read' = NULL
  /\ main_pc' = "idle"
  /\ UNCHANGED <<row, listVars, flagVars, db_lock_write, linkVars, new_pay, workVars,
                 made_reconnects, reboots>>

-----------------------------------------------------------------------------
(* DBSetState, in worker threads.                                          *)

Goto(w, from, to) == pc[w] = from /\ pc' = [pc EXCEPT ![w] = to]

\* The module returns a result, and DBSetState is called with it.
Send(w, r) ==
  /\ Goto(w, "send", "look")
  /\ result' = [result EXCEPT ![w] = r]
  /\ verdict' = [verdict EXCEPT ![job[w]] = r]
  /\ UNCHANGED <<row, listVars, flagVars, lockVars, linkVars, mainVars, job, frames,
                 made_reconnects, reboots>>

\* A call of DBSetState returns to the call it retries for, or to WorkEx.
Return(w, fs) ==
  /\ frames' = [frames EXCEPT ![w] = fs]
  /\ pc' = [pc EXCEPT ![w] = IF fs = <<>> THEN "idle" ELSE "mark"]
  /\ job' = [job EXCEPT ![w] = IF fs = <<>> THEN NULL ELSE @]

\* Under db_lock_read: -10 while the database is down, -1 without an entry.
LookUp(w) ==
  /\ pc[w] = "look" /\ db_lock_read = NULL
  /\ \/ /\ db_down \/ active_pays[job[w]] = "none"
        /\ Return(w, frames[w])
     \/ /\ ~db_down /\ active_pays[job[w]] # "none"
        /\ frames' = [frames EXCEPT ![w] = Append(@, "entry")]
        /\ pc' = [pc EXCEPT ![w] = "wlock"]
        /\ UNCHANGED job
  /\ UNCHANGED <<row, listVars, flagVars, lockVars, linkVars, mainVars, result, verdict,
                 made_reconnects, reboots>>

WriteLock(w) ==
  /\ Goto(w, "wlock", "write")
  /\ db_lock_write = NULL /\ db_lock_write' = w
  /\ UNCHANGED <<row, listVars, flagVars, db_lock_read, linkVars, mainVars, job, result,
                 frames, verdict, made_reconnects, reboots>>

\* Variant of Updated: the branch of final codes is missing.
UpdatedSleepOnly(w) == [row EXCEPT ![job[w]] = IF result[w] = "sleep" THEN "sleeping" ELSE @]

\* The row after the update of pays_main.
Updated(w) ==
  [row EXCEPT ![job[w]] = CASE result[w] = "final" -> "final"
                            [] result[w] = "sleep" -> "sleeping"
                            [] OTHER -> @]

\* All queries succeeded (without one, DO_NOTHING needs no connection).
Write(w) ==
  /\ Goto(w, "write", "mark")
  /\ link \/ result[w] = "nothing"
  /\ row' = Updated(w)
  /\ db_lock_write' = NULL
  /\ UNCHANGED <<listVars, flagVars, db_lock_read, linkVars, mainVars, job, result,
                 frames, verdict, made_reconnects, reboots>>

\* One of them failed, the update of pays_main or a later one: db_lock_read is
\* awaited with db_lock_write held.
WriteFails(w) ==
  /\ Goto(w, "write", "rlock")
  /\ ~link \/ QueryErrors
  /\ row' \in {row, Updated(w)}
  /\ UNCHANGED <<listVars, flagVars, lockVars, linkVars, mainVars, job, result, frames,
                 verdict, made_reconnects, reboots>>

\* Variant of SetStateFix: db_lock_read is not taken.
SetStateFixUnlocked(w) ==
  /\ \/ /\ ~link
        /\ Goto(w, "rlock", "fix") /\ made_reconnects' = 1
        /\ UNCHANGED lockVars
     \/ /\ link
        /\ Goto(w, "rlock", "mark")
        /\ db_lock_write' = NULL
        /\ UNCHANGED <<db_lock_read, made_reconnects>>
  /\ UNCHANGED <<row, listVars, flagVars, linkVars, mainVars, job, result, frames,
                 verdict, reboots>>

SetStateFix(w) ==
  /\ db_lock_read = NULL
  /\ \/ /\ ~link
        /\ Goto(w, "rlock", "fix") /\ made_reconnects' = 1
        /\ db_lock_read' = w /\ UNCHANGED db_lock_write
     \/ /\ link
        /\ Goto(w, "rlock", "mark")
        /\ db_lock_write' = NULL
        /\ UNCHANGED <<db_lock_read, made_reconnects>>
  /\ UNCHANGED <<row, listVars, flagVars, linkVars, mainVars, job, result, frames,
                 verdict, reboots>>

\* The entry that tmp->state=1 reaches: through the pointer to a deleted entry the
\* write goes to free memory (NULL), or to the entry that has this memory now.
Reached(w) ==
  IF frames[w][Len(frames[w])] = "entry" THEN {job[w]}
  ELSE {NULL} \cup {p \in Pays : HeapReuse /\ active_pays[p] # "none"}

\* "Mark pay in active pays list as complited", under db_lock_read.
Mark(w) ==
  /\ pc[w] = "mark" /\ db_lock_read = NULL
  /\ \E p \in Reached(w) :
       active_pays' = [q \in Pays |-> IF q = p THEN "done" ELSE active_pays[q]]
  /\ Return(w, SubSeq(frames[w], 1, Len(frames[w]) - 1))
  /\ UNCHANGED <<row, pays_cash, any_results, flagVars, lockVars, linkVars, mainVars,
                 result, verdict, made_reconnects, reboots>>

-----------------------------------------------------------------------------
(* DBFixConnection, with both locks held by thread t.                      *)

Fixing(t) == IF t = Main THEN main_pc = "fix" ELSE pc[t] = "fix"

\* DBConnectionDown, DBConnectionUp: all connections are closed and opened again.
Reopen(up) == link' = up

\* Variant of Fixed: DBSetState is not called again.
FixedWithoutRetry(t) ==
  /\ Fixing(t) /\ server
  /\ Reopen(TRUE)
  /\ db_down' = FALSE
  /\ db_lock_read' = NULL /\ db_lock_write' = NULL
  /\ IF t = Main THEN main_pc' = "idle" /\ UNCHANGED pc
     ELSE pc' = [pc EXCEPT ![t] = "mark"] /\ UNCHANGED main_pc
  /\ UNCHANGED <<row, listVars, db_accept_new_pays, server, losses,
                 new_pay, job, result, frames, verdict, made_reconnects, reboots>>

\* Restored: main returns NULL, a worker calls DBSetState again.
Fixed(t) ==
  /\ Fixing(t) /\ server
  /\ Reopen(TRUE)
  /\ db_down' = FALSE
  /\ db_lock_read' = NULL /\ db_lock_write' = NULL
  /\ IF t = Main THEN main_pc' = "idle" /\ UNCHANGED pc
     ELSE pc' = [pc EXCEPT ![t] = "look"] /\ UNCHANGED main_pc
  /\ UNCHANGED <<row, listVars, db_accept_new_pays, server, losses,
                 new_pay, job, result, frames, verdict, made_reconnects, reboots>>

\* The server is away: another attempt after a while, endlessly if so configured.
FixRetry(t) ==
  /\ Fixing(t) /\ ~server
  /\ made_reconnects < Attempts \/ Endless
  /\ Reopen(FALSE)
  /\ made_reconnects' = IF Endless THEN made_reconnects ELSE made_reconnects + 1
  /\ UNCHANGED <<row, listVars, flagVars, lockVars, server, losses,
                 mainVars, workVars, reboots>>

\* Not restored: the database is down, and the result is lost with it.
FixFails(t) ==
  /\ Fixing(t) /\ ~server
  /\ made_reconnects >= Attempts /\ ~Endless
  /\ Reopen(FALSE)
  /\ db_down' = TRUE
  /\ db_lock_read' = NULL /\ db_lock_write' = NULL
  /\ IF t = Main THEN main_pc' = "idle" /\ UNCHANGED pc
     ELSE pc' = [pc EXCEPT ![t] = "mark"] /\ UNCHANGED main_pc
  /\ UNCHANGED <<row, listVars, db_accept_new_pays, server, losses,
                 new_pay, job, result, frames, verdict, made_reconnects, reboots>>

-----------------------------------------------------------------------------
(* Commands, reboot.                                                       *)

SetAccept(cmd, on) ==
  /\ cmd \in Commands /\ db_lock_read = NULL
  /\ db_accept_new_pays' = on
  /\ UNCHANGED <<row, listVars, db_down, lockVars, linkVars, mainVars, workVars,
                 made_reconnects, reboots>>
Stop == db_accept_new_pays /\ SetAccept("STOP", FALSE)
Run  == ~db_accept_new_pays /\ SetAccept("RUN", TRUE)

\* After the drain: connections closed, lists deleted; a pay in new_pay is forgotten.
DBShutdown ==
  /\ "REBOOT" \in Commands /\ reboots < MaxReboots
  /\ main_pc = "idle" /\ \A w \in Workers : pc[w] = "idle"
  /\ db_lock_read = NULL /\ db_lock_write = NULL
  /\ Reopen(FALSE)
  /\ active_pays' = [p \in Pays |-> "none"] /\ pays_cash' = {}
  /\ new_pay' = NULL /\ main_pc' = "down" /\ reboots' = reboots + 1
  /\ UNCHANGED <<row, any_results, flagVars, lockVars, server, losses,
                 workVars, made_reconnects>>

\* New lists and connections; without a server the daemon starts all the same.
DBInit ==
  /\ main_pc = "down" /\ db_lock_read = NULL /\ db_lock_write = NULL
  /\ link' = server /\ db_down' = ~server
  /\ main_pc' = "idle"
  /\ UNCHANGED <<row, listVars, db_accept_new_pays, lockVars, server, losses, new_pay,
                 workVars, made_reconnects, reboots>>

-----------------------------------------------------------------------------
(* The database (external).                                                *)

dbFrame == <<listVars, flagVars, lockVars, mainVars, workVars, made_reconnects, reboots>>

Arrive(p) ==
  /\ row[p] = "absent"
  /\ row' = [row EXCEPT ![p] = "new"]
  /\ UNCHANGED <<linkVars, dbFrame>>

SleepOver(p) ==
  /\ row[p] = "sleeping"
  /\ row' = [row EXCEPT ![p] = "new"]
  /\ UNCHANGED <<linkVars, dbFrame>>

\* The connections break, and the server may be away for a time.
Lose ==
  /\ link /\ losses < MaxLosses
  /\ link' = FALSE /\ server' \in BOOLEAN
  /\ losses' = losses + 1
  /\ UNCHANGED <<row, dbFrame>>

ServerBack ==
  /\ ~server
  /\ server' = TRUE
  /\ UNCHANGED <<row, link, losses, dbFrame>>

-----------------------------------------------------------------------------

Fix(t) == Fixed(t) \/ FixRetry(t) \/ FixFails(t)

MainStep ==
  \/ PollBegin \/ PollLock \/ (\E S \in SUBSET Pays : PollQuery(S)) \/ PollFails \/ PollFix
  \/ (\E p \in Pays : Take(p)) \/ TakeNothing \/ (\E w \in Workers : Launch(w))
  \/ Fix(Main) \/ DBInit

WorkerStep(w) ==
  \/ (\E r \in Results : Send(w, r))
  \/ LookUp(w) \/ WriteLock(w) \/ Write(w) \/ WriteFails(w) \/ SetStateFix(w) \/ Mark(w) \/ Fix(w)

Next ==
  \/ MainStep \/ DBShutdown
  \/ \E w \in Workers : WorkerStep(w)
  \/ Stop \/ Run \/ ReloadBegin \/ ReloadEnd
  \/ \E p \in Pays : Arrive(p) \/ SleepOver(p)
  \/ Lose \/ ServerBack

Spec == Init /\ [][Next]_vars

\* Threads are scheduled and semaphores are fair; a server that is away comes back.
\* Main polls however often its configuration is
\* reloaded, which happens on one tick in twenty.  Nothing else is promised.
FairSpec ==
  /\ Spec
  /\ SF_vars(MainStep) /\ \A w \in Workers : SF_vars(WorkerStep(w))
  /\ SF_vars(ReloadEnd) /\ WF_vars(ServerBack)

-----------------------------------------------------------------------------
(* Properties.                                                             *)

\* Type invariant.
TypeOK ==
  /\ row \in [Pays -> {"absent", "new", "sleeping", "final"}]
  /\ active_pays \in [Pays -> {"none", "active", "done"}]
  /\ pays_cash \subseteq Pays /\ any_results \in {0, 1}
  /\ db_down \in BOOLEAN /\ db_accept_new_pays \in BOOLEAN
  /\ db_lock_read \in Workers \cup {NULL, Main}
  /\ db_lock_write \in Workers \cup {NULL, Main}
  /\ server \in BOOLEAN /\ link \in BOOLEAN /\ losses \in Nat
  /\ main_pc \in {"idle", "rlock", "query", "wlock", "fix", "take", "reload", "down"}
  /\ new_pay \in Pays \cup {NULL}
  /\ pc \in [Workers -> {"idle", "send", "look", "wlock", "write", "rlock", "fix", "mark"}]
  /\ job \in [Workers -> Pays \cup {NULL}]
  /\ result \in [Workers -> ResultKinds]
  /\ frames \in [Workers -> Seq({"entry", "deleted"})]
  /\ verdict \in [Pays -> ResultKinds \cup {"none"}]
  /\ made_reconnects \in Nat /\ reboots \in Nat

\* DBGetNextPay returns "new" pays: one whose module has given a final result is
\* never handed to a worker again, whatever happened to the storing of that result.
NoResend ==
  \A w \in Workers : pc[w] = "send" => verdict[job[w]] # "final"

\* A worker has a pay until its entry has been marked and deleted; the call that a
\* retry returned to may still be on its way out.
Serves(w, p) == job[w] = p /\ \A k \in DOMAIN frames[w] : frames[w][k] # "deleted"

\* "List of pays already in progress": a pay is in one place only, with one worker, in
\* new_pay or in the cash, and its entry keeps the select from finding it anew.
OneWorkerPerPay ==
  \A p \in Pays :
    /\ \A v, w \in Workers : Serves(v, p) /\ Serves(w, p) => v = w
    /\ \A w \in Workers : Serves(w, p) => p # new_pay /\ p \notin pays_cash
    /\ ~(p = new_pay /\ p \in pays_cash)
    /\ p \in pays_cash \cup {new_pay} => active_pays[p] = "active"

\* No pay is stranded in the cash: as long as there is one, DBGetNextPay serves the
\* cash and not the database.
CashServed == pays_cash # {} => any_results = 1

\* A worker leaves DBSetState with the result in the database.
ResultStored ==
  [][\A w \in Workers : pc[w] # "idle" /\ pc'[w] = "idle" /\ result[w] = "final"
       => row'[job[w]] = "final"]_vars

\* While a thread reopens the connections nobody else has a query under way on them.
FixAlone ==
  \A t \in Workers \cup {Main} : Fixing(t) =>
    /\ t # Main => main_pc \notin {"query", "wlock", "fix"}
    /\ \A w \in Workers \ {t} : pc[w] \notin {"write", "rlock", "fix"}

\* "Returns next _new_ pay from DB or NULL": DBGetNextPay returns, and so does the
\* reload of the configuration; main never waits for a database lock for ever.
PollReturns == main_pc # "idle" ~> main_pc = "idle"

\* Every row the select finds is eventually given to a module, also after a sleep:
\* no entry of active_pays_list keeps it hidden for ever (no stop).
EveryRowServed ==
  \A p \in Pays :
    row[p] = "new" ~> row[p] # "new" \/ \E w \in Workers : pc[w] = "send" /\ job[w] = p
=============================================================================
