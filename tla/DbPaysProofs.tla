---------------------------- MODULE DbPaysProofs ----------------------------
(***************************************************************************)
(* Theorems about DbPays for every number of pays and workers, every limit *)
(* of the select, every set of results and commands, and any number of     *)
(* lost connections and reboots.                                           *)
(*                                                                         *)
(* WorkInv, LockInv and CashInv are inductive by themselves.  EntryInv     *)
(* needs HeapReuse = FALSE: the second mark of a nested DBSetState goes    *)
(* through a pointer to an entry that may have been deleted, and must not  *)
(* reach the entry of another pay.  StoreInv also needs a database that is *)
(* reconnected endlessly, and whose queries fail only without a            *)
(* connection: otherwise results are lost by design.                       *)
(***************************************************************************)
EXTENDS DbPays, SequenceTheorems, TLAPS

\* Phases of a worker inside DBSetState before its first mark; all phases.
Busy == {"look", "wlock", "write", "rlock", "fix"}
Phases == {"idle", "send", "mark"} \cup Busy

FrameKinds == {"entry", "deleted"}

\* A worker has a pay unless it is idle, and a pointer once it has found the entry.
WorkInv ==
  \A w \in Workers :
    /\ pc[w] = "idle" => job[w] = NULL
    /\ pc[w] # "idle" => job[w] \in Pays
    /\ pc[w] \in {"idle", "send"} => frames[w] = <<>>
    /\ pc[w] \notin {"idle", "send", "look"} => frames[w] # <<>>

\* Which thread holds which lock, by its phase.
LockInv ==
  /\ db_lock_write = Main <=> main_pc = "fix"
  /\ db_lock_read = Main <=> main_pc \in {"query", "wlock", "fix", "reload"}
  /\ \A w \in Workers :
       /\ db_lock_write = w <=> pc[w] \in {"write", "rlock", "fix"}
       /\ db_lock_read = w <=> pc[w] = "fix"

\* The database is asked with an empty cash, so that resetting any_results after a failed
\* query strands nothing.
CashInv ==
  /\ CashServed
  /\ main_pc \in {"rlock", "query", "wlock", "fix"} => pays_cash = {}

\* No entry that a call of w points to has been deleted; all of them have been.
Intact(w) == \A k \in DOMAIN frames[w] : frames[w][k] # "deleted"
Dangling(w) == \A k \in DOMAIN frames[w] : frames[w][k] = "deleted"

\* Entries are deleted only under calls that have nothing but their mark to do; until the
\* first mark the entry of a worker's pay is active, until the purge it is there.
EntryInv ==
  /\ \A w \in Workers :
       /\ Intact(w) \/ (pc[w] = "mark" /\ Dangling(w))
       /\ pc[w] # "idle" /\ Intact(w) =>
            /\ active_pays[job[w]] # "none"
            /\ pc[w] # "mark" => active_pays[job[w]] = "active"
  /\ OneWorkerPerPay

\* With endless attempts db_down is only set by a DBInit without a server, when nobody
\* has a pay, and no poll is made while it is set.
DownInv ==
  db_down \/ main_pc = "down" =>
    /\ \A w \in Workers : pc[w] = "idle"
    /\ pays_cash = {} /\ new_pay = NULL
    /\ main_pc \in {"idle", "take", "reload", "down"}

\* Where a final result is: in the row, or with the worker that is storing it.  A worker
\* whose entry is there has the last word on its pay; one with only marks to set has
\* stored its result; one that waits to reconnect still has no connection.
StoreInv ==
  /\ NoResend
  /\ \A p \in Pays :
       /\ verdict[p] = "final" =>
            \/ row[p] = "final"
            \/ \E w \in Workers : job[w] = p /\ pc[w] \in Busy /\ result[w] = "final"
       /\ row[p] = "final" => verdict[p] = "final"
       /\ p \in pays_cash \cup {new_pay} => verdict[p] # "final"
  /\ \A w \in Workers :
       /\ pc[w] \notin {"idle", "send"} /\ Intact(w) => verdict[job[w]] = result[w]
       /\ pc[w] = "mark" /\ result[w] = "final" => row[job[w]] = "final"
       /\ pc[w] \in {"rlock", "fix"} => ~link

-----------------------------------------------------------------------------

\* The frames of a call whose entry is deleted are as many as before.
LEMMA DeletedFrames ==
  ASSUME NEW s \in Seq(FrameKinds)
  PROVE  /\ [k \in DOMAIN s |-> "deleted"] \in Seq(FrameKinds)
         /\ DOMAIN [k \in DOMAIN s |-> "deleted"] = DOMAIN s
         /\ \A k \in DOMAIN s : [j \in DOMAIN s |-> "deleted"][k] = "deleted"
         /\ s = <<>> => [k \in DOMAIN s |-> "deleted"] = <<>>
         /\ s # <<>> => [k \in DOMAIN s |-> "deleted"] # <<>>
<1> DEFINE d == [k \in DOMAIN s |-> "deleted"]
<1>1. DOMAIN s = 1 .. Len(s) /\ Len(s) \in Nat
  OBVIOUS
<1>2. d \in [1 .. Len(s) -> FrameKinds]
  BY <1>1 DEF FrameKinds
<1>3. d \in Seq(FrameKinds) /\ Len(d) = Len(s)
  BY <1>1, <1>2
<1>4. DOMAIN d = DOMAIN s /\ \A k \in DOMAIN s : d[k] = "deleted"
  OBVIOUS
<1>5. (s = <<>> <=> Len(s) = 0) /\ (d = <<>> <=> Len(d) = 0)
  BY <1>3, EmptySeq
<1> QED BY <1>3, <1>4, <1>5

\* What Append and the removal of the last element do to a sequence of frames.
LEMMA Pushed ==
  ASSUME NEW s \in Seq(FrameKinds)
  PROVE  /\ Append(s, "entry") \in Seq(FrameKinds)
         /\ Append(s, "entry") # <<>>
         /\ DOMAIN Append(s, "entry") = DOMAIN s \cup {Len(s) + 1}
         /\ Append(s, "entry")[Len(s) + 1] = "entry"
         /\ \A k \in DOMAIN s : Append(s, "entry")[k] = s[k]
BY DEF FrameKinds

LEMMA Popped ==
  ASSUME NEW s \in Seq(FrameKinds), s # <<>>
  PROVE  /\ SubSeq(s, 1, Len(s) - 1) \in Seq(FrameKinds)
         /\ DOMAIN SubSeq(s, 1, Len(s) - 1) \subseteq DOMAIN s
         /\ \A k \in DOMAIN SubSeq(s, 1, Len(s) - 1) : SubSeq(s, 1, Len(s) - 1)[k] = s[k]
         /\ Len(s) \in DOMAIN s /\ s[Len(s)] \in FrameKinds
<1>1. Len(s) \in Nat \ {0} /\ DOMAIN s = 1 .. Len(s)
  OBVIOUS
<1>2. SubSeq(s, 1, Len(s) - 1) \in Seq(FrameKinds) /\ Len(SubSeq(s, 1, Len(s) - 1)) = Len(s) - 1
  BY <1>1
<1>3. \A k \in 1 .. Len(s) - 1 : SubSeq(s, 1, Len(s) - 1)[k] = s[k]
  BY <1>1
<1> QED BY <1>1, <1>2, <1>3

\* Types and the phases of the workers are preserved together: a worker that is not
\* idle has a pay, and a call of DBSetState past its look-up has a frame.
LEMMA TypeStep == TypeOK /\ WorkInv /\ [Next]_vars => TypeOK' /\ WorkInv'
<1> SUFFICES ASSUME TypeOK, WorkInv, [Next]_vars PROVE TypeOK' /\ WorkInv'
  OBVIOUS
<1> USE DbConstants DEF TypeOK, WorkInv, FrameKinds, ResultKinds, vars, listVars, flagVars, lockVars,
      linkVars, mainVars, workVars
<1>1. ASSUME PollBegin PROVE TypeOK' /\ WorkInv'
  BY <1>1 DEF PollBegin
<1>2. ASSUME PollLock PROVE TypeOK' /\ WorkInv'
  <2>1. CASE UNCHANGED <<active_pays, frames, db_lock_read>>
    BY <1>2, <2>1 DEF PollLock
  <2>2. CASE Purge
    <3>1. frames' \in [Workers -> Seq(FrameKinds)]
      BY <2>2, DeletedFrames DEF Purge
    <3>2. \A w \in Workers : (frames'[w] = <<>> <=> frames[w] = <<>>)
      <4> TAKE w \in Workers
      <4> DEFINE d == [k \in DOMAIN frames[w] |-> "deleted"]
      <4>1. frames'[w] \in {frames[w], d}
        BY <2>2 DEF Purge
      <4>2. frames[w] \in Seq(FrameKinds)
        OBVIOUS
      <4>3. d = <<>> <=> frames[w] = <<>>
        BY <4>2, DeletedFrames
      <4> HIDE DEF d
      <4> QED BY <4>1, <4>3
    <3>3. active_pays' \in [Pays -> {"none", "active", "done"}]
      BY <2>2 DEF Purge
    <3> QED BY <1>2, <3>1, <3>2, <3>3 DEF PollLock
  <2> QED BY <1>2, <2>1, <2>2 DEF PollLock
<1>3. ASSUME NEW S \in SUBSET Pays, PollQuery(S) PROVE TypeOK' /\ WorkInv'
  BY <1>3 DEF PollQuery
<1>4. ASSUME PollFails PROVE TypeOK' /\ WorkInv'
  BY <1>4 DEF PollFails
<1>5. ASSUME PollFix PROVE TypeOK' /\ WorkInv'
  BY <1>5 DEF PollFix
<1>6. ASSUME NEW p \in Pays, Take(p) PROVE TypeOK' /\ WorkInv'
  BY <1>6 DEF Take
<1>7. ASSUME TakeNothing PROVE TypeOK' /\ WorkInv'
  BY <1>7 DEF TakeNothing
<1>8. ASSUME NEW w \in Workers, Launch(w) PROVE TypeOK' /\ WorkInv'
  BY <1>8 DEF Launch
<1>9. ASSUME DBInit PROVE TypeOK' /\ WorkInv'
  BY <1>9 DEF DBInit
<1>10. ASSUME ReloadBegin PROVE TypeOK' /\ WorkInv'
  BY <1>10 DEF ReloadBegin
<1>11. ASSUME ReloadEnd PROVE TypeOK' /\ WorkInv'
  BY <1>11 DEF ReloadEnd
<1>12. ASSUME DBShutdown PROVE TypeOK' /\ WorkInv'
  <2>1. reboots' \in Nat
    BY <1>12 DEF DBShutdown
  <2>2. link' \in BOOLEAN
    BY <1>12, Zenon DEF DBShutdown, Reopen
  <2> QED BY <1>12, <2>1, <2>2 DEF DBShutdown
<1>13. ASSUME NEW w \in Workers, NEW r \in Results, Send(w, r) PROVE TypeOK' /\ WorkInv'
  BY <1>13 DEF Send, Goto
<1>14. ASSUME NEW w \in Workers, LookUp(w) PROVE TypeOK' /\ WorkInv'
  <2>1. frames[w] \in Seq(FrameKinds)
    OBVIOUS
  <2>2. CASE Return(w, frames[w])
    BY <1>14, <2>1, <2>2 DEF LookUp, Return
  <2>3. CASE /\ frames' = [frames EXCEPT ![w] = Append(@, "entry")]
             /\ pc' = [pc EXCEPT ![w] = "wlock"]
             /\ UNCHANGED job
    <3> DEFINE fs == Append(frames[w], "entry")
    <3>1. fs \in Seq(FrameKinds) /\ fs # <<>>
      BY <2>1, Pushed
    <3>2. frames' = [frames EXCEPT ![w] = fs]
      BY <2>3
    <3>3. pc' = [pc EXCEPT ![w] = "wlock"] /\ UNCHANGED job
      BY <2>3
    <3> HIDE DEF fs
    <3> QED BY <1>14, <3>1, <3>2, <3>3 DEF LookUp
  <2> QED BY <1>14, <2>2, <2>3 DEF LookUp
<1>15. ASSUME NEW w \in Workers, WriteLock(w) PROVE TypeOK' /\ WorkInv'
  BY <1>15 DEF WriteLock, Goto
<1>16. ASSUME NEW w \in Workers, Write(w) PROVE TypeOK' /\ WorkInv'
  BY <1>16 DEF Write, Goto, Updated
<1>17. ASSUME NEW w \in Workers, WriteFails(w) PROVE TypeOK' /\ WorkInv'
  <2>1. row' \in [Pays -> {"absent", "new", "sleeping", "final"}]
    <3>1. Updated(w) \in [Pays -> {"absent", "new", "sleeping", "final"}]
      BY DEF Updated
    <3> QED BY <1>17, <3>1 DEF WriteFails
  <2> QED BY <1>17, <2>1 DEF WriteFails, Goto
<1>18. ASSUME NEW w \in Workers, SetStateFix(w) PROVE TypeOK' /\ WorkInv'
  <2>1. CASE Goto(w, "rlock", "fix") /\ made_reconnects' = 1 /\ db_lock_read' = w /\ UNCHANGED db_lock_write
    BY <1>18, <2>1 DEF SetStateFix, Goto
  <2>2. CASE Goto(w, "rlock", "mark") /\ db_lock_write' = NULL /\ UNCHANGED <<db_lock_read, made_reconnects>>
    BY <1>18, <2>2 DEF SetStateFix, Goto
  <2> QED BY <1>18, <2>1, <2>2 DEF SetStateFix
<1>19. ASSUME NEW w \in Workers, Mark(w) PROVE TypeOK' /\ WorkInv'
  <2> DEFINE fs == SubSeq(frames[w], 1, Len(frames[w]) - 1)
  <2>1. fs \in Seq(FrameKinds)
    BY <1>19, Popped DEF Mark
  <2>2. active_pays' \in [Pays -> {"none", "active", "done"}]
    BY <1>19 DEF Mark
  <2>3. Return(w, fs)
    BY <1>19 DEF Mark
  <2> HIDE DEF fs
  <2> QED BY <1>19, <2>1, <2>2, <2>3 DEF Mark, Return
<1>20. ASSUME NEW t \in Workers \cup {Main}, Fixed(t) PROVE TypeOK' /\ WorkInv'
  <2>1. link' \in BOOLEAN /\ db_down' \in BOOLEAN
    BY <1>20, Zenon DEF Fixed, Reopen
  <2>2. CASE t = Main
    BY <1>20, <2>1, <2>2 DEF Fixed
  <2>3. CASE t \in Workers
    <3>1. pc[t] = "fix" /\ pc' = [pc EXCEPT ![t] = "look"] /\ UNCHANGED <<main_pc, job, frames>>
      BY <1>20, <2>3 DEF Fixed, Fixing
    <3>2. WorkInv'
      BY <2>3, <3>1
    <3> QED BY <1>20, <2>1, <2>3, <3>1, <3>2 DEF Fixed
  <2> QED BY <2>2, <2>3
<1>21. ASSUME NEW t \in Workers \cup {Main}, FixRetry(t) PROVE TypeOK' /\ WorkInv'
  <2>1. made_reconnects' \in Nat
    BY <1>21 DEF FixRetry
  <2>2. link' \in BOOLEAN
    BY <1>21, Zenon DEF FixRetry, Reopen
  <2> QED BY <1>21, <2>1, <2>2 DEF FixRetry
<1>22. ASSUME NEW t \in Workers \cup {Main}, FixFails(t) PROVE TypeOK' /\ WorkInv'
  <2>1. link' \in BOOLEAN /\ db_down' \in BOOLEAN
    BY <1>22, Zenon DEF FixFails, Reopen
  <2>2. CASE t = Main
    BY <1>22, <2>1, <2>2 DEF FixFails
  <2>3. CASE t \in Workers
    <3>1. pc[t] = "fix" /\ pc' = [pc EXCEPT ![t] = "mark"] /\ UNCHANGED <<main_pc, job, frames>>
      BY <1>22, <2>3 DEF FixFails, Fixing
    <3>2. WorkInv'
      BY <2>3, <3>1
    <3> QED BY <1>22, <2>1, <2>3, <3>1, <3>2 DEF FixFails
  <2> QED BY <2>2, <2>3
<1>23. ASSUME Stop PROVE TypeOK' /\ WorkInv'
  BY <1>23, ZenonT(30) DEF Stop, SetAccept
<1>24. ASSUME Run PROVE TypeOK' /\ WorkInv'
  BY <1>24 DEF Run, SetAccept
<1>25. ASSUME NEW p \in Pays, Arrive(p) PROVE TypeOK' /\ WorkInv'
  BY <1>25 DEF Arrive, dbFrame
<1>26. ASSUME NEW p \in Pays, SleepOver(p) PROVE TypeOK' /\ WorkInv'
  BY <1>26 DEF SleepOver, dbFrame
<1>27. ASSUME Lose PROVE TypeOK' /\ WorkInv'
  <2>1. losses' \in Nat
    BY <1>27 DEF Lose
  <2>2. server' \in BOOLEAN /\ link' \in BOOLEAN
    BY <1>27, Zenon DEF Lose
  <2> QED BY <1>27, <2>1, <2>2 DEF Lose, dbFrame
<1>28. ASSUME ServerBack PROVE TypeOK' /\ WorkInv'
  BY <1>28 DEF ServerBack, dbFrame
<1>29. CASE UNCHANGED vars
  BY <1>29
<1>30. QED
  BY <1>1, <1>2, <1>3, <1>4, <1>5, <1>6, <1>7, <1>8, <1>9, <1>10, <1>11, <1>12, <1>13, <1>14,
     <1>15, <1>16, <1>17, <1>18, <1>19, <1>20, <1>21, <1>22, <1>23, <1>24, <1>25, <1>26, <1>27,
     <1>28, <1>29
  DEF Next, MainStep, WorkerStep, Fix

\* The two locks are held by the threads whose phase says so, and by nobody else.
LEMMA LockStep == TypeOK /\ LockInv /\ [Next]_vars => LockInv'
<1> SUFFICES ASSUME TypeOK, LockInv, [Next]_vars PROVE LockInv'
  OBVIOUS
<1> USE DbConstants DEF TypeOK, LockInv, vars, listVars, flagVars, lockVars,
      linkVars, mainVars, workVars
<1>1. ASSUME PollBegin PROVE LockInv'
  BY <1>1 DEF PollBegin
<1>2. ASSUME PollLock PROVE LockInv'
  BY <1>2 DEF PollLock, Purge
<1>3. ASSUME NEW S \in SUBSET Pays, PollQuery(S) PROVE LockInv'
  BY <1>3 DEF PollQuery
<1>4. ASSUME PollFails PROVE LockInv'
  BY <1>4 DEF PollFails
<1>5. ASSUME PollFix PROVE LockInv'
  BY <1>5 DEF PollFix
<1>6. ASSUME NEW p \in Pays, Take(p) PROVE LockInv'
  BY <1>6 DEF Take
<1>7. ASSUME TakeNothing PROVE LockInv'
  BY <1>7 DEF TakeNothing
<1>8. ASSUME NEW w \in Workers, Launch(w) PROVE LockInv'
  BY <1>8 DEF Launch
<1>9. ASSUME DBInit PROVE LockInv'
  BY <1>9 DEF DBInit
<1>10. ASSUME ReloadBegin PROVE LockInv'
  BY <1>10 DEF ReloadBegin
<1>11. ASSUME ReloadEnd PROVE LockInv'
  BY <1>11 DEF ReloadEnd
<1>12. ASSUME DBShutdown PROVE LockInv'
  BY <1>12 DEF DBShutdown, Reopen
<1>13. ASSUME NEW w \in Workers, NEW r \in Results, Send(w, r) PROVE LockInv'
  BY <1>13 DEF Send, Goto
<1>14. ASSUME NEW w \in Workers, LookUp(w) PROVE LockInv'
  BY <1>14 DEF LookUp, Return
<1>15. ASSUME NEW w \in Workers, WriteLock(w) PROVE LockInv'
  BY <1>15 DEF WriteLock, Goto
<1>16. ASSUME NEW w \in Workers, Write(w) PROVE LockInv'
  BY <1>16 DEF Write, Goto, Updated
<1>17. ASSUME NEW w \in Workers, WriteFails(w) PROVE LockInv'
  BY <1>17 DEF WriteFails, Goto, Updated
<1>18. ASSUME NEW w \in Workers, SetStateFix(w) PROVE LockInv'
  <2>1. CASE Goto(w, "rlock", "fix") /\ db_lock_read' = w /\ UNCHANGED db_lock_write
    BY <1>18, <2>1 DEF SetStateFix, Goto
  <2>2. CASE Goto(w, "rlock", "mark") /\ db_lock_write' = NULL /\ UNCHANGED db_lock_read
    BY <1>18, <2>2 DEF SetStateFix, Goto
  <2> QED BY <1>18, <2>1, <2>2 DEF SetStateFix
<1>19. ASSUME NEW w \in Workers, Mark(w) PROVE LockInv'
  BY <1>19 DEF Mark, Return, Reached
<1>20. ASSUME NEW t \in Workers \cup {Main}, Fixed(t) PROVE LockInv'
  BY <1>20 DEF Fixed, Fixing, Reopen
<1>21. ASSUME NEW t \in Workers \cup {Main}, FixRetry(t) PROVE LockInv'
  BY <1>21 DEF FixRetry, Fixing, Reopen
<1>22. ASSUME NEW t \in Workers \cup {Main}, FixFails(t) PROVE LockInv'
  BY <1>22 DEF FixFails, Fixing, Reopen
<1>23. ASSUME Stop PROVE LockInv'
  BY <1>23 DEF Stop, SetAccept
<1>24. ASSUME Run PROVE LockInv'
  BY <1>24 DEF Run, SetAccept
<1>25. ASSUME NEW p \in Pays, Arrive(p) PROVE LockInv'
  BY <1>25 DEF Arrive, dbFrame
<1>26. ASSUME NEW p \in Pays, SleepOver(p) PROVE LockInv'
  BY <1>26 DEF SleepOver, dbFrame
<1>27. ASSUME Lose PROVE LockInv'
  BY <1>27 DEF Lose, dbFrame
<1>28. ASSUME ServerBack PROVE LockInv'
  BY <1>28 DEF ServerBack, dbFrame
<1>29. CASE UNCHANGED vars
  BY <1>29
<1>30. QED
  BY <1>1, <1>2, <1>3, <1>4, <1>5, <1>6, <1>7, <1>8, <1>9, <1>10, <1>11, <1>12, <1>13, <1>14,
     <1>15, <1>16, <1>17, <1>18, <1>19, <1>20, <1>21, <1>22, <1>23, <1>24, <1>25, <1>26, <1>27,
     <1>28, <1>29
  DEF Next, MainStep, WorkerStep, Fix

\* Whoever polls the database has no cash.
LEMMA CashStep == TypeOK /\ CashInv /\ [Next]_vars => CashInv'
<1> SUFFICES ASSUME TypeOK, CashInv, [Next]_vars PROVE CashInv'
  OBVIOUS
<1> USE DbConstants DEF TypeOK, CashInv, CashServed, vars, listVars, flagVars, lockVars,
      linkVars, mainVars, workVars
<1>1. ASSUME PollBegin PROVE CashInv'
  BY <1>1 DEF PollBegin
<1>2. ASSUME PollLock PROVE CashInv'
  BY <1>2 DEF PollLock, Purge
<1>3. ASSUME NEW S \in SUBSET Pays, PollQuery(S) PROVE CashInv'
  BY <1>3 DEF PollQuery
<1>4. ASSUME PollFails PROVE CashInv'
  BY <1>4 DEF PollFails
<1>5. ASSUME PollFix PROVE CashInv'
  BY <1>5 DEF PollFix
<1>6. ASSUME NEW p \in Pays, Take(p) PROVE CashInv'
  BY <1>6 DEF Take
<1>7. ASSUME TakeNothing PROVE CashInv'
  BY <1>7 DEF TakeNothing
<1>8. ASSUME NEW w \in Workers, Launch(w) PROVE CashInv'
  BY <1>8 DEF Launch
<1>9. ASSUME DBInit PROVE CashInv'
  BY <1>9 DEF DBInit
<1>10. ASSUME ReloadBegin PROVE CashInv'
  BY <1>10 DEF ReloadBegin
<1>11. ASSUME ReloadEnd PROVE CashInv'
  BY <1>11 DEF ReloadEnd
<1>12. ASSUME DBShutdown PROVE CashInv'
  BY <1>12 DEF DBShutdown, Reopen
<1>13. ASSUME NEW w \in Workers, NEW r \in Results, Send(w, r) PROVE CashInv'
  BY <1>13 DEF Send, Goto
<1>14. ASSUME NEW w \in Workers, LookUp(w) PROVE CashInv'
  BY <1>14 DEF LookUp, Return
<1>15. ASSUME NEW w \in Workers, WriteLock(w) PROVE CashInv'
  BY <1>15 DEF WriteLock, Goto
<1>16. ASSUME NEW w \in Workers, Write(w) PROVE CashInv'
  BY <1>16 DEF Write, Goto, Updated
<1>17. ASSUME NEW w \in Workers, WriteFails(w) PROVE CashInv'
  BY <1>17 DEF WriteFails, Goto, Updated
<1>18. ASSUME NEW w \in Workers, SetStateFix(w) PROVE CashInv'
  BY <1>18 DEF SetStateFix, Goto
<1>19. ASSUME NEW w \in Workers, Mark(w) PROVE CashInv'
  BY <1>19 DEF Mark, Return, Reached
<1>20. ASSUME NEW t \in Workers \cup {Main}, Fixed(t) PROVE CashInv'
  BY <1>20 DEF Fixed, Fixing, Reopen
<1>21. ASSUME NEW t \in Workers \cup {Main}, FixRetry(t) PROVE CashInv'
  BY <1>21 DEF FixRetry, Fixing, Reopen
<1>22. ASSUME NEW t \in Workers \cup {Main}, FixFails(t) PROVE CashInv'
  BY <1>22 DEF FixFails, Fixing, Reopen
<1>23. ASSUME Stop PROVE CashInv'
  BY <1>23 DEF Stop, SetAccept
<1>24. ASSUME Run PROVE CashInv'
  BY <1>24 DEF Run, SetAccept
<1>25. ASSUME NEW p \in Pays, Arrive(p) PROVE CashInv'
  BY <1>25 DEF Arrive, dbFrame
<1>26. ASSUME NEW p \in Pays, SleepOver(p) PROVE CashInv'
  BY <1>26 DEF SleepOver, dbFrame
<1>27. ASSUME Lose PROVE CashInv'
  BY <1>27 DEF Lose, dbFrame
<1>28. ASSUME ServerBack PROVE CashInv'
  BY <1>28 DEF ServerBack, dbFrame
<1>29. CASE UNCHANGED vars
  BY <1>29
<1>30. QED
  BY <1>1, <1>2, <1>3, <1>4, <1>5, <1>6, <1>7, <1>8, <1>9, <1>10, <1>11, <1>12, <1>13, <1>14,
     <1>15, <1>16, <1>17, <1>18, <1>19, <1>20, <1>21, <1>22, <1>23, <1>24, <1>25, <1>26, <1>27,
     <1>28, <1>29
  DEF Next, MainStep, WorkerStep, Fix

\* A step that gives no worker a pay keeps OneWorkerPerPay, as long as the entries of the
\* pays on their way to a worker stay active.
LEMMA OneWorkerKept ==
  ASSUME OneWorkerPerPay, UNCHANGED <<pays_cash, new_pay>>,
         \A v \in Workers : job'[v] \in Pays /\ Intact(v)' => Intact(v) /\ job'[v] = job[v],
         \A p \in Pays : p \in pays_cash \cup {new_pay} => active_pays'[p] = active_pays[p]
  PROVE  OneWorkerPerPay'
<1>1. \A v \in Workers, p \in Pays : Serves(v, p)' => Serves(v, p)
  BY DEF Serves, Intact
<1> QED BY <1>1 DEF OneWorkerPerPay

\* A step of one worker inside DBSetState, from any phase but the last.
LEMMA EntryGoto ==
  ASSUME TypeOK, EntryInv, NEW w \in Workers, pc[w] \notin {"idle", "mark"},
         NEW to, to # "idle", pc' = [pc EXCEPT ![w] = to],
         UNCHANGED <<job, frames, active_pays, pays_cash, new_pay>>
  PROVE  EntryInv'
<1>1. pc \in [Workers -> Phases]
  BY DEF TypeOK, Phases, Busy
<1>2. \A v \in Workers : Intact(v)' <=> Intact(v)
  BY DEF Intact
<1>3. \A v \in Workers : Dangling(v)' <=> Dangling(v)
  BY DEF Dangling
<1>4. Intact(w)
  BY DEF EntryInv
<1>5. OneWorkerPerPay'
  BY <1>2, OneWorkerKept DEF EntryInv
<1> QED BY <1>1, <1>2, <1>3, <1>4, <1>5 DEF EntryInv

\* The purge of active_pays_list: the pointers to entries it deletes are those of calls
\* that only have their mark to set.
LEMMA EntryPurge ==
  ASSUME TypeOK, WorkInv, EntryInv, Purge, UNCHANGED <<pc, job, pays_cash, new_pay>>
  PROVE  EntryInv'
<1>1. /\ active_pays \in [Pays -> {"none", "active", "done"}]
      /\ frames \in [Workers -> Seq(FrameKinds)]
  BY DEF TypeOK, FrameKinds, Phases, Busy
<1>2. \A p \in Pays : active_pays[p] # "done" => active_pays'[p] = active_pays[p]
  BY <1>1 DEF Purge
<1>3. ASSUME NEW v \in Workers, ~(job[v] \in Pays /\ active_pays[job[v]] = "done")
      PROVE  frames'[v] = frames[v]
  BY <1>3 DEF Purge
<1>4. ASSUME NEW v \in Workers, job[v] \in Pays, active_pays[job[v]] = "done"
      PROVE  pc[v] = "mark" /\ Dangling(v)' /\ ~Intact(v)'
  <2>1. pc[v] = "mark"
    <3>1. CASE Intact(v)
      BY <1>4, <3>1, DbConstants DEF EntryInv, WorkInv
    <3>2. CASE ~Intact(v)
      BY <3>2 DEF EntryInv
    <3> QED BY <3>1, <3>2
  <2>2. frames'[v] = [k \in DOMAIN frames[v] |-> "deleted"]
    BY <1>4 DEF Purge
  <2>3. frames[v] # <<>> /\ frames[v] \in Seq(FrameKinds)
    BY <1>1, <2>1 DEF WorkInv
  <2>4. 1 \in DOMAIN frames[v]
    BY <2>3
  <2>5. Dangling(v)'
    BY <2>2 DEF Dangling
  <2>6. ~Intact(v)'
    BY <2>2, <2>4 DEF Intact
  <2> QED BY <2>1, <2>5, <2>6
<1>5. ASSUME NEW v \in Workers, frames'[v] = frames[v]
      PROVE  (Intact(v)' <=> Intact(v)) /\ (Dangling(v)' <=> Dangling(v))
  BY <1>5 DEF Intact, Dangling
<1>6. \A v \in Workers : job'[v] \in Pays /\ Intact(v)' => Intact(v) /\ job'[v] = job[v]
  BY <1>3, <1>4, <1>5
<1>7. OneWorkerPerPay'
  BY <1>2, <1>6, OneWorkerKept DEF EntryInv, OneWorkerPerPay
<1>8. ASSUME NEW v \in Workers
      PROVE  /\ Intact(v)' \/ (pc'[v] = "mark" /\ Dangling(v)')
             /\ pc'[v] # "idle" /\ Intact(v)' =>
                  /\ active_pays'[job'[v]] # "none"
                  /\ pc'[v] # "mark" => active_pays'[job'[v]] = "active"
  <2>1. pc[v] # "idle" => job[v] \in Pays
    BY DEF WorkInv
  <2> QED BY <1>2, <1>3, <1>4, <1>5, <2>1 DEF EntryInv
<1> QED BY <1>7, <1>8 DEF EntryInv

\* The select adds pays to the cash that have no entry, and so are with nobody.
LEMMA EntryQuery ==
  ASSUME TypeOK, WorkInv, EntryInv, NEW S \in SUBSET Pays, PollQuery(S)
  PROVE  EntryInv'
<1> DEFINE New == {p \in S : active_pays[p] = "none"}
<1>1. /\ active_pays' = [p \in Pays |-> IF p \in New THEN "active" ELSE active_pays[p]]
      /\ pays_cash' = pays_cash \cup New
      /\ UNCHANGED <<pc, job, frames, new_pay>>
  BY DEF PollQuery, workVars
<1>2. \A p \in New : active_pays[p] = "none" /\ p \in Pays
  OBVIOUS
<1> HIDE DEF New
<1>3. \A v \in Workers : (Intact(v)' <=> Intact(v)) /\ (Dangling(v)' <=> Dangling(v))
  BY <1>1 DEF Intact, Dangling
<1>4. \A v \in Workers, p \in Pays : Serves(v, p)' <=> Serves(v, p)
  BY <1>1 DEF Serves
<1>5. ASSUME NEW p \in New PROVE p \notin pays_cash /\ p # new_pay /\ \A v \in Workers : ~Serves(v, p)
  <2>1. p \notin pays_cash /\ p # new_pay
    BY <1>2, <1>5 DEF EntryInv, OneWorkerPerPay
  <2>2. ASSUME NEW v \in Workers, Serves(v, p) PROVE FALSE
    BY <1>2, <1>5, <2>2, DbConstants DEF EntryInv, WorkInv, Serves, Intact
  <2> QED BY <2>1, <2>2
<1>6. OneWorkerPerPay'
  BY <1>1, <1>2, <1>4, <1>5 DEF EntryInv, OneWorkerPerPay
<1>7. ASSUME NEW v \in Workers, pc[v] # "idle", Intact(v)
      PROVE  active_pays'[job[v]] = active_pays[job[v]]
  BY <1>1, <1>2, <1>7 DEF EntryInv, WorkInv
<1> QED BY <1>1, <1>3, <1>6, <1>7 DEF EntryInv

\* A call of DBSetState that finds its entry points to it; one that finds none, or the
\* database down, returns.
LEMMA EntryLookUp ==
  ASSUME TypeOK, WorkInv, EntryInv, NEW w \in Workers, LookUp(w)
  PROVE  EntryInv'
<1>1. UNCHANGED <<active_pays, pays_cash, new_pay>> /\ pc[w] = "look"
  BY DEF LookUp, listVars, mainVars
<1>2. /\ frames \in [Workers -> Seq(FrameKinds)] /\ pc \in [Workers -> Phases]
      /\ job \in [Workers -> Pays \cup {NULL}] /\ NULL \notin Pays
  BY DbConstants DEF TypeOK, FrameKinds, Phases, Busy
<1>3. Intact(w)
  BY <1>1 DEF EntryInv
<1>4. CASE Return(w, frames[w])
  <2>1. frames' = frames
    BY <1>2, <1>4 DEF Return
  <2>2. CASE frames[w] = <<>>
    <3>1. pc' = [pc EXCEPT ![w] = "idle"] /\ job' = [job EXCEPT ![w] = NULL]
      BY <1>4, <2>2 DEF Return
    <3>2. \A v \in Workers : (Intact(v)' <=> Intact(v)) /\ (Dangling(v)' <=> Dangling(v))
      BY <2>1 DEF Intact, Dangling
    <3>3. OneWorkerPerPay'
      BY <1>1, <1>2, <3>1, <3>2, OneWorkerKept DEF EntryInv
    <3> QED BY <1>1, <1>2, <1>3, <3>1, <3>2, <3>3 DEF EntryInv
  <2>3. CASE frames[w] # <<>>
    <3>1. pc' = [pc EXCEPT ![w] = "mark"] /\ job' = job
      BY <1>2, <1>4, <2>3 DEF Return
    <3> QED BY <1>1, <2>1, <3>1, EntryGoto
  <2> QED BY <2>2, <2>3
<1>5. CASE /\ frames' = [frames EXCEPT ![w] = Append(@, "entry")]
           /\ pc' = [pc EXCEPT ![w] = "wlock"]
           /\ UNCHANGED job
  <2> DEFINE fs == Append(frames[w], "entry")
  <2>1. \A k \in DOMAIN fs : fs[k] # "deleted"
    <3>1. frames[w] \in Seq(FrameKinds)
      BY <1>2
    <3> QED BY <1>3, <3>1, Pushed DEF Intact
  <2>2. frames' = [frames EXCEPT ![w] = fs]
    BY <1>5
  <2> HIDE DEF fs
  <2>3. Intact(w)'
    BY <1>2, <2>1, <2>2 DEF Intact
  <2>4. \A v \in Workers \ {w} : (Intact(v)' <=> Intact(v)) /\ (Dangling(v)' <=> Dangling(v))
    BY <1>2, <2>2 DEF Intact, Dangling
  <2>5. OneWorkerPerPay'
    BY <1>1, <1>3, <1>5, <2>4, OneWorkerKept DEF EntryInv
  <2> QED BY <1>1, <1>2, <1>3, <1>5, <2>3, <2>4, <2>5 DEF EntryInv
<1> QED BY <1>4, <1>5 DEF LookUp

\* What the return from a call does to the calls: the caller, if there is one, is left
\* with the pointers it had.
LEMMA MarkReturns ==
  ASSUME TypeOK, WorkInv, EntryInv, NEW w \in Workers, Mark(w)
  PROVE  /\ \A v \in Workers \ {w} :
              /\ (Intact(v)' <=> Intact(v)) /\ (Dangling(v)' <=> Dangling(v))
              /\ job'[v] = job[v] /\ pc'[v] = pc[v]
         /\ \/ pc'[w] = "idle" /\ job'[w] = NULL /\ Intact(w)'
            \/ /\ pc'[w] = "mark" /\ job'[w] = job[w]
               /\ (Intact(w)' <=> Intact(w)) /\ (Dangling(w) => Dangling(w)')
<1> DEFINE fs == SubSeq(frames[w], 1, Len(frames[w]) - 1)
<1>1. /\ frames \in [Workers -> Seq(FrameKinds)] /\ pc \in [Workers -> Phases]
      /\ job \in [Workers -> Pays \cup {NULL}]
  BY DEF TypeOK, FrameKinds, Phases, Busy
<1>2. frames[w] # <<>> /\ frames[w] \in Seq(FrameKinds)
  BY <1>1 DEF Mark, WorkInv
<1>3. Return(w, fs)
  BY DEF Mark
<1>4. /\ fs \in Seq(FrameKinds)
      /\ DOMAIN fs \subseteq DOMAIN frames[w]
      /\ \A k \in DOMAIN fs : fs[k] = frames[w][k]
  BY <1>2, Popped
<1> HIDE DEF fs
<1>5. fs # <<>> => 1 \in DOMAIN fs
  BY <1>4
<1>6. frames' = [frames EXCEPT ![w] = fs] /\ frames'[w] = fs
  BY <1>1, <1>3 DEF Return
<1>7. \/ fs = <<>> /\ pc' = [pc EXCEPT ![w] = "idle"] /\ job' = [job EXCEPT ![w] = NULL]
      \/ fs # <<>> /\ pc' = [pc EXCEPT ![w] = "mark"] /\ job' = job
  <2>1. fs # <<>> => job' = [job EXCEPT ![w] = job[w]]
    BY <1>3 DEF Return
  <2>2. [job EXCEPT ![w] = job[w]] = job
    BY <1>1
  <2> QED BY <1>3, <2>1, <2>2 DEF Return
<1>8. \A v \in Workers \ {w} :
        /\ (Intact(v)' <=> Intact(v)) /\ (Dangling(v)' <=> Dangling(v))
        /\ job'[v] = job[v] /\ pc'[v] = pc[v]
  BY <1>1, <1>6, <1>7 DEF Intact, Dangling
<1>9. CASE fs = <<>>
  <2>1. Intact(w)'
    BY <1>6, <1>9 DEF Intact
  <2> QED BY <1>1, <1>7, <1>8, <1>9, <2>1
<1>10. CASE fs # <<>>
  <2>1. Intact(w) => Intact(w)'
    BY <1>4, <1>6 DEF Intact
  <2>2. Dangling(w) => Dangling(w)'
    BY <1>4, <1>6 DEF Dangling
  <2>3. ASSUME Intact(w)', ~Intact(w) PROVE FALSE
    <3>1. Dangling(w)
      BY <2>3 DEF EntryInv
    <3> QED BY <1>4, <1>5, <1>6, <1>10, <2>3, <3>1 DEF Intact, Dangling
  <2> QED BY <1>1, <1>7, <1>8, <1>10, <2>1, <2>2, <2>3
<1> QED BY <1>9, <1>10

\* tmp->state=1 goes to the entry of the worker's own pay, or to memory that is free.
LEMMA EntryMark ==
  ASSUME HeapReuse = FALSE, TypeOK, WorkInv, EntryInv, NEW w \in Workers, Mark(w)
  PROVE  EntryInv'
<1>1. /\ frames \in [Workers -> Seq(FrameKinds)] /\ NULL \notin Pays
      /\ active_pays \in [Pays -> {"none", "active", "done"}]
  BY DbConstants DEF TypeOK, FrameKinds
<1>2. /\ pc[w] = "mark" /\ job[w] \in Pays /\ frames[w] # <<>> /\ frames[w] \in Seq(FrameKinds)
      /\ UNCHANGED <<pays_cash, new_pay>>
  BY <1>1 DEF Mark, WorkInv, mainVars
<1>3. PICK p \in Reached(w) :
        active_pays' = [q \in Pays |-> IF q = p THEN "done" ELSE active_pays[q]]
  BY DEF Mark
<1>4. /\ Intact(w) => p = job[w]
      /\ ~Intact(w) => p = NULL
  <2>1. Len(frames[w]) \in DOMAIN frames[w] /\ frames[w][Len(frames[w])] \in FrameKinds
    BY <1>2, Popped
  <2>2. frames[w][Len(frames[w])] = "entry" => Intact(w) /\ p = job[w]
    BY <1>3, <2>1 DEF EntryInv, Dangling, Reached
  <2>3. frames[w][Len(frames[w])] = "deleted" => ~Intact(w) /\ p = NULL
    BY <1>3, <2>1 DEF Intact, Reached
  <2> QED BY <2>1, <2>2, <2>3 DEF FrameKinds
<1>5. ASSUME NEW q \in Pays, ~(q = job[w] /\ Intact(w)) PROVE active_pays'[q] = active_pays[q]
  BY <1>1, <1>3, <1>4, <1>5
<1>6. OneWorkerPerPay'
  <2>1. ASSUME NEW q \in Pays, q \in pays_cash \cup {new_pay} PROVE active_pays'[q] = active_pays[q]
    <3>1. ~(q = job[w] /\ Intact(w))
      BY <2>1 DEF EntryInv, OneWorkerPerPay, Serves, Intact
    <3> QED BY <1>5, <3>1
  <2>2. \A v \in Workers : job'[v] \in Pays /\ Intact(v)' => Intact(v) /\ job'[v] = job[v]
    BY <1>1, MarkReturns
  <2> QED BY <1>2, <2>1, <2>2, OneWorkerKept DEF EntryInv
<1>7. ASSUME NEW v \in Workers \ {w}
      PROVE  /\ Intact(v)' \/ (pc'[v] = "mark" /\ Dangling(v)')
             /\ pc'[v] # "idle" /\ Intact(v)' =>
                  /\ active_pays'[job'[v]] # "none"
                  /\ pc'[v] # "mark" => active_pays'[job'[v]] = "active"
  <2>1. ASSUME pc[v] # "idle", Intact(v) PROVE active_pays'[job[v]] = active_pays[job[v]]
    <3>1. job[v] \in Pays
      BY <2>1 DEF WorkInv
    <3>2. ~(job[v] = job[w] /\ Intact(w))
      BY <2>1, <3>1 DEF EntryInv, OneWorkerPerPay, Serves, Intact
    <3> QED BY <1>5, <3>1, <3>2
  <2> QED BY <2>1, MarkReturns DEF EntryInv
<1>8. /\ Intact(w)' \/ (pc'[w] = "mark" /\ Dangling(w)')
      /\ pc'[w] # "idle" /\ Intact(w)' => active_pays'[job'[w]] # "none"
      /\ pc'[w] \in {"idle", "mark"}
  <2>1. Intact(w) => active_pays'[job[w]] = "done"
    BY <1>2, <1>3, <1>4
  <2>2. Intact(w) \/ Dangling(w)
    BY DEF EntryInv
  <2> QED BY <2>1, <2>2, MarkReturns
<1> QED BY <1>6, <1>7, <1>8 DEF EntryInv

\* Steps that touch neither the pays nor the calls.
LEMMA EntrySame ==
  ASSUME EntryInv, UNCHANGED <<pc, job, frames, active_pays, pays_cash, new_pay>>
  PROVE  EntryInv'
BY DEF EntryInv, OneWorkerPerPay, Serves, Intact, Dangling

\* The entry of a pay follows it from the select to the last mark, as long as no new
\* entry takes the memory of a deleted one.
LEMMA EntryStep ==
  ASSUME HeapReuse = FALSE, TypeOK, WorkInv, EntryInv, [Next]_vars
  PROVE  EntryInv'
<1> USE DbConstants DEF TypeOK, WorkInv, vars, listVars, flagVars, lockVars,
      linkVars, mainVars, workVars
<1>1. ASSUME PollBegin PROVE EntryInv'
  BY <1>1, EntrySame DEF PollBegin
<1>2. ASSUME PollLock PROVE EntryInv'
  BY <1>2, EntryPurge DEF PollLock, EntryInv, OneWorkerPerPay, Serves, Intact, Dangling
<1>3. ASSUME NEW S \in SUBSET Pays, PollQuery(S) PROVE EntryInv'
  BY <1>3, EntryQuery
<1>4. ASSUME PollFails PROVE EntryInv'
  BY <1>4, EntrySame DEF PollFails
<1>5. ASSUME PollFix PROVE EntryInv'
  BY <1>5, EntrySame DEF PollFix
<1>6. ASSUME NEW p \in Pays, Take(p) PROVE EntryInv'
  BY <1>6 DEF Take, EntryInv, OneWorkerPerPay, Serves, Intact, Dangling
<1>7. ASSUME TakeNothing PROVE EntryInv'
  BY <1>7, EntrySame DEF TakeNothing
<1>8. ASSUME NEW w \in Workers, Launch(w) PROVE EntryInv'
  BY <1>8 DEF Launch, EntryInv, OneWorkerPerPay, Serves, Intact, Dangling
<1>9. ASSUME DBInit PROVE EntryInv'
  BY <1>9, EntrySame DEF DBInit
<1>10. ASSUME ReloadBegin PROVE EntryInv'
  BY <1>10, EntrySame DEF ReloadBegin
<1>11. ASSUME ReloadEnd PROVE EntryInv'
  BY <1>11, EntrySame DEF ReloadEnd
<1>12. ASSUME DBShutdown PROVE EntryInv'
  BY <1>12 DEF DBShutdown, Reopen, EntryInv, OneWorkerPerPay, Serves, Intact, Dangling
<1>13. ASSUME NEW w \in Workers, NEW r \in Results, Send(w, r) PROVE EntryInv'
  BY <1>13, EntryGoto DEF Send, Goto
<1>14. ASSUME NEW w \in Workers, LookUp(w) PROVE EntryInv'
  BY <1>14, EntryLookUp
<1>15. ASSUME NEW w \in Workers, WriteLock(w) PROVE EntryInv'
  BY <1>15, EntryGoto DEF WriteLock, Goto
<1>16. ASSUME NEW w \in Workers, Write(w) PROVE EntryInv'
  BY <1>16, EntryGoto DEF Write, Goto
<1>17. ASSUME NEW w \in Workers, WriteFails(w) PROVE EntryInv'
  BY <1>17, EntryGoto DEF WriteFails, Goto
<1>18. ASSUME NEW w \in Workers, SetStateFix(w) PROVE EntryInv'
  BY <1>18, EntryGoto, SMTT(20) DEF SetStateFix, Goto
<1>19. ASSUME NEW w \in Workers, Mark(w) PROVE EntryInv'
  BY <1>19, EntryMark
<1>20. ASSUME NEW t \in Workers \cup {Main}, Fixed(t) PROVE EntryInv'
  BY <1>20 DEF Fixed, Fixing, Reopen, EntryInv, OneWorkerPerPay, Serves, Intact, Dangling
<1>21. ASSUME NEW t \in Workers \cup {Main}, FixRetry(t) PROVE EntryInv'
  BY <1>21, EntrySame DEF FixRetry
<1>22. ASSUME NEW t \in Workers \cup {Main}, FixFails(t) PROVE EntryInv'
  BY <1>22 DEF FixFails, Fixing, Reopen, EntryInv, OneWorkerPerPay, Serves, Intact, Dangling
<1>23. ASSUME Stop PROVE EntryInv'
  BY <1>23, EntrySame DEF Stop, SetAccept
<1>24. ASSUME Run PROVE EntryInv'
  BY <1>24, EntrySame DEF Run, SetAccept
<1>25. ASSUME NEW p \in Pays, Arrive(p) PROVE EntryInv'
  BY <1>25, EntrySame DEF Arrive, dbFrame
<1>26. ASSUME NEW p \in Pays, SleepOver(p) PROVE EntryInv'
  BY <1>26, EntrySame DEF SleepOver, dbFrame
<1>27. ASSUME Lose PROVE EntryInv'
  BY <1>27, EntrySame DEF Lose, dbFrame
<1>28. ASSUME ServerBack PROVE EntryInv'
  BY <1>28, EntrySame DEF ServerBack, dbFrame
<1>29. CASE UNCHANGED vars
  BY <1>29, EntrySame
<1>30. QED
  BY <1>1, <1>2, <1>3, <1>4, <1>5, <1>6, <1>7, <1>8, <1>9, <1>10, <1>11, <1>12, <1>13, <1>14,
     <1>15, <1>16, <1>17, <1>18, <1>19, <1>20, <1>21, <1>22, <1>23, <1>24, <1>25, <1>26, <1>27,
     <1>28, <1>29
  DEF Next, MainStep, WorkerStep, Fix

\* A database that is down and is to be reconnected endlessly has been so since the
\* start: nobody has a pay.
LEMMA DownStep ==
  ASSUME Endless = TRUE, TypeOK, LockInv, DownInv, [Next]_vars
  PROVE  DownInv'
<1> USE DbConstants DEF TypeOK, LockInv, DownInv, vars, listVars, flagVars, lockVars,
      linkVars, mainVars, workVars
<1>1. ASSUME PollBegin PROVE DownInv'
  BY <1>1 DEF PollBegin
<1>2. ASSUME PollLock PROVE DownInv'
  BY <1>2 DEF PollLock, Purge
<1>3. ASSUME NEW S \in SUBSET Pays, PollQuery(S) PROVE DownInv'
  BY <1>3 DEF PollQuery
<1>4. ASSUME PollFails PROVE DownInv'
  BY <1>4 DEF PollFails
<1>5. ASSUME PollFix PROVE DownInv'
  BY <1>5 DEF PollFix
<1>6. ASSUME NEW p \in Pays, Take(p) PROVE DownInv'
  BY <1>6 DEF Take
<1>7. ASSUME TakeNothing PROVE DownInv'
  BY <1>7 DEF TakeNothing
<1>8. ASSUME NEW w \in Workers, Launch(w) PROVE DownInv'
  BY <1>8 DEF Launch
<1>9. ASSUME DBInit PROVE DownInv'
  BY <1>9 DEF DBInit
<1>10. ASSUME ReloadBegin PROVE DownInv'
  BY <1>10 DEF ReloadBegin
<1>11. ASSUME ReloadEnd PROVE DownInv'
  BY <1>11 DEF ReloadEnd
<1>12. ASSUME DBShutdown PROVE DownInv'
  BY <1>12 DEF DBShutdown, Reopen
<1>13. ASSUME NEW w \in Workers, NEW r \in Results, Send(w, r) PROVE DownInv'
  BY <1>13 DEF Send, Goto
<1>14. ASSUME NEW w \in Workers, LookUp(w) PROVE DownInv'
  BY <1>14 DEF LookUp, Return
<1>15. ASSUME NEW w \in Workers, WriteLock(w) PROVE DownInv'
  BY <1>15 DEF WriteLock, Goto
<1>16. ASSUME NEW w \in Workers, Write(w) PROVE DownInv'
  BY <1>16 DEF Write, Goto, Updated
<1>17. ASSUME NEW w \in Workers, WriteFails(w) PROVE DownInv'
  BY <1>17 DEF WriteFails, Goto, Updated
<1>18. ASSUME NEW w \in Workers, SetStateFix(w) PROVE DownInv'
  BY <1>18 DEF SetStateFix, Goto
<1>19. ASSUME NEW w \in Workers, Mark(w) PROVE DownInv'
  BY <1>19 DEF Mark, Return, Reached
<1>20. ASSUME NEW t \in Workers \cup {Main}, Fixed(t) PROVE DownInv'
  BY <1>20 DEF Fixed, Fixing, Reopen
<1>21. ASSUME NEW t \in Workers \cup {Main}, FixRetry(t) PROVE DownInv'
  BY <1>21 DEF FixRetry, Fixing, Reopen
<1>22. ASSUME NEW t \in Workers \cup {Main}, FixFails(t) PROVE DownInv'
  BY <1>22 DEF FixFails, Fixing, Reopen
<1>23. ASSUME Stop PROVE DownInv'
  BY <1>23 DEF Stop, SetAccept
<1>24. ASSUME Run PROVE DownInv'
  BY <1>24 DEF Run, SetAccept
<1>25. ASSUME NEW p \in Pays, Arrive(p) PROVE DownInv'
  BY <1>25 DEF Arrive, dbFrame
<1>26. ASSUME NEW p \in Pays, SleepOver(p) PROVE DownInv'
  BY <1>26 DEF SleepOver, dbFrame
<1>27. ASSUME Lose PROVE DownInv'
  BY <1>27 DEF Lose, dbFrame
<1>28. ASSUME ServerBack PROVE DownInv'
  BY <1>28 DEF ServerBack, dbFrame
<1>29. CASE UNCHANGED vars
  BY <1>29
<1>30. QED
  BY <1>1, <1>2, <1>3, <1>4, <1>5, <1>6, <1>7, <1>8, <1>9, <1>10, <1>11, <1>12, <1>13, <1>14,
     <1>15, <1>16, <1>17, <1>18, <1>19, <1>20, <1>21, <1>22, <1>23, <1>24, <1>25, <1>26, <1>27,
     <1>28, <1>29
  DEF Next, MainStep, WorkerStep, Fix

\* Steps that store nothing and move no worker, and bring to the cash and to new_pay only
\* pays without a final result.
LEMMA StoreSame ==
  ASSUME StoreInv, UNCHANGED <<row, verdict, pc, job, result>>,
         \A v \in Workers : pc[v] \in {"rlock", "fix"} /\ ~link => ~link',
         \A v \in Workers : Intact(v)' => Intact(v),
         \A p \in Pays : p \in pays_cash' \cup {new_pay'} => verdict[p] # "final"
  PROVE  StoreInv'
BY DEF StoreInv, NoResend

\* A worker goes from one phase of DBSetState to the next, without a query.
LEMMA StoreGoto ==
  ASSUME TypeOK, StoreInv, NEW w \in Workers, pc[w] \in Busy, NEW to \in Busy,
         pc' = [pc EXCEPT ![w] = to],
         UNCHANGED <<row, verdict, job, result, pays_cash, new_pay>>,
         \A v \in Workers : pc'[v] \in {"rlock", "fix"} => ~link',
         \A v \in Workers : Intact(v)' => Intact(v)
  PROVE  StoreInv'
<1>1. pc \in [Workers -> Phases]
  BY DEF TypeOK, Phases, Busy
<1> QED BY <1>1 DEF StoreInv, NoResend, Busy

\* The queries of DBSetState: the row of the pay becomes final only with a final result,
\* and stays final because nobody else writes to it.
LEMMA StoreWrite ==
  ASSUME TypeOK, WorkInv, EntryInv, StoreInv, NEW w \in Workers, pc[w] = "write",
         NEW to \in {"mark", "rlock"}, pc' = [pc EXCEPT ![w] = to],
         row' \in {row, Updated(w)}, to = "mark" => row' = Updated(w),
         UNCHANGED <<verdict, job, result, frames, pays_cash, new_pay, link>>,
         to = "rlock" => ~link
  PROVE  StoreInv'
<1>1. /\ pc \in [Workers -> Phases] /\ row \in [Pays -> {"absent", "new", "sleeping", "final"}]
      /\ result[w] \in ResultKinds /\ job[w] \in Pays /\ \A v \in Workers : job[v] \in Pays \cup {NULL}
  BY DEF TypeOK, WorkInv, Phases, Busy
<1>2. Intact(w) /\ verdict[job[w]] = result[w]
  BY DEF EntryInv, StoreInv
<1>3. \A v \in Workers : Intact(v)' <=> Intact(v)
  BY DEF Intact
<1>4. /\ \A p \in Pays \ {job[w]} : row'[p] = row[p]
      /\ row'[job[w]] = "final" <=> row[job[w]] = "final" \/ (row' = Updated(w) /\ result[w] = "final")
  <2>1. row' = row \/ row' = Updated(w)
    OBVIOUS
  <2>2. row[job[w]] = "final" => result[w] = "final"
    BY <1>1, <1>2 DEF StoreInv
  <2> QED BY <1>1, <2>1, <2>2 DEF Updated, ResultKinds
<1>5. NoResend'
  BY <1>1 DEF StoreInv, NoResend
<1>6. ASSUME NEW p \in Pays
      PROVE  /\ verdict[p] = "final" =>
                  \/ row'[p] = "final"
                  \/ \E v \in Workers : job[v] = p /\ pc'[v] \in Busy /\ result[v] = "final"
             /\ row'[p] = "final" => verdict[p] = "final"
             /\ p \in pays_cash \cup {new_pay} => verdict[p] # "final"
  <2>1. p \in pays_cash \cup {new_pay} => verdict[p] # "final"
    BY DEF StoreInv
  <2>2. row'[p] = "final" => verdict[p] = "final"
    BY <1>2, <1>4 DEF StoreInv
  <2>3. ASSUME verdict[p] = "final", row'[p] # "final"
        PROVE  \E v \in Workers : job[v] = p /\ pc'[v] \in Busy /\ result[v] = "final"
    <3>1. row[p] # "final"
      BY <1>4, <2>3
    <3>2. PICK v \in Workers : job[v] = p /\ pc[v] \in Busy /\ result[v] = "final"
      BY <2>3, <3>1 DEF StoreInv
    <3>3. v = w => to = "rlock"
      BY <1>4, <2>3, <3>2
    <3> QED BY <1>1, <3>2, <3>3 DEF Busy
  <2> QED BY <2>1, <2>2, <2>3
<1>7. ASSUME NEW v \in Workers
      PROVE  /\ pc'[v] \notin {"idle", "send"} /\ Intact(v) => verdict[job[v]] = result[v]
             /\ pc'[v] = "mark" /\ result[v] = "final" => row'[job[v]] = "final"
             /\ pc'[v] \in {"rlock", "fix"} => ~link
  <2>1. CASE v = w
    BY <1>1, <1>2, <1>4, <2>1
  <2>2. CASE v # w
    <3>1. pc'[v] = pc[v]
      BY <1>1, <2>2
    <3>2. pc[v] # "idle" => job[v] \in Pays
      BY DEF WorkInv
    <3>3. row[job[v]] = "final" /\ job[v] \in Pays => row'[job[v]] = "final"
      BY <1>4
    <3> QED BY <3>1, <3>2, <3>3 DEF StoreInv
  <2> QED BY <2>1, <2>2
<1> QED BY <1>3, <1>5, <1>6, <1>7 DEF StoreInv

\* The module gives its result: nobody else has the pay.
LEMMA StoreSend ==
  ASSUME TypeOK, WorkInv, EntryInv, StoreInv, NEW w \in Workers, NEW r \in Results, Send(w, r)
  PROVE  StoreInv'
<1>1. /\ pc \in [Workers -> Phases] /\ result \in [Workers -> ResultKinds]
      /\ verdict \in [Pays -> ResultKinds \cup {"none"}] /\ job[w] \in Pays
  BY DEF TypeOK, WorkInv, Phases, Busy, Send, Goto
<1>2. /\ pc[w] = "send" /\ pc' = [pc EXCEPT ![w] = "look"]
      /\ result' = [result EXCEPT ![w] = r] /\ verdict' = [verdict EXCEPT ![job[w]] = r]
      /\ UNCHANGED <<row, job, frames, link, pays_cash, new_pay>>
  BY DEF Send, Goto, listVars, linkVars, mainVars
<1>3. Intact(w) /\ \A v \in Workers : Intact(v)' <=> Intact(v)
  BY <1>2 DEF EntryInv, Intact
<1>4. /\ job[w] \notin pays_cash \cup {new_pay}
      /\ \A v \in Workers \ {w} : Intact(v) => job[v] # job[w]
  BY <1>1, <1>3 DEF EntryInv, OneWorkerPerPay, Serves, Intact
<1>5. row[job[w]] # "final"
  BY <1>1, <1>2 DEF StoreInv, NoResend
<1>6. NoResend'
  <2>1. ASSUME NEW v \in Workers, pc'[v] = "send" PROVE verdict'[job[v]] # "final"
    <3>1. v # w /\ pc[v] = "send"
      BY <1>1, <1>2, <2>1
    <3>2. job[v] # job[w] /\ job[v] \in Pays
      BY <1>4, <3>1 DEF EntryInv, WorkInv
    <3> QED BY <1>1, <1>2, <3>1, <3>2 DEF StoreInv, NoResend
  <2> QED BY <1>2, <2>1 DEF NoResend
<1>7. ASSUME NEW p \in Pays
      PROVE  /\ verdict'[p] = "final" =>
                  \/ row[p] = "final"
                  \/ \E v \in Workers : job[v] = p /\ pc'[v] \in Busy /\ result'[v] = "final"
             /\ row[p] = "final" => verdict'[p] = "final"
             /\ p \in pays_cash \cup {new_pay} => verdict'[p] # "final"
  <2>1. CASE p = job[w]
    BY <1>1, <1>2, <1>4, <1>5, <2>1 DEF Busy
  <2>2. CASE p # job[w]
    <3>1. verdict'[p] = verdict[p]
      BY <1>1, <1>2, <2>2
    <3>2. ASSUME NEW v \in Workers, job[v] = p
          PROVE  pc'[v] = pc[v] /\ result'[v] = result[v]
      BY <1>1, <1>2, <2>2, <3>2
    <3> QED BY <3>1, <3>2 DEF StoreInv
  <2> QED BY <2>1, <2>2
<1>8. ASSUME NEW v \in Workers
      PROVE  /\ pc'[v] \notin {"idle", "send"} /\ Intact(v) => verdict'[job[v]] = result'[v]
             /\ pc'[v] = "mark" /\ result'[v] = "final" => row[job[v]] = "final"
             /\ pc'[v] \in {"rlock", "fix"} => ~link
  <2>1. CASE v = w
    BY <1>1, <1>2, <2>1
  <2>2. CASE v # w
    <3>1. pc'[v] = pc[v] /\ result'[v] = result[v]
      BY <1>1, <1>2, <2>2
    <3>2. Intact(v) /\ pc[v] # "idle" => verdict'[job[v]] = verdict[job[v]]
      BY <1>1, <1>2, <1>4, <2>2 DEF WorkInv
    <3> QED BY <3>1, <3>2 DEF StoreInv
  <2> QED BY <2>1, <2>2
<1> QED BY <1>2, <1>3, <1>6, <1>7, <1>8 DEF StoreInv

\* A new pay starts: its last result was not a final one.
LEMMA StoreLaunch ==
  ASSUME TypeOK, WorkInv, StoreInv, NEW w \in Workers, Launch(w)
  PROVE  StoreInv'
<1>1. /\ pc \in [Workers -> Phases] /\ job \in [Workers -> Pays \cup {NULL}]
      /\ NULL \notin Pays /\ new_pay \in Pays
  BY DbConstants DEF TypeOK, Phases, Busy, Launch
<1>2. /\ pc[w] = "idle" /\ pc' = [pc EXCEPT ![w] = "send"] /\ job' = [job EXCEPT ![w] = new_pay]
      /\ new_pay' = NULL /\ UNCHANGED <<row, verdict, result, frames, link, pays_cash>>
  BY DEF Launch, listVars, linkVars
<1>3. \A v \in Workers : Intact(v)' <=> Intact(v)
  BY <1>2 DEF Intact
<1>4. \A v \in Workers \ {w} : pc'[v] = pc[v] /\ job'[v] = job[v]
  BY <1>1, <1>2
<1>5. pc'[w] = "send" /\ job'[w] = new_pay /\ verdict[new_pay] # "final"
  BY <1>1, <1>2 DEF StoreInv
<1>6. NoResend'
  BY <1>2, <1>4, <1>5 DEF StoreInv, NoResend
<1>7. ASSUME NEW p \in Pays
      PROVE  /\ verdict[p] = "final" =>
                  \/ row[p] = "final"
                  \/ \E v \in Workers : job'[v] = p /\ pc'[v] \in Busy /\ result[v] = "final"
             /\ row[p] = "final" => verdict[p] = "final"
             /\ p \in pays_cash \cup {NULL} => verdict[p] # "final"
  BY <1>1, <1>2, <1>4 DEF StoreInv, Busy
<1>8. ASSUME NEW v \in Workers
      PROVE  /\ pc'[v] \notin {"idle", "send"} /\ Intact(v) => verdict[job'[v]] = result[v]
             /\ pc'[v] = "mark" /\ result[v] = "final" => row[job'[v]] = "final"
             /\ pc'[v] \in {"rlock", "fix"} => ~link
  BY <1>4, <1>5 DEF StoreInv
<1> QED BY <1>2, <1>3, <1>6, <1>7, <1>8 DEF StoreInv

\* The mark and the return to the caller come after the result has been stored.
LEMMA StoreMark ==
  ASSUME TypeOK, WorkInv, EntryInv, StoreInv, NEW w \in Workers, Mark(w)
  PROVE  StoreInv'
<1>1. pc[w] = "mark" /\ UNCHANGED <<row, verdict, result, link, pays_cash, new_pay>>
  BY DEF Mark, linkVars, mainVars
<1>2. NoResend'
  BY <1>1, MarkReturns DEF StoreInv, NoResend
<1>3. \A v \in Workers : pc[v] \in Busy => v # w
  BY <1>1 DEF Busy
<1>4. ASSUME NEW p \in Pays
      PROVE  verdict[p] = "final" =>
               \/ row[p] = "final"
               \/ \E v \in Workers : job'[v] = p /\ pc'[v] \in Busy /\ result[v] = "final"
  BY <1>3, MarkReturns DEF StoreInv
<1>5. ASSUME NEW v \in Workers
      PROVE  /\ pc'[v] \notin {"idle", "send"} /\ Intact(v)' => verdict[job'[v]] = result[v]
             /\ pc'[v] = "mark" /\ result[v] = "final" => row[job'[v]] = "final"
             /\ pc'[v] \in {"rlock", "fix"} => ~link
  BY <1>1, MarkReturns DEF StoreInv
<1> QED BY <1>1, <1>2, <1>4, <1>5 DEF StoreInv

\* A row that the database brings back to the select is not final.
LEMMA StoreRow ==
  ASSUME TypeOK, WorkInv, StoreInv, NEW p \in Pays, row[p] # "final",
         row' = [row EXCEPT ![p] = "new"],
         UNCHANGED <<verdict, pc, job, result, frames, link, pays_cash, new_pay>>
  PROVE  StoreInv'
<1>1. \A q \in Pays : row'[q] = "final" <=> row[q] = "final"
  BY DEF TypeOK
<1>2. \A v \in Workers : Intact(v)' <=> Intact(v)
  BY DEF Intact
<1>3. \A v \in Workers : pc[v] = "mark" => job[v] \in Pays
  BY DEF WorkInv
<1> QED BY <1>1, <1>2, <1>3 DEF StoreInv, NoResend

\* Results reach the database, if connections are restored endlessly, queries fail only
\* without a connection, and no new entry takes the memory of a deleted one.
LEMMA StoreStep ==
  ASSUME Endless = TRUE, QueryErrors = FALSE, TypeOK, WorkInv, LockInv, EntryInv, DownInv,
         StoreInv, [Next]_vars
  PROVE  StoreInv'
<1> USE DbConstants DEF TypeOK, WorkInv, vars, listVars, flagVars, lockVars,
      linkVars, mainVars, workVars
<1>a. UNCHANGED frames => \A v \in Workers : Intact(v)' => Intact(v)
  BY DEF Intact
<1>b. \A p \in Pays : p \in pays_cash \cup {new_pay} => verdict[p] # "final"
  BY DEF StoreInv
<1>c. \A v \in Workers : pc[v] \in {"rlock", "fix"} => ~link
  BY DEF StoreInv
<1>1. ASSUME PollBegin PROVE StoreInv'
  BY <1>1, <1>a, <1>b, StoreSame DEF PollBegin
<1>2. ASSUME PollLock PROVE StoreInv'
  <2>1. \A v \in Workers : Intact(v)' => Intact(v)
    <3>1. CASE UNCHANGED frames
      BY <3>1 DEF Intact
    <3>2. CASE Purge
      BY <3>2, DeletedFrames DEF Purge, Intact
    <3> QED BY <1>2, <3>1, <3>2 DEF PollLock
  <2> QED BY <1>2, <1>b, <2>1, StoreSame DEF PollLock
<1>3. ASSUME NEW S \in SUBSET Pays, PollQuery(S) PROVE StoreInv'
  <2> DEFINE New == {p \in S : active_pays[p] = "none"}
  <2>1. /\ pays_cash' = pays_cash \cup New /\ New \subseteq {p \in Pays : row[p] = "new" /\ active_pays[p] = "none"}
        /\ UNCHANGED <<row, verdict, pc, job, result, frames, link, new_pay>>
    BY <1>3 DEF PollQuery, Selected
  <2> HIDE DEF New
  <2>2. ASSUME NEW p \in New, verdict[p] = "final" PROVE FALSE
    <3>1. p \in Pays /\ row[p] = "new" /\ active_pays[p] = "none"
      BY <2>1, <2>2
    <3>2. PICK v \in Workers : job[v] = p /\ pc[v] \in Busy
      BY <2>2, <3>1 DEF StoreInv
    <3> QED BY <3>1, <3>2 DEF EntryInv, Busy
  <2>3. \A p \in Pays : p \in pays_cash' \cup {new_pay'} => verdict[p] # "final"
    BY <1>b, <2>1, <2>2
  <2> QED BY <1>a, <2>1, <2>3, StoreSame
<1>4. ASSUME PollFails PROVE StoreInv'
  BY <1>4, <1>a, <1>b, StoreSame DEF PollFails
<1>5. ASSUME PollFix PROVE StoreInv'
  BY <1>5, <1>a, <1>b, StoreSame DEF PollFix
<1>6. ASSUME NEW p \in Pays, Take(p) PROVE StoreInv'
  BY <1>6, <1>a, <1>b, StoreSame DEF Take
<1>7. ASSUME TakeNothing PROVE StoreInv'
  BY <1>7, <1>a, <1>b, StoreSame DEF TakeNothing
<1>8. ASSUME NEW w \in Workers, Launch(w) PROVE StoreInv'
  BY <1>8, StoreLaunch
<1>9. ASSUME DBInit PROVE StoreInv'
  BY <1>9, <1>a, <1>b, StoreSame DEF DBInit, DownInv
<1>10. ASSUME ReloadBegin PROVE StoreInv'
  BY <1>10, <1>a, <1>b, StoreSame DEF ReloadBegin
<1>11. ASSUME ReloadEnd PROVE StoreInv'
  BY <1>11, <1>a, <1>b, StoreSame DEF ReloadEnd
<1>12. ASSUME DBShutdown PROVE StoreInv'
  BY <1>12, <1>a, <1>b, StoreSame DEF DBShutdown, Reopen
<1>13. ASSUME NEW w \in Workers, NEW r \in Results, Send(w, r) PROVE StoreInv'
  BY <1>13, StoreSend
<1>14. ASSUME NEW w \in Workers, LookUp(w) PROVE StoreInv'
  <2>1. pc[w] = "look" /\ ~db_down /\ active_pays[job[w]] # "none"
    BY <1>14 DEF LookUp, DownInv, EntryInv
  <2>2. /\ pc' = [pc EXCEPT ![w] = "wlock"] /\ frames' = [frames EXCEPT ![w] = Append(@, "entry")]
        /\ UNCHANGED <<row, verdict, job, result, link, pays_cash, new_pay>>
    BY <1>14, <2>1 DEF LookUp
  <2>3. \A v \in Workers : Intact(v)' => Intact(v)
    BY <2>1, <2>2, ZenonT(30) DEF EntryInv, Intact
  <2> QED BY <1>c, <2>1, <2>2, <2>3, StoreGoto DEF Busy
<1>15. ASSUME NEW w \in Workers, WriteLock(w) PROVE StoreInv'
  BY <1>15, <1>a, <1>c, StoreGoto DEF WriteLock, Goto, Busy
<1>16. ASSUME NEW w \in Workers, Write(w) PROVE StoreInv'
  BY <1>16, StoreWrite DEF Write, Goto
<1>17. ASSUME NEW w \in Workers, WriteFails(w) PROVE StoreInv'
  BY <1>17, StoreWrite DEF WriteFails, Goto
<1>18. ASSUME NEW w \in Workers, SetStateFix(w) PROVE StoreInv'
  <2>1. ~link /\ pc[w] = "rlock"
    BY <1>18 DEF SetStateFix, Goto, StoreInv
  <2>2. pc' = [pc EXCEPT ![w] = "fix"]
    BY <1>18, <2>1 DEF SetStateFix, Goto
  <2> QED BY <1>18, <1>a, <1>c, <2>1, <2>2, StoreGoto DEF SetStateFix, Busy
<1>19. ASSUME NEW w \in Workers, Mark(w) PROVE StoreInv'
  BY <1>19, StoreMark
<1>20. ASSUME NEW t \in Workers \cup {Main}, Fixed(t) PROVE StoreInv'
  <2>1. UNCHANGED <<row, verdict, job, result, frames, pays_cash, new_pay>>
    BY <1>20 DEF Fixed
  <2>2. CASE t = Main
    <3>1. db_lock_write = Main /\ UNCHANGED pc
      BY <1>20, <2>2 DEF Fixed, Fixing, LockInv
    <3>2. \A v \in Workers : pc[v] \notin {"rlock", "fix"}
      BY <3>1 DEF LockInv
    <3> QED BY <1>a, <1>b, <2>1, <3>1, <3>2, StoreSame
  <2>3. CASE t \in Workers
    <3>1. pc[t] = "fix" /\ pc' = [pc EXCEPT ![t] = "look"] /\ db_lock_write = t
      BY <1>20, <2>3 DEF Fixed, Fixing, LockInv
    <3>2. \A v \in Workers : pc'[v] \notin {"rlock", "fix"}
      BY <3>1, <2>3 DEF LockInv
    <3> QED BY <1>a, <2>1, <2>3, <3>1, <3>2, StoreGoto DEF Busy
  <2> QED BY <2>2, <2>3
<1>21. ASSUME NEW t \in Workers \cup {Main}, FixRetry(t) PROVE StoreInv'
  BY <1>21, <1>a, <1>b, StoreSame DEF FixRetry, Reopen
<1>22. ASSUME NEW t \in Workers \cup {Main}, FixFails(t) PROVE StoreInv'
  BY <1>22, Endless = TRUE DEF FixFails
<1>23. ASSUME Stop PROVE StoreInv'
  BY <1>23, <1>a, <1>b, StoreSame DEF Stop, SetAccept
<1>24. ASSUME Run PROVE StoreInv'
  BY <1>24, <1>a, <1>b, StoreSame DEF Run, SetAccept
<1>25. ASSUME NEW p \in Pays, Arrive(p) PROVE StoreInv'
  BY <1>25, StoreRow DEF Arrive, dbFrame
<1>26. ASSUME NEW p \in Pays, SleepOver(p) PROVE StoreInv'
  BY <1>26, StoreRow DEF SleepOver, dbFrame
<1>27. ASSUME Lose PROVE StoreInv'
  BY <1>27, <1>a, <1>b, StoreSame DEF Lose, dbFrame
<1>28. ASSUME ServerBack PROVE StoreInv'
  BY <1>28, <1>a, <1>b, StoreSame DEF ServerBack, dbFrame
<1>29. CASE UNCHANGED vars
  BY <1>29, <1>a, <1>b, StoreSame
<1>30. QED
  BY <1>1, <1>2, <1>3, <1>4, <1>5, <1>6, <1>7, <1>8, <1>9, <1>10, <1>11, <1>12, <1>13, <1>14,
     <1>15, <1>16, <1>17, <1>18, <1>19, <1>20, <1>21, <1>22, <1>23, <1>24, <1>25, <1>26, <1>27,
     <1>28, <1>29
  DEF Next, MainStep, WorkerStep, Fix

\* The initial state.
LEMMA InitInv ==
  Init => TypeOK /\ WorkInv /\ LockInv /\ CashInv /\ EntryInv /\ DownInv /\ StoreInv
<1> SUFFICES ASSUME Init
             PROVE  TypeOK /\ WorkInv /\ LockInv /\ CashInv /\ EntryInv /\ DownInv /\ StoreInv
  OBVIOUS
<1>1. TypeOK
  <2>1. db_down \in BOOLEAN /\ db_accept_new_pays \in BOOLEAN /\ server \in BOOLEAN /\ link \in BOOLEAN
    BY Zenon DEF Init
  <2>2. frames \in [Workers -> Seq({"entry", "deleted"})]
    BY DEF Init
  <2> QED BY <2>1, <2>2, DbConstants DEF Init, TypeOK, ResultKinds
<1>2. WorkInv /\ LockInv /\ CashInv /\ DownInv
  BY DbConstants DEF Init, WorkInv, LockInv, CashInv, CashServed, DownInv
<1>3. \A w \in Workers : pc[w] = "idle" /\ job[w] = NULL /\ Intact(w)
  BY DEF Init, Intact
<1>4. EntryInv
  BY <1>3, DbConstants DEF Init, EntryInv, OneWorkerPerPay, Serves
<1>5. StoreInv
  BY <1>3, DbConstants DEF Init, StoreInv, NoResend
<1> QED BY <1>1, <1>2, <1>4, <1>5

\* Every variable keeps its type, and a worker that is past Launch has a pay to work on.
THEOREM TypeCorrect == Spec => [](TypeOK /\ WorkInv)
BY InitInv, TypeStep, PTL DEF Spec

\* While DBFixConnection reopens the connections, in the main thread or in a worker, no
\* other thread has a query under way on them: the two locks are enough.
THEOREM FixAloneCorrect == Spec => []FixAlone
<1>1. TypeOK /\ LockInv => FixAlone
  BY DbConstants DEF TypeOK, LockInv, FixAlone, Fixing
<1>2. Init => LockInv
  BY InitInv
<1> QED BY <1>1, <1>2, TypeCorrect, LockStep, PTL DEF Spec

\* No pay is stranded in the cash: any_results stays 1 as long as there is one, although
\* a failed query resets it.
THEOREM CashServedCorrect == Spec => []CashServed
<1>1. CashInv => CashServed
  BY DEF CashInv
<1>2. Init => CashInv
  BY InitInv
<1> QED BY <1>1, <1>2, TypeCorrect, CashStep, PTL DEF Spec

\* A pay is with one worker, in new_pay or in the cash, never in two of these places,
\* through losses of the connection, nested retries, purges and reboots; provided that
\* no new entry takes the memory of a deleted one.
THEOREM OneWorkerCorrect ==
  ASSUME HeapReuse = FALSE
  PROVE  Spec => []OneWorkerPerPay
<1>1. EntryInv => OneWorkerPerPay
  BY DEF EntryInv
<1>2. Init => EntryInv
  BY InitInv
<1>3. TypeOK /\ WorkInv /\ EntryInv /\ [Next]_vars => EntryInv'
  BY EntryStep, HeapReuse = FALSE
<1> QED BY <1>1, <1>2, <1>3, TypeCorrect, PTL DEF Spec

\* The part of the state that follows a result to its row is an invariant.
THEOREM StoreCorrect ==
  ASSUME Endless = TRUE, QueryErrors = FALSE, HeapReuse = FALSE
  PROVE  Spec => [](TypeOK /\ WorkInv /\ EntryInv /\ DownInv /\ StoreInv)
<1>1. Init => LockInv /\ EntryInv /\ DownInv /\ StoreInv
  BY InitInv
<1>2. TypeOK /\ WorkInv /\ EntryInv /\ [Next]_vars => EntryInv'
  BY EntryStep, HeapReuse = FALSE
<1>3. TypeOK /\ LockInv /\ DownInv /\ [Next]_vars => DownInv'
  BY DownStep, Endless = TRUE
<1>4. /\ TypeOK /\ WorkInv /\ LockInv /\ EntryInv /\ DownInv /\ StoreInv
      /\ [Next]_vars
      => StoreInv'
  BY StoreStep, Endless = TRUE, QueryErrors = FALSE
<1> QED BY <1>1, <1>2, <1>3, <1>4, TypeCorrect, LockStep, PTL DEF Spec

\* A pay whose module has given a final result is never handed to a module again, if the
\* connection is restored endlessly, queries fail only without one, and no new entry
\* takes the memory of a deleted one.
THEOREM NoResendCorrect ==
  ASSUME Endless = TRUE, QueryErrors = FALSE, HeapReuse = FALSE
  PROVE  Spec => []NoResend
<1>1. StoreInv => NoResend
  BY DEF StoreInv
<1> QED BY <1>1, StoreCorrect, PTL

\* Under the same conditions a worker leaves DBSetState with a final result in the row of
\* its pay, however often it had to reconnect and call itself again.
THEOREM ResultStoredCorrect ==
  ASSUME Endless = TRUE, QueryErrors = FALSE, HeapReuse = FALSE
  PROVE  Spec => ResultStored
<1>1. ASSUME TypeOK, WorkInv, EntryInv, DownInv, StoreInv, [Next]_vars,
             NEW w \in Workers, pc[w] # "idle", pc'[w] = "idle", result[w] = "final"
      PROVE  row'[job[w]] = "final"
  <2> SUFFICES pc[w] = "mark" /\ row' = row
    BY <1>1 DEF StoreInv
  <2> USE <1>1, DbConstants DEF TypeOK, vars, listVars, mainVars, workVars
  <2>1. CASE UNCHANGED vars
    BY <2>1
  <2>2. CASE MainStep \/ DBShutdown
    <3>1. CASE Fix(Main)
      BY <3>1 DEF Fix, Fixed, FixRetry, FixFails
    <3> QED BY <2>2, <3>1 DEF MainStep, DBShutdown, PollBegin, PollLock, PollQuery, PollFails,
                 PollFix, Take, TakeNothing, Launch, DBInit
  <2>3. ASSUME NEW v \in Workers, WorkerStep(v) PROVE pc[w] = "mark" /\ row' = row
    <3>1. CASE Mark(v)
      BY <3>1, MarkReturns DEF Mark
    <3>2. CASE LookUp(v)
      <4>1. pc[v] = "look" /\ ~db_down /\ active_pays[job[v]] # "none"
        BY <3>2 DEF LookUp, DownInv, EntryInv
      <4>2. pc' = [pc EXCEPT ![v] = "wlock"]
        BY <3>2, <4>1 DEF LookUp
      <4> QED BY <4>2
    <3>3. CASE Fix(v)
      BY <3>3 DEF Fix, Fixed, FixRetry, FixFails
    <3> QED BY <2>3, <3>1, <3>2, <3>3 DEF WorkerStep, Send, WriteLock, Write, WriteFails,
                 SetStateFix, Goto
  <2>4. CASE Stop \/ Run \/ ReloadBegin \/ ReloadEnd
    BY <2>4 DEF Stop, Run, SetAccept, ReloadBegin, ReloadEnd
  <2>5. CASE Lose \/ ServerBack \/ \E p \in Pays : Arrive(p) \/ SleepOver(p)
    BY <2>5 DEF Lose, ServerBack, Arrive, SleepOver, dbFrame
  <2> QED BY <2>1, <2>2, <2>3, <2>4, <2>5 DEF Next
<1>2. TypeOK /\ WorkInv /\ EntryInv /\ DownInv /\ StoreInv /\ [Next]_vars =>
        [\A w \in Workers : pc[w] # "idle" /\ pc'[w] = "idle" /\ result[w] = "final"
           => row'[job[w]] = "final"]_vars
  BY <1>1
<1> QED BY <1>2, StoreCorrect, PTL DEF Spec, ResultStored
=============================================================================
