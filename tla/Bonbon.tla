------------------------------- MODULE Bonbon -------------------------------
(***************************************************************************)
(* The locks of libbonbon (cmutex.cc, csemaphore.cc) and their deadlock    *)
(* detector (clock.cc): every lock that is required or held is an entry of *)
(* locks_graph, and each change of the graph is followed by a reduction    *)
(* that must leave nothing behind.                                         *)
(*                                                                         *)
(* The critical sections of self_lock and of locks_graph_lock are one step *)
(* each.  A thread runs programs: sequences of calls.                      *)
(***************************************************************************)
EXTENDS Integers, Sequences, FiniteSets, SequencesExt, FiniteSetsExt

CONSTANTS
  Threads, Locks,
  Units,        \* lock -> units of its semaphore: 1 for a CMutex, val for a CSemaphore
  Programs,     \* what a thread may do: sequences of <<call, lock>>
  NULL

HARD == 2
SOFT == 1

ASSUME BonbonConstants ==
  /\ Units \in [Locks -> Nat \ {0}]
  /\ \A p \in Programs : p # <<>> /\ \A i \in 1..Len(p) : p[i][2] \in Locks

VARIABLES
  locks_graph,  \* sequence of SLockGraph
  r_lockers, w_lockers,  \* lock -> threads; lockers_threads of a CMutex is its w_lockers
  write_lock,   \* lock -> the thread that collects units, or NULL
  held,         \* thread -> lock -> units it has taken from the semaphore and not given back
  at, program,  \* where each thread stands, and the calls it has still to make
  reporting,    \* the thread that has printed "Deadlock detected" and waits for input
  reported      \* history: the detector has spoken

lockVars == <<r_lockers, w_lockers, write_lock, held>>
vars == <<locks_graph, lockVars, at, program, reporting, reported>>

-----------------------------------------------------------------------------
(* The graph of locks.                                                      *)

SLockGraph(t, l, type, mode) == [transaction |-> t, lock |-> l, type |-> type, mode |-> mode]

\* std::find with SLockGraph::operator==
Find(t, l) == SelectInSeq(locks_graph, LAMBDA e : e.transaction = t /\ e.lock = l)

\* vector::erase moves the later entries up with SLockGraph::operator=, which does not
\* copy the mode.
Erase(g, i) ==
  [j \in 1..(Len(g) - 1) |-> IF j < i THEN g[j] ELSE [g[j + 1] EXCEPT !.mode = g[j].mode]]

\* A lock whose thread requires nothing will be released.
Erasable(g, i) ==
  /\ g[i].type = "CAT"
  /\ \A j \in 1..Len(g) : g[j].type = "REQ" /\ j # i => g[j].transaction # g[i].transaction

\* Variant of Swappable: who holds the lock is not asked.
SwappableAlways(g, i) == g[i].type = "REQ"

\* A lock that nobody has will be caught by whoever requires it.
Swappable(g, i) ==
  /\ g[i].type = "REQ"
  /\ \A j \in 1..Len(g) : g[j].type = "CAT" /\ j # i => g[j].lock # g[i].lock

\* One pass of the loop: after an erasure the iterator passes over the next entry.
RECURSIVE Pass(_, _, _, _)
Pass(g, i, some_erased, any_hard) ==
  IF i > Len(g) THEN [graph |-> g, some_erased |-> some_erased, any_hard |-> any_hard]
  ELSE LET hard == any_hard \/ g[i].mode = HARD
       IN IF Erasable(g, i) THEN Pass(Erase(g, i), i + 1, TRUE, hard)
          ELSE IF Swappable(g, i) THEN Pass([g EXCEPT ![i].type = "CAT"], i + 1, TRUE, hard)
          ELSE Pass(g, i + 1, some_erased, hard)

RECURSIVE CheckLockGraph(_)
CheckLockGraph(g) ==
  LET p == Pass(g, 1, FALSE, FALSE)
  IN IF p.some_erased THEN CheckLockGraph(p.graph) ELSE p.graph # <<>> /\ p.any_hard

\* The end of RequireLock and CatchLock.
Check(t, g) ==
  /\ locks_graph' = g
  /\ reporting' = IF CheckLockGraph(g) THEN t ELSE NULL
  /\ reported' = (reported \/ CheckLockGraph(g))

-----------------------------------------------------------------------------
(* CMutex and CSemaphore.                                                   *)

Call(t) == Head(program[t])[1]
Lock(t) == Head(program[t])[2]

Init ==
  /\ locks_graph = <<>> /\ reporting = NULL /\ reported = FALSE
  /\ r_lockers = [l \in Locks |-> {}] /\ w_lockers = [l \in Locks |-> {}]
  /\ write_lock = [l \in Locks |-> NULL]
  /\ held = [t \in Threads |-> [l \in Locks |-> 0]]
  /\ at = [t \in Threads |-> "call"] /\ program = [t \in Threads |-> <<>>]

\* The loop of a module's Execute.
Begin(t, p) ==
  /\ at[t] = "call" /\ program[t] = <<>>
  /\ program' = [program EXCEPT ![t] = p]
  /\ UNCHANGED <<locks_graph, lockVars, at, reporting, reported>>

\* A call that the bookkeeping refuses: CMUTEX_DEADLOCK, CSEMAPHORE_DRLOCK and so on.
Refused(t) ==
  LET r == t \in r_lockers[Lock(t)]
      w == t \in w_lockers[Lock(t)]
  IN CASE Call(t) = "Lock" -> w        [] Call(t) = "UnLock" -> ~w
       [] Call(t) = "LockRead" -> r    [] Call(t) = "UnLockRead" -> ~r
       [] Call(t) = "LockWrite" -> r \/ w [] Call(t) = "UnLockWrite" -> ~w

\* A reader that has the lock for writing has all it needs.
Nested(t) == Call(t) \in {"LockRead", "UnLockRead"} /\ t \in w_lockers[Lock(t)]

\* The section of self_lock every call begins with.
SelfLock(t) ==
  /\ at[t] = "call" /\ program[t] # <<>>
  /\ LET l == Lock(t)
         next == CASE Refused(t) \/ Nested(t) -> "call"
                   [] Call(t) \in {"Lock", "LockRead", "LockWrite"} -> "require"
                   [] Call(t) = "UnLockRead" -> "post"
                   [] OTHER -> "unregister"
     IN /\ at' = [at EXCEPT ![t] = next]
        /\ program' = [program EXCEPT ![t] = IF next = "call" THEN Tail(@) ELSE @]
        /\ r_lockers' = IF Refused(t) THEN r_lockers
                        ELSE [r_lockers EXCEPT ![l] = CASE Call(t) = "LockRead" -> @ \cup {t}
                                                        [] Call(t) = "UnLockRead" -> @ \ {t}
                                                        [] OTHER -> @]
        /\ w_lockers' = IF Refused(t) THEN w_lockers
                        ELSE [w_lockers EXCEPT ![l] = CASE Call(t) \in {"Lock", "LockWrite"} -> @ \cup {t}
                                                        [] Call(t) \in {"UnLock", "UnLockWrite"} -> @ \ {t}
                                                        [] OTHER -> @]
  /\ UNCHANGED <<locks_graph, write_lock, held, reporting, reported>>

\* HardLockRequire, SoftLockRequire
RequireLock(t) ==
  /\ at[t] = "require" /\ reporting = NULL
  /\ Check(t, Append(locks_graph,
                     SLockGraph(t, Lock(t), "REQ", IF Call(t) = "LockRead" THEN SOFT ELSE HARD)))
  /\ at' = [at EXCEPT ![t] = "wait"]
  /\ UNCHANGED <<lockVars, program>>

Free(l) == Units[l] - MapThenSumSet(LAMBDA t : held[t][l], Threads)

\* sem_wait(&lock), once or, by the one writer that has write_lock, for every unit.
SemWait(t) ==
  LET l == Lock(t)
      all == IF Call(t) = "LockWrite" THEN Units[l] ELSE 1
  IN /\ at[t] = "wait" /\ reporting # t
     /\ Call(t) = "LockWrite" => write_lock[l] \in {NULL, t}
     /\ Free(l) > 0
     /\ held' = [held EXCEPT ![t][l] = @ + 1]
     /\ at' = [at EXCEPT ![t] = IF held'[t][l] = all THEN "register" ELSE @]
     /\ write_lock' = [write_lock EXCEPT ![l] =
                         IF Call(t) = "LockWrite" /\ held'[t][l] < all THEN t
                         ELSE IF @ = t THEN NULL ELSE @]
     /\ UNCHANGED <<locks_graph, r_lockers, w_lockers, program, reporting, reported>>

Return(t, next) ==
  /\ at' = [at EXCEPT ![t] = next]
  /\ program' = [program EXCEPT ![t] = IF next = "call" THEN Tail(@) ELSE @]

\* LockRegister; an entry that is not there ends the process.
CatchLock(t) ==
  /\ at[t] = "register" /\ reporting = NULL
  /\ Find(t, Lock(t)) # 0
  /\ Check(t, [locks_graph EXCEPT ![Find(t, Lock(t))].type = "CAT"])
  /\ Return(t, "call")
  /\ UNCHANGED lockVars

\* LockUnRegister: a reader gives its unit back before, the others afterwards.
ReleaseLock(t) ==
  /\ at[t] = "unregister" /\ reporting = NULL
  /\ Find(t, Lock(t)) # 0
  /\ locks_graph' = Erase(locks_graph, Find(t, Lock(t)))
  /\ Return(t, IF Call(t) = "UnLockRead" THEN "call" ELSE "post")
  /\ UNCHANGED <<lockVars, reporting, reported>>

\* sem_post(&lock), once per unit.
SemPost(t) ==
  LET l == Lock(t)
      last == Call(t) # "UnLockWrite" \/ held[t][l] = 1
  IN /\ at[t] = "post" /\ reporting # t
     /\ held' = [held EXCEPT ![t][l] = @ - 1]
     /\ IF ~last THEN UNCHANGED <<at, program>>
        ELSE Return(t, IF Call(t) = "UnLockRead" THEN "unregister" ELSE "call")
     /\ UNCHANGED <<locks_graph, r_lockers, w_lockers, write_lock, reporting, reported>>

\* std::cin >> in: the result of the check is not looked at.
Resume == reporting # NULL /\ reporting' = NULL /\ UNCHANGED <<locks_graph, lockVars, at, program, reported>>

Next ==
  \/ \E t \in Threads :
       \/ \E p \in Programs : reporting # t /\ Begin(t, p)
       \/ reporting # t /\ SelfLock(t)
       \/ RequireLock(t) \/ SemWait(t) \/ CatchLock(t) \/ ReleaseLock(t) \/ SemPost(t)
  \/ Resume

Spec == Init /\ [][Next]_vars

-----------------------------------------------------------------------------
(* Properties.                                                              *)

\* u keeps t from the lock it waits for: it has units of it, and t needs all of them or u
\* has left none.
Blocks(u, t) ==
  LET l == Lock(t)
  IN u # t /\ held[u][l] > 0 /\ (Free(l) = 0 \/ Call(t) = "LockWrite") /\ at[u] # "post"

\* Threads that wait for each other.
Deadlocked(D) ==
  D # {} /\ \A t \in D : at[t] = "wait" /\ \E u \in D : Blocks(u, t)

\* "It supports deadlocks detection" (bonbon.h): CheckLockGraph speaks as soon as threads
\* wait for each other's exclusive locks, and never when they do not, although requests,
\* grants and releases of other threads interleave and the graph lags behind the semaphores.
DetectsDeadlocks == reported <=> \E D \in SUBSET Threads : Deadlocked(D)

=============================================================================
