-------------------------- MODULE FrontEndsProofs ---------------------------
(***************************************************************************)
(* Proofs about FrontEnds: both paycheck front ends over one table of      *)
(* results.  Each property has an inductive invariant of its own:          *)
(*                                                                         *)
(*   SendAlive         SocketInv: a client's socket that was deleted is in *)
(*                     no list and with no thread; XmlInv: a socket of the *)
(*                     XML front end is in one place at a time, so that    *)
(*                     only its holder can close it;                       *)
(*   CheckedOnce       OnceInv: who is about to hand a request over has    *)
(*                     found no row, and nobody else of its front end can  *)
(*                     have handed it over since;                          *)
(*   WaitingIsCarried  WaitInv: a row that says "unknown" has a result     *)
(*                     under way, a waiting request without a row is under *)
(*                     way itself; CodeInv: no result is "unknown";        *)
(*   AnswersAsked      AskInv: the answers given, the entries that wait    *)
(*                     and the answers being sent are asked requests.      *)
(*                                                                         *)
(* All rest on TypeInv: where each thread stands and what it then has.     *)
(* The step lemmas go through the actions of Next one by one.              *)
(***************************************************************************)
EXTENDS FrontEnds, SequenceTheorems, FiniteSetTheorems, WellFoundedInduction, TLAPS

\* Results in a row; requests; entries of the binary front end's lists.
Codes == Results \cup {UNKNOWN, QUEUE_FULL}
PayRecs == [key : Keys, xml_sock : XSockets \cup {NULL}, code : Codes \cup {NULL}]
Entries == [key : Keys, sock : Clients \cup {NULL}]
FdStates == {"none", "open", "down", "deleted"}

\* Where each thread may stand; the places where it has no pay.
MainAt == {"loop", "select", "selecting", "insert", "inserting", "ready", "end"}
ServerAt == {"loop", "pass", "select", "selecting", "queue", "inserting", "update", "updating",
             "answer", "end"}
GetDataAt == {"loop", "receive", "err", "drop", "update", "updating", "find", "send", "end"}
WorkerAt == {"loop", "run", "update", "updating", "find", "send", "answer", "end"}
Places == MainAt \cup ServerAt \cup GetDataAt \cup WorkerAt
Free == {"loop", "pass", "receive", "err", "drop", "end"}

\* Where the threads stand, and the pays they then have.
ThreadInv ==
  /\ check_reqs \in [Keys -> Codes \cup {NULL}]
  /\ at \in [Threads -> Places] /\ pay \in [Threads -> PayRecs \cup {NULL}]
  /\ at["main"] \in MainAt /\ at["server"] \in ServerAt /\ at["GetData"] \in GetDataAt
  /\ \A w \in Workers : at[w] \in WorkerAt
  /\ \A t \in Threads :
       /\ pay[t] = NULL <=> at[t] \in Free
       /\ at[t] \in {"update", "updating"} => pay[t].code # NULL
       /\ at[t] = "answer" => pay[t].xml_sock # NULL
  /\ pays \in Seq(PayRecs) /\ \A i \in DOMAIN pays : pays[i].xml_sock # NULL
  /\ connections_store \subseteq XSockets /\ active_sock_list \subseteq XSockets
  /\ pay["GetData"] # NULL => pay["GetData"].xml_sock = NULL
  /\ pay["server"] # NULL => pay["server"].xml_sock \in active_sock_list

\* The lists of the binary front end.
ClientInv ==
  /\ sock_list \in Seq(Clients) /\ sock_num \in Nat
  /\ in_list \in Seq(Entries) /\ in_cash_list \in Seq(Entries)
  /\ fd \in [Clients -> FdStates]
  /\ at["GetData"] \in {"receive", "err", "drop"} => gd_sock \in Clients
  /\ at["GetData"] = "err" => gd_msg \in Messages \cup {HALF, EOF}
  /\ to \in [Threads -> Clients \cup {NULL}]
  /\ \A t \in Threads : at[t] = "send" => to[t] \in Clients

\* The shape of the state.
TypeInv == ThreadInv /\ ClientInv

\* Clients' sockets: deleted ones are in no list and with no thread.
Alive(s) == fd[s] \in {"open", "down"}

SocketInv ==
  /\ \A i \in DOMAIN sock_list : Alive(sock_list[i])
  /\ \A i, j \in DOMAIN sock_list : sock_list[i] = sock_list[j] => i = j
  /\ \A i \in DOMAIN in_list : in_list[i].sock # NULL => Alive(in_list[i].sock)
  /\ at["GetData"] \in {"receive", "err", "drop"} => Alive(gd_sock)
  /\ \A t \in Threads : at[t] = "send" => Alive(to[t])

\* Threads that answer an XML client on the socket in its pay.
Holders == Threads \ {"server"}
Holds(t, s) == pay[t] # NULL /\ pay[t].xml_sock = s

\* An open XML socket is waiting, active, queued with its pay, or with one thread.
XmlInv ==
  /\ xfd \in [XSockets -> FdStates]
  /\ connections_store \cap active_sock_list = {}
  /\ \A s \in connections_store \cup active_sock_list : xfd[s] = "open"
  /\ \A i, j \in DOMAIN pays : pays[i].xml_sock = pays[j].xml_sock => i = j
  /\ \A i \in DOMAIN pays :
       /\ xfd[pays[i].xml_sock] = "open" /\ pays[i].xml_sock \notin connections_store
       /\ pays[i].xml_sock \in active_sock_list =>
            at["server"] = "inserting" /\ pay["server"].xml_sock = pays[i].xml_sock
       /\ \A t \in Holders : ~Holds(t, pays[i].xml_sock)
  /\ \A t, u \in Holders, s \in XSockets : Holds(t, s) /\ Holds(u, s) => t = u
  /\ \A t \in Holders, s \in XSockets : Holds(t, s) =>
       xfd[s] = "open" /\ s \notin connections_store \cup active_sock_list

\* A request that was handed over has a row, or the thread that hands it over is about to
\* insert the row; who is about to hand one over is the first.
OnceInv ==
  /\ launched \in [Keys -> {0, 1}] /\ xlaunched \in [Keys -> {0, 1}]
  /\ \A k \in Keys :
       /\ launched[k] = 1 => check_reqs[k] # NULL
       /\ xlaunched[k] = 1 =>
            check_reqs[k] # NULL \/ (at["server"] = "inserting" /\ pay["server"].key = k)
  /\ at["main"] \in {"insert", "inserting"} => launched[pay["main"].key] = 0
  /\ at["server"] = "queue" => xlaunched[pay["server"].key] = 0

\* A request that has no row is still on its way to main's insert.
OnItsWay(k) ==
  \/ \E i \in DOMAIN in_cash_list : in_cash_list[i].key = k
  \/ at["main"] \in {"select", "selecting", "insert", "inserting"} /\ pay["main"].key = k

\* A thread that will write the result of a request has it.
Carriers == Workers \cup {"main"}
InHand(k) == \E t \in Carriers :
  at[t] \in {"ready", "run", "update", "updating"} /\ pay[t].key = k

\* Neither a result of a module nor QUEUE_FULL is "unknown"; the server has requests of XML
\* clients; after the end of main no client waits.
CodeInv ==
  /\ \A t \in Threads \ {"server"} : at[t] \in {"update", "updating"} => pay[t].code # UNKNOWN
  /\ pay["server"] # NULL => pay["server"].key \in xasked
  /\ at["main"] = "end" => at["GetData"] = "end" /\ in_list = <<>>

\* The row of a request that only binary clients have asked: "unknown" while a result is
\* under way, absent while the request is.
RowKept(k) ==
  /\ check_reqs[k] = UNKNOWN => InHand(k)
  /\ check_reqs[k] = NULL => \A i \in DOMAIN in_list : in_list[i].key = k => OnItsWay(k)

\* RowKept is promised until a reboot or the end of main.
WaitInv ==
  reboots = 0 /\ at["main"] # "end" => \A k \in Keys \ (xasked \cup {NoId}) : RowKept(k)

\* A client's request: its entries that wait, the threads that answer it, and the account of
\* both with the answers it has.
Waiting(s, k) == {i \in DOMAIN in_list : in_list[i].sock = s /\ in_list[i].key = k}
Answering(s, k) == {t \in Threads : at[t] = "send" /\ to[t] = s /\ pay[t].key = k}
Balance(s, k) ==
  answered[s][k] + Cardinality(Waiting(s, k)) + Cardinality(Answering(s, k)) <= asked[s][k]

AskInv ==
  /\ answered \in [Clients -> [Keys -> Nat]] /\ asked \in [Clients -> [Keys -> Nat]]
  /\ \A s \in Clients, k \in Keys : Balance(s, k)

\* What is left of a sequence without its i-th element.
LEMMA RemoveAtProperties ==
  ASSUME NEW S, NEW s \in Seq(S), NEW i \in 1 .. Len(s)
  PROVE  /\ RemoveAt(s, i) \in Seq(S)
         /\ Len(RemoveAt(s, i)) = Len(s) - 1
         /\ \A j \in 1 .. Len(s) - 1 : RemoveAt(s, i)[j] = IF j < i THEN s[j] ELSE s[j + 1]
<1> DEFINE a == SubSeq(s, 1, i - 1)
           b == SubSeq(s, i + 1, Len(s))
<1>1. Len(s) \in Nat /\ i \in Nat /\ \A j \in 1 .. Len(s) : s[j] \in S
  BY ElementOfSeq, LenProperties
<1>2. /\ a \in Seq(S) /\ Len(a) = i - 1
      /\ \A j \in 1 .. i - 1 : a[j] = s[j]
  <2>1. \A j \in 1 .. i - 1 : s[j] \in S
    BY <1>1
  <2> QED BY <1>1, <2>1, SubSeqProperties
<1>3. /\ b \in Seq(S) /\ Len(b) = Len(s) - i
      /\ \A j \in 1 .. Len(s) - i : b[j] = s[i + j]
  <2>1. \A j \in i + 1 .. Len(s) : s[j] \in S
    BY <1>1
  <2>2. /\ b \in Seq(S)
        /\ Len(b) = IF i + 1 <= Len(s) THEN Len(s) - (i + 1) + 1 ELSE 0
        /\ \A j \in 1 .. Len(s) - (i + 1) + 1 : b[j] = s[i + 1 + j - 1]
    BY <1>1, <2>1, SubSeqProperties
  <2> QED BY <1>1, <2>2
<1> HIDE DEF a, b
<1>4. RemoveAt(s, i) = a \o b
  BY DEF RemoveAt, a, b
<1>5. /\ a \o b \in Seq(S) /\ Len(a \o b) = Len(a) + Len(b)
      /\ \A j \in 1 .. Len(a) + Len(b) : (a \o b)[j] = IF j <= Len(a) THEN a[j] ELSE b[j - Len(a)]
  BY <1>2, <1>3, ConcatProperties
<1>6. ASSUME NEW j \in 1 .. Len(s) - 1 PROVE (a \o b)[j] = IF j < i THEN s[j] ELSE s[j + 1]
  <2>1. CASE j < i
    BY <1>1, <1>2, <1>3, <1>5, <1>6, <2>1
  <2>2. CASE ~(j < i)
    <3>1. (a \o b)[j] = b[j - (i - 1)]
      BY <1>1, <1>2, <1>3, <1>5, <1>6, <2>2
    <3>2. b[j - (i - 1)] = s[i + (j - (i - 1))]
      BY <1>1, <1>3, <1>6, <2>2
    <3>3. i + (j - (i - 1)) = j + 1
      BY <1>1, <1>6
    <3> QED BY <2>2, <3>1, <3>2, <3>3
  <2> QED BY <2>1, <2>2
<1> QED BY <1>1, <1>2, <1>3, <1>4, <1>5, <1>6

\* A set of positions has a first one.
LEMMA MinProperties ==
  ASSUME NEW I \in SUBSET Nat, I # {}
  PROVE  Min(I) \in I
<1>1. PICK x \in I : \A y \in I : ~(<<y, x>> \in OpToRel(<, Nat))
  BY NatLessThanWellFounded, WFMin
<1>2. ASSUME NEW y \in I, y < x PROVE FALSE
  <2>1. <<y, x>> \in Nat \X Nat /\ <<y, x>>[1] < <<y, x>>[2]
    BY <1>2
  <2>2. OpToRel(<, Nat) = {z \in Nat \X Nat : z[1] < z[2]}
    BY DEF OpToRel
  <2> QED BY <1>1, <2>1, <2>2
<1>3. \A y \in I : x =< y
  BY <1>2
<1> QED BY <1>3 DEF Min

\* The first check in in_list with a given key, if there is one.
LEMMA EntryProperties ==
  ASSUME in_list \in Seq(Entries), NEW k
  PROVE  \/ Entry(k) = 0
         \/ Entry(k) \in 1 .. Len(in_list) /\ in_list[Entry(k)].key = k
<1> DEFINE I == {i \in 1 .. Len(in_list) : in_list[i].key = k}
<1>1. Entry(k) = IF I # {} THEN Min(I) ELSE 0
  BY DEF Entry, SelectInSeq
<1>2. I # {} => Min(I) \in I
  <2>1. I \in SUBSET Nat
    OBVIOUS
  <2> HIDE DEF I
  <2> QED BY <2>1, MinProperties
<1> QED BY <1>1, <1>2

\* RemoveFirst takes out one element, or nothing if the element is not there.
LEMMA RemoveFirstProperties ==
  ASSUME NEW S, NEW s \in Seq(S), NEW e
  PROVE  \/ RemoveFirst(s, e) = s /\ \A i \in 1 .. Len(s) : s[i] # e
         \/ \E i \in 1 .. Len(s) : s[i] = e /\ RemoveFirst(s, e) = RemoveAt(s, i)
<1> DEFINE I == {i \in 1 .. Len(s) : s[i] = e}
<1>1. CASE I # {}
  <2>1. Min(I) \in I
    <3>1. I \in SUBSET Nat
      OBVIOUS
    <3> HIDE DEF I
    <3> QED BY <1>1, <3>1, MinProperties
  <2>2. RemoveFirst(s, e) = RemoveAt(s, Min(I))
    BY <1>1 DEF RemoveFirst, SelectInSeq
  <2> QED BY <2>1, <2>2
<1>2. CASE I = {}
  BY <1>2 DEF RemoveFirst
<1> QED BY <1>1, <1>2

\* A step of one thread, with the pay it has afterwards.
LEMMA OneThread ==
  ASSUME ThreadInv, NEW t \in Threads, NEW a \in Places, NEW p \in PayRecs \cup {NULL},
         at' = [at EXCEPT ![t] = a], pay' = [pay EXCEPT ![t] = p],
         t = "main" => a \in MainAt, t = "server" => a \in ServerAt, t = "GetData" => a \in GetDataAt,
         t \in Workers => a \in WorkerAt,
         p = NULL <=> a \in Free, a \in {"update", "updating"} => p.code # NULL,
         a = "answer" => p.xml_sock # NULL,
         t = "GetData" /\ p # NULL => p.xml_sock = NULL,
         t = "server" /\ p # NULL => p.xml_sock \in active_sock_list,
         UNCHANGED <<check_reqs, connections_store, active_sock_list>>,
         pays' \in Seq(PayRecs), \A i \in DOMAIN pays' : pays'[i].xml_sock # NULL
  PROVE  ThreadInv'
BY CheckConstants DEF ThreadInv, Threads

\* Every thread stands where its code can be and has a pay exactly where it needs one.
LEMMA ThreadStep == ThreadInv /\ ClientInv /\ [Next]_vars => ThreadInv'
<1> SUFFICES ASSUME ThreadInv, ClientInv, [Next]_vars PROVE ThreadInv'
  OBVIOUS
<1> USE CheckConstants, PayCheckConstants, XmlCheckConstants
    DEF ThreadInv, ClientInv, Threads, Codes, PayRecs, Entries, MainAt, ServerAt, GetDataAt, WorkerAt,
        Places, Free, vars, checkVars, pcVars, xmlVars, socketVars, listVars, historyVars
<1>1. ASSUME NEW t \in Threads, SetStateEnter(t), UNCHANGED <<pcVars, xmlVars, reboots>>
      PROVE  ThreadInv'
  BY <1>1 DEF SetStateEnter, Enter
<1>2. ASSUME NEW t \in Threads, SetStateLeave(t), UNCHANGED <<pcVars, xmlVars, reboots>>
      PROVE  ThreadInv'
  BY <1>2 DEF SetStateLeave, Update, Leave
<1>3. ASSUME NEW w \in Workers, Launch(w), UNCHANGED <<pcVars, xmlVars, reboots>>
      PROVE  ThreadInv'
  BY <1>3 DEF Launch
<1>4. ASSUME NEW w \in Workers, NEW r \in Results, DBSetState(w, r), UNCHANGED <<pcVars, xmlVars, reboots>>
      PROVE  ThreadInv'
  <2> DEFINE p == [pay[w] EXCEPT !.code = r]
  <2>1. pay[w] \in PayRecs
    BY <1>4 DEF DBSetState
  <2>2. p \in PayRecs /\ p.code = r /\ p.xml_sock = pay[w].xml_sock /\ p.key = pay[w].key
    BY <2>1
  <2>3. pay' = [pay EXCEPT ![w] = p]
    BY <1>4 DEF DBSetState
  <2>4. at[w] = "run" /\ UNCHANGED <<check_reqs, pays, connections_store, active_sock_list>>
    BY <1>4 DEF DBSetState
  <2>5. PICK a \in {"find", "update"} : at' = [at EXCEPT ![w] = a]
    BY <1>4 DEF DBSetState
  <2>6. w \in Threads /\ w \notin {"main", "server", "GetData"} /\ p # NULL /\ p.code # NULL
    BY <2>2
  <2> HIDE DEF p
  <2>7. ThreadInv
    OBVIOUS
  <2> QED BY <2>2, <2>3, <2>4, <2>5, <2>6, <2>7, OneThread
<1>5. ASSUME NEW s \in Clients, Accept(s), UNCHANGED <<xmlVars, reboots>>
      PROVE  ThreadInv'
  BY <1>5 DEF Accept, Connected
<1>6. ASSUME NEW s \in Clients, TimeOut(s), UNCHANGED <<xmlVars, reboots>>
      PROVE  ThreadInv'
  BY <1>6 DEF TimeOut, Down
<1>7. ASSUME NEW ready \in SUBSET Clients, Pick(ready), UNCHANGED <<xmlVars, reboots>>
      PROVE  ThreadInv'
  BY <1>7 DEF Pick
<1>8. ASSUME NEW chunk \in Messages \cup {HALF, EOF}, Receive(chunk), UNCHANGED <<xmlVars, reboots>>
      PROVE  ThreadInv'
  BY <1>8 DEF Receive
<1>9. ASSUME Refuse, UNCHANGED <<xmlVars, reboots>>
      PROVE  ThreadInv'
  BY <1>9 DEF Refuse
<1>10. ASSUME DropClient, UNCHANGED <<xmlVars, reboots>>
       PROVE  ThreadInv'
  BY <1>10 DEF DropClient, Readers
<1>11. ASSUME OtherMessage, UNCHANGED <<xmlVars, reboots>>
       PROVE  ThreadInv'
  BY <1>11 DEF OtherMessage, Got
<1>12. ASSUME Authorization, UNCHANGED <<xmlVars, reboots>>
       PROVE  ThreadInv'
  BY <1>12 DEF Authorization, Got, Down
<1>13. ASSUME Enqueue, UNCHANGED <<xmlVars, reboots>>
       PROVE  ThreadInv'
  BY <1>13 DEF Enqueue, MayCheck, Got
<1>14. ASSUME QueueFull, UNCHANGED <<xmlVars, reboots>>
       PROVE  ThreadInv'
  <2> DEFINE p == [SPay(gd_msg.key, NULL) EXCEPT !.code = QUEUE_FULL]
  <2>1. gd_msg.key \in Keys
    BY <1>14 DEF QueueFull, MayCheck, Got, HALF, EOF
  <2>2. p \in PayRecs /\ p.code = QUEUE_FULL /\ p.xml_sock = NULL /\ p # NULL
    BY <2>1 DEF SPay
  <2>3. pay' = [pay EXCEPT !["GetData"] = p]
    BY <1>14 DEF QueueFull
  <2>4. UNCHANGED <<check_reqs, pays, connections_store, active_sock_list>>
    BY <1>14 DEF QueueFull
  <2>5. PICK a \in {"find", "update"} : at' = [at EXCEPT !["GetData"] = a]
    BY <1>14 DEF QueueFull
  <2>6. p.code # NULL /\ "GetData" \in Threads \ Workers
    BY <2>2
  <2> HIDE DEF p
  <2>7. ThreadInv
    OBVIOUS
  <2> QED BY <2>2, <2>3, <2>4, <2>5, <2>6, <2>7, OneThread
<1>15. ASSUME TakeCheck, UNCHANGED <<xmlVars, reboots>>
       PROVE  ThreadInv'
  <2> DEFINE p == SPay(Head(in_cash_list).key, NULL)
  <2>1. Head(in_cash_list) \in Entries
    <3>1. in_cash_list \in Seq(Entries) /\ in_cash_list # <<>>
      BY <1>15 DEF TakeCheck
    <3> HIDE DEF Entries
    <3> QED BY <3>1, HeadTailProperties
  <2>2. p \in PayRecs /\ p # NULL
    BY <2>1 DEF SPay
  <2>3. pay' = [pay EXCEPT !["main"] = p]
    BY <1>15 DEF TakeCheck
  <2> HIDE DEF p
  <2> QED BY <1>15, <2>2, <2>3 DEF TakeCheck
<1>16. ASSUME Selected, UNCHANGED <<xmlVars, reboots>>
       PROVE  ThreadInv'
  <2>1. CASE at' = [at EXCEPT !["main"] = "loop"] /\ pay' = [pay EXCEPT !["main"] = NULL]
    BY <1>16, <2>1 DEF Selected
  <2>2. CASE at' = [at EXCEPT !["main"] = "insert"] /\ UNCHANGED pay
    BY <1>16, <2>2 DEF Selected
  <2> QED BY <1>16, <2>1, <2>2 DEF Selected
<1>17. ASSUME Inserted, UNCHANGED <<xmlVars, reboots>>
       PROVE  ThreadInv'
  BY <1>17 DEF Inserted, Insert, Leave
<1>18. ASSUME Enter("main", "select", "selecting"), UNCHANGED <<pcVars, xmlVars, reboots>>
       PROVE  ThreadInv'
  BY <1>18 DEF Enter
<1>19. ASSUME Enter("main", "insert", "inserting"), UNCHANGED <<pcVars, xmlVars, reboots>>
       PROVE  ThreadInv'
  BY <1>19 DEF Enter
<1>20. ASSUME NEW t \in Threads, Find(t), UNCHANGED <<xmlVars, reboots>>
       PROVE  ThreadInv'
  <2>0. at[t] = "find" /\ UNCHANGED <<check_reqs, pays, connections_store, active_sock_list>>
    BY <1>20 DEF Find
  <2>1. CASE at' = [at EXCEPT ![t] = "loop"] /\ pay' = [pay EXCEPT ![t] = NULL]
    BY <2>0, <2>1
  <2>2. CASE at' = [at EXCEPT ![t] = "send"] /\ UNCHANGED pay
    BY <2>0, <2>2
  <2> QED BY <1>20, <2>1, <2>2 DEF Find, Done
<1>21. ASSUME NEW t \in Threads, NEW sent \in BOOLEAN, Send(t, sent), UNCHANGED <<xmlVars, reboots>>
       PROVE  ThreadInv'
  BY <1>21 DEF Send, Done
<1>22. ASSUME NEW s \in XSockets, XAccept(s), UNCHANGED <<pcVars, reboots>>
       PROVE  ThreadInv'
  BY <1>22 DEF XAccept
<1>23. ASSUME NEW s \in active_sock_list, NEW r \in XRequests, XAnswered(s, r), UNCHANGED <<pcVars, reboots>>
       PROVE  ThreadInv'
  BY <1>23 DEF XAnswered, NextActive
<1>24. ASSUME NEW s \in active_sock_list, NEW k \in Keys, XCheck(s, k), UNCHANGED <<pcVars, reboots>>
       PROVE  ThreadInv'
  BY <1>24 DEF XCheck, SPay
<1>25. ASSUME XSelected, UNCHANGED <<pcVars, reboots>>
       PROVE  ThreadInv'
  <2> DEFINE p == [pay["server"] EXCEPT !.code = check_reqs[pay["server"].key]]
  <2>1. pay["server"] \in PayRecs /\ pay["server"].xml_sock # NULL
    BY <1>25, SMTT(20) DEF XSelected
  <2>2. CASE /\ check_reqs[pay["server"].key] # NULL
             /\ pay' = [pay EXCEPT !["server"] = p]
             /\ at' = [at EXCEPT !["server"] = "update"]
    <3>1. p \in PayRecs /\ p.xml_sock = pay["server"].xml_sock /\ p.code # NULL
      BY <2>1, <2>2
    <3> HIDE DEF p
    <3> QED BY <1>25, <2>2, <3>1 DEF XSelected
  <2>3. CASE at' = [at EXCEPT !["server"] = "queue"] /\ UNCHANGED pay
    BY <1>25, <2>3 DEF XSelected
  <2> QED BY <1>25, <2>2, <2>3 DEF XSelected
<1>26. ASSUME XQueueFull, UNCHANGED <<pcVars, reboots>>
       PROVE  ThreadInv'
  BY <1>26 DEF XQueueFull, NextActive
<1>27. ASSUME XQueue, UNCHANGED <<pcVars, reboots>>
       PROVE  ThreadInv'
  <2>1. pay["server"] \in PayRecs /\ pay["server"].xml_sock # NULL
    BY <1>27 DEF XQueue
  <2>2. pays' \in Seq(PayRecs) /\ \A i \in DOMAIN pays' : pays'[i].xml_sock # NULL
    <3>1. pays' = Append(pays, pay["server"]) /\ pays \in Seq(PayRecs)
      BY <1>27 DEF XQueue
    <3>2. /\ pays' \in Seq(PayRecs) /\ Len(pays') = Len(pays) + 1
          /\ \A i \in 1 .. Len(pays) : pays'[i] = pays[i]
          /\ pays'[Len(pays) + 1] = pay["server"]
      BY <2>1, <3>1, AppendProperties
    <3>3. \A i \in 1 .. Len(pays) : pays[i].xml_sock # NULL
      OBVIOUS
    <3> HIDE DEF PayRecs
    <3>4. DOMAIN pays' = 1 .. Len(pays) + 1 /\ Len(pays) \in Nat
      BY <3>1, <3>2
    <3>5. ASSUME NEW i \in DOMAIN pays' PROVE pays'[i].xml_sock # NULL
      <4>1. i = Len(pays) + 1 \/ i \in 1 .. Len(pays)
        BY <3>4
      <4> QED BY <2>1, <3>2, <3>3, <4>1
    <3> QED BY <3>2, <3>5
  <2> QED BY <1>27, <2>2 DEF XQueue
<1>28. ASSUME XInserted, UNCHANGED <<pcVars, reboots>>
       PROVE  ThreadInv'
  BY <1>28 DEF XInserted, Insert, Leave, NextActive
<1>29. ASSUME XTake, UNCHANGED <<pcVars, reboots>>
       PROVE  ThreadInv'
  <2>1. Head(pays) \in PayRecs /\ Head(pays) # NULL
    <3>1. pays \in Seq(PayRecs) /\ pays # <<>> /\ NULL \notin PayRecs
      BY <1>29 DEF XTake
    <3> HIDE DEF PayRecs
    <3> QED BY <3>1, HeadTailProperties
  <2>2. pays' \in Seq(PayRecs) /\ \A i \in DOMAIN pays' : pays'[i].xml_sock # NULL
    BY <1>29 DEF XTake
  <2> HIDE DEF PayRecs
  <2> QED BY <1>29, <2>1, <2>2 DEF XTake
<1>30. ASSUME XAnswerRepeated, UNCHANGED <<pcVars, reboots>>
       PROVE  ThreadInv'
  BY <1>30 DEF XAnswerRepeated, NextActive
<1>31. ASSUME Enter("server", "select", "selecting"), UNCHANGED <<pcVars, xmlVars, reboots>>
       PROVE  ThreadInv'
  BY <1>31 DEF Enter
<1>32. ASSUME NEW ready \in SUBSET connections_store, XSelect(ready), UNCHANGED <<pcVars, reboots>>
       PROVE  ThreadInv'
  BY <1>32 DEF XSelect
<1>33. ASSUME NEW w \in Workers, XAnswer(w), UNCHANGED <<pcVars, reboots>>
       PROVE  ThreadInv'
  BY <1>33 DEF XAnswer, Done
<1>34. ASSUME Reboot
       PROVE  ThreadInv'
  BY <1>34 DEF Reboot, XReboot
<1>35. ASSUME Shutdown
       PROVE  ThreadInv'
  BY <1>35 DEF Shutdown, PCShutdown
<1>36. CASE UNCHANGED vars
  BY <1>36
<1> HIDE DEF ThreadInv, ClientInv, Threads, Codes, PayRecs, Entries, MainAt, ServerAt, GetDataAt, WorkerAt,
        Places, Free, vars, checkVars, pcVars, xmlVars, socketVars, listVars, historyVars
<1>37. QED
  BY <1>1, <1>2, <1>3, <1>4, <1>5, <1>6, <1>7, <1>8, <1>9, <1>10, <1>11, <1>12, <1>13, <1>14,
     <1>15, <1>16, <1>17, <1>18, <1>19, <1>20, <1>21, <1>22, <1>23, <1>24, <1>25, <1>26, <1>27,
     <1>28, <1>29, <1>30, <1>31, <1>32, <1>33, <1>34, <1>35, <1>36, XmlCheckConstants
  DEF Next, SharedStep, PayCheckStep, PCNext, PCThread, XmlStep, XNext, XThread

\* Forget empties the socket of the checks of one client and leaves the rest.
LEMMA ForgetProperties ==
  ASSUME NEW list \in Seq(Entries), NEW s
  PROVE  /\ Forget(list, s) \in Seq(Entries) /\ Len(Forget(list, s)) = Len(list)
         /\ \A i \in 1 .. Len(list) :
              /\ Forget(list, s)[i].key = list[i].key
              /\ Forget(list, s)[i].sock = IF list[i].sock = s THEN NULL ELSE list[i].sock
<1>1. Len(list) \in Nat /\ DOMAIN list = 1 .. Len(list)
  OBVIOUS
<1>2. \A i \in 1 .. Len(list) : list[i] \in Entries
  BY ElementOfSeq
<1>3. ASSUME NEW i \in 1 .. Len(list)
      PROVE  /\ Forget(list, s)[i] \in Entries
             /\ Forget(list, s)[i].key = list[i].key
             /\ Forget(list, s)[i].sock = IF list[i].sock = s THEN NULL ELSE list[i].sock
  BY <1>1, <1>2, <1>3 DEF Forget, Entries
<1>4. Forget(list, s) = [i \in 1 .. Len(list) |-> Forget(list, s)[i]]
  BY <1>1 DEF Forget
<1>5. Forget(list, s) \in [1 .. Len(list) -> Entries]
  BY <1>3, <1>4
<1>6. Forget(list, s) \in Seq(Entries) /\ Len(Forget(list, s)) = Len(list)
  BY <1>1, <1>5
<1> QED BY <1>3, <1>6

\* The lists name clients, and GetData has the client it is reading.
LEMMA ClientStep == ThreadInv /\ ClientInv /\ [Next]_vars => ClientInv'
<1> SUFFICES ASSUME ThreadInv, ClientInv, [Next]_vars PROVE ClientInv'
  OBVIOUS
<1> USE CheckConstants, PayCheckConstants
    DEF ThreadInv, ClientInv, Threads, Entries, FdStates, vars, checkVars, pcVars, xmlVars, socketVars,
        listVars, historyVars
<1>1. ASSUME NEW t \in Threads, SetStateEnter(t), UNCHANGED <<pcVars, xmlVars, reboots>>
      PROVE  ClientInv'
  BY <1>1 DEF SetStateEnter, Enter
<1>2. ASSUME NEW t \in Threads, SetStateLeave(t), UNCHANGED <<pcVars, xmlVars, reboots>>
      PROVE  ClientInv'
  BY <1>2 DEF SetStateLeave, Update, Leave
<1>3. ASSUME NEW w \in Workers, Launch(w), UNCHANGED <<pcVars, xmlVars, reboots>>
      PROVE  ClientInv'
  BY <1>3 DEF Launch
<1>4. ASSUME NEW w \in Workers, NEW r \in Results, DBSetState(w, r), UNCHANGED <<pcVars, xmlVars, reboots>>
      PROVE  ClientInv'
  BY <1>4 DEF DBSetState
<1>5. ASSUME NEW s \in Clients, Accept(s), UNCHANGED <<xmlVars, reboots>>
      PROVE  ClientInv'
  BY <1>5 DEF Accept, Connected
<1>6. ASSUME NEW s \in Clients, TimeOut(s), UNCHANGED <<xmlVars, reboots>>
      PROVE  ClientInv'
  BY <1>6 DEF TimeOut, Down
<1>7. ASSUME NEW ready \in SUBSET Clients, Pick(ready), UNCHANGED <<xmlVars, reboots>>
      PROVE  ClientInv'
  <2>1. Len(sock_list) \in Nat /\ sock_list # <<>>
    BY <1>7 DEF Pick, ToSet
  <2>2. sock_num' \in 1 .. Len(sock_list)
    BY <1>7, <2>1 DEF Pick
  <2>3. sock_list[sock_num'] \in Clients
    BY <2>2, ElementOfSeq
  <2> QED BY <1>7, <2>2, <2>3 DEF Pick
<1>8. ASSUME NEW chunk \in Messages \cup {HALF, EOF}, Receive(chunk), UNCHANGED <<xmlVars, reboots>>
      PROVE  ClientInv'
  BY <1>8 DEF Receive
<1>9. ASSUME Refuse, UNCHANGED <<xmlVars, reboots>>
      PROVE  ClientInv'
  BY <1>9 DEF Refuse
<1>10. ASSUME DropClient, UNCHANGED <<xmlVars, reboots>>
       PROVE  ClientInv'
  <2>1. sock_list' \in Seq(Clients)
    <3>1. sock_list \in Seq(Clients) /\ sock_list' = RemoveFirst(sock_list, gd_sock)
      BY <1>10 DEF DropClient
    <3>2. \/ sock_list' = sock_list
          \/ \E i \in 1 .. Len(sock_list) : sock_list' = RemoveAt(sock_list, i)
      BY <3>1, RemoveFirstProperties
    <3> QED BY <3>1, <3>2, RemoveAtProperties
  <2>2. in_list' \in Seq(Entries) /\ in_cash_list' \in Seq(Entries)
    <3>1. in_list \in Seq(Entries) /\ in_cash_list \in Seq(Entries)
      OBVIOUS
    <3> QED BY <1>10, <3>1, ForgetProperties DEF DropClient
  <2> QED BY <1>10, <2>1, <2>2 DEF DropClient
<1>11. ASSUME OtherMessage, UNCHANGED <<xmlVars, reboots>>
       PROVE  ClientInv'
  BY <1>11 DEF OtherMessage, Got
<1>12. ASSUME Authorization, UNCHANGED <<xmlVars, reboots>>
       PROVE  ClientInv'
  BY <1>12 DEF Authorization, Got, Down
<1>13. ASSUME Enqueue, UNCHANGED <<xmlVars, reboots>>
       PROVE  ClientInv'
  <2> DEFINE e == [key |-> gd_msg.key, sock |-> gd_sock]
  <2>1. gd_msg.key \in Keys /\ gd_sock \in Clients
    BY <1>13 DEF Enqueue, MayCheck, Got, HALF, EOF
  <2>2. e \in Entries
    BY <2>1
  <2>3. in_list' = Append(in_list, e) /\ in_cash_list' = Append(in_cash_list, e)
    BY <1>13 DEF Enqueue
  <2>4. in_list \in Seq(Entries) /\ in_cash_list \in Seq(Entries)
    OBVIOUS
  <2>5. in_list' \in Seq(Entries) /\ in_cash_list' \in Seq(Entries)
    <3> HIDE DEF e, Entries
    <3> QED BY <2>2, <2>3, <2>4, AppendProperties
  <2> QED BY <1>13, <2>5 DEF Enqueue, MayCheck, Got
<1>14. ASSUME QueueFull, UNCHANGED <<xmlVars, reboots>>
       PROVE  ClientInv'
  BY <1>14 DEF QueueFull, MayCheck, Got, SPay
<1>15. ASSUME TakeCheck, UNCHANGED <<xmlVars, reboots>>
       PROVE  ClientInv'
  <2>1. in_cash_list' \in Seq(Entries)
    <3>1. in_cash_list \in Seq(Entries) /\ in_cash_list # <<>> /\ in_cash_list' = Tail(in_cash_list)
      BY <1>15 DEF TakeCheck
    <3> HIDE DEF Entries
    <3> QED BY <3>1, HeadTailProperties
  <2> QED BY <1>15, <2>1 DEF TakeCheck
<1>16. ASSUME Selected, UNCHANGED <<xmlVars, reboots>>
       PROVE  ClientInv'
  BY <1>16 DEF Selected, Leave, AlreadyChecked
<1>17. ASSUME Inserted, UNCHANGED <<xmlVars, reboots>>
       PROVE  ClientInv'
  BY <1>17 DEF Inserted, Insert, Leave
<1>18. ASSUME Enter("main", "select", "selecting"), UNCHANGED <<pcVars, xmlVars, reboots>>
       PROVE  ClientInv'
  BY <1>18 DEF Enter
<1>19. ASSUME Enter("main", "insert", "inserting"), UNCHANGED <<pcVars, xmlVars, reboots>>
       PROVE  ClientInv'
  BY <1>19 DEF Enter
<1>20. ASSUME NEW t \in Threads, Find(t), UNCHANGED <<xmlVars, reboots>>
       PROVE  ClientInv'
  <2> DEFINE i == Entry(pay[t].key)
             s == IF i = 0 THEN NULL ELSE in_list[i].sock
  <2>1. in_list \in Seq(Entries) /\ (i = 0 \/ i \in 1 .. Len(in_list))
    BY EntryProperties
  <2>2. in_list' \in Seq(Entries)
    <3>1. in_list' = IF i = 0 THEN in_list ELSE RemoveAt(in_list, i)
      BY <1>20 DEF Find
    <3> HIDE DEF i, Entries
    <3> QED BY <2>1, <3>1, RemoveAtProperties
  <2>3. s \in Clients \cup {NULL}
    <3>1. CASE i = 0
      BY <3>1
    <3>2. CASE i \in 1 .. Len(in_list)
      <4> HIDE DEF i
      <4>1. in_list[i] \in Entries
        <5> HIDE DEF Entries
        <5> QED BY <2>1, <3>2, ElementOfSeq
      <4> QED BY <3>2, <4>1
    <3> QED BY <2>1, <3>1, <3>2
  <2>4. /\ to' = [to EXCEPT ![t] = s]
        /\ \/ s = NULL /\ at' = [at EXCEPT ![t] = "loop"]
           \/ s # NULL /\ at' = [at EXCEPT ![t] = "send"]
    BY <1>20 DEF Find, Done
  <2> HIDE DEF i, s
  <2> QED BY <1>20, <2>2, <2>3, <2>4 DEF Find
<1>21. ASSUME NEW t \in Threads, NEW sent \in BOOLEAN, Send(t, sent), UNCHANGED <<xmlVars, reboots>>
       PROVE  ClientInv'
  BY <1>21 DEF Send, Done
<1>22. ASSUME NEW s \in XSockets, XAccept(s), UNCHANGED <<pcVars, reboots>>
       PROVE  ClientInv'
  BY <1>22 DEF XAccept
<1>23. ASSUME NEW s \in active_sock_list, NEW r \in XRequests, XAnswered(s, r), UNCHANGED <<pcVars, reboots>>
       PROVE  ClientInv'
  BY <1>23 DEF XAnswered, NextActive
<1>24. ASSUME NEW s \in active_sock_list, NEW k \in Keys, XCheck(s, k), UNCHANGED <<pcVars, reboots>>
       PROVE  ClientInv'
  BY <1>24 DEF XCheck, SPay
<1>25. ASSUME XSelected, UNCHANGED <<pcVars, reboots>>
       PROVE  ClientInv'
  BY <1>25 DEF XSelected, Leave
<1>26. ASSUME XQueueFull, UNCHANGED <<pcVars, reboots>>
       PROVE  ClientInv'
  BY <1>26 DEF XQueueFull, NextActive
<1>27. ASSUME XQueue, UNCHANGED <<pcVars, reboots>>
       PROVE  ClientInv'
  BY <1>27 DEF XQueue
<1>28. ASSUME XInserted, UNCHANGED <<pcVars, reboots>>
       PROVE  ClientInv'
  BY <1>28 DEF XInserted, Insert, Leave, NextActive
<1>29. ASSUME XTake, UNCHANGED <<pcVars, reboots>>
       PROVE  ClientInv'
  BY <1>29 DEF XTake
<1>30. ASSUME XAnswerRepeated, UNCHANGED <<pcVars, reboots>>
       PROVE  ClientInv'
  BY <1>30 DEF XAnswerRepeated, NextActive
<1>31. ASSUME Enter("server", "select", "selecting"), UNCHANGED <<pcVars, xmlVars, reboots>>
       PROVE  ClientInv'
  BY <1>31 DEF Enter
<1>32. ASSUME NEW ready \in SUBSET connections_store, XSelect(ready), UNCHANGED <<pcVars, reboots>>
       PROVE  ClientInv'
  BY <1>32 DEF XSelect
<1>33. ASSUME NEW w \in Workers, XAnswer(w), UNCHANGED <<pcVars, reboots>>
       PROVE  ClientInv'
  BY <1>33 DEF XAnswer, Done
<1>34. ASSUME Reboot
       PROVE  ClientInv'
  BY <1>34 DEF Reboot, XReboot
<1>35. ASSUME Shutdown
       PROVE  ClientInv'
  BY <1>35 DEF Shutdown, PCShutdown
<1>36. CASE UNCHANGED vars
  BY <1>36
<1> HIDE DEF ThreadInv, ClientInv, Threads, Entries, FdStates, vars, checkVars, pcVars, xmlVars, socketVars,
        listVars, historyVars
<1>37. QED
  BY <1>1, <1>2, <1>3, <1>4, <1>5, <1>6, <1>7, <1>8, <1>9, <1>10, <1>11, <1>12, <1>13, <1>14,
     <1>15, <1>16, <1>17, <1>18, <1>19, <1>20, <1>21, <1>22, <1>23, <1>24, <1>25, <1>26, <1>27,
     <1>28, <1>29, <1>30, <1>31, <1>32, <1>33, <1>34, <1>35, <1>36, XmlCheckConstants
  DEF Next, SharedStep, PayCheckStep, PCNext, PCThread, XmlStep, XNext, XThread

\* RemoveAt adds no element.
LEMMA RemovedElements ==
  ASSUME NEW S, NEW s \in Seq(S), NEW i \in 1 .. Len(s)
  PROVE  \A j \in DOMAIN RemoveAt(s, i) : \E l \in DOMAIN s : RemoveAt(s, i)[j] = s[l]
<1>1. /\ RemoveAt(s, i) \in Seq(S) /\ Len(RemoveAt(s, i)) = Len(s) - 1
      /\ \A j \in 1 .. Len(s) - 1 : RemoveAt(s, i)[j] = IF j < i THEN s[j] ELSE s[j + 1]
  BY RemoveAtProperties
<1>2. DOMAIN RemoveAt(s, i) = 1 .. Len(s) - 1 /\ DOMAIN s = 1 .. Len(s) /\ Len(s) \in Nat
  BY <1>1
<1>3. ASSUME NEW j \in 1 .. Len(s) - 1 PROVE \E l \in 1 .. Len(s) : RemoveAt(s, i)[j] = s[l]
  BY <1>1, <1>2, <1>3
<1> QED BY <1>2, <1>3

\* Dropping a client leaves the others in sock_list, each once.
LEMMA DropSocks ==
  ASSUME SocketInv, sock_list \in Seq(Clients)
  PROVE  LET list == RemoveFirst(sock_list, gd_sock)
         IN /\ \A i \in DOMAIN list : list[i] \in Clients \ {gd_sock} /\ Alive(list[i])
            /\ \A i, j \in DOMAIN list : list[i] = list[j] => i = j
<1> DEFINE list == RemoveFirst(sock_list, gd_sock)
<1>1. /\ Len(sock_list) \in Nat /\ DOMAIN sock_list = 1 .. Len(sock_list)
      /\ \A i \in 1 .. Len(sock_list) : sock_list[i] \in Clients /\ Alive(sock_list[i])
      /\ \A i, j \in 1 .. Len(sock_list) : sock_list[i] = sock_list[j] => i = j
  BY ElementOfSeq DEF SocketInv
<1>2. CASE list = sock_list /\ \A i \in 1 .. Len(sock_list) : sock_list[i] # gd_sock
  BY <1>1, <1>2
<1>3. ASSUME NEW n \in 1 .. Len(sock_list), sock_list[n] = gd_sock, list = RemoveAt(sock_list, n)
      PROVE  /\ \A i \in DOMAIN list : list[i] \in Clients \ {gd_sock} /\ Alive(list[i])
             /\ \A i, j \in DOMAIN list : list[i] = list[j] => i = j
  <2>1. /\ DOMAIN list = 1 .. Len(sock_list) - 1
        /\ \A j \in 1 .. Len(sock_list) - 1 :
             list[j] = IF j < n THEN sock_list[j] ELSE sock_list[j + 1]
    <3>1. /\ list \in Seq(Clients) /\ Len(list) = Len(sock_list) - 1
          /\ \A j \in 1 .. Len(sock_list) - 1 :
               list[j] = IF j < n THEN sock_list[j] ELSE sock_list[j + 1]
      <4> HIDE DEF list
      <4> QED BY <1>3, RemoveAtProperties
    <3> HIDE DEF list
    <3> QED BY <3>1
  <2> HIDE DEF list
  <2>2. ASSUME NEW j \in DOMAIN list PROVE list[j] \in Clients \ {gd_sock} /\ Alive(list[j])
    BY <1>1, <1>3, <2>1, <2>2
  <2>3. ASSUME NEW i \in DOMAIN list, NEW j \in DOMAIN list, list[i] = list[j] PROVE i = j
    BY <1>1, <1>3, <2>1, <2>3
  <2> QED BY <2>2, <2>3
<1> QED BY <1>2, <1>3, RemoveFirstProperties

\* Only sockets that were not deleted are in the lists and with the threads.
LEMMA SocketStep == ThreadInv /\ ClientInv /\ SocketInv /\ [Next]_vars => SocketInv'
<1> SUFFICES ASSUME ThreadInv, ClientInv, SocketInv, [Next]_vars PROVE SocketInv'
  OBVIOUS
<1>0. /\ at \in [Threads -> Places] /\ sock_list \in Seq(Clients) /\ sock_num \in Nat
      /\ in_list \in Seq(Entries) /\ in_cash_list \in Seq(Entries) /\ fd \in [Clients -> FdStates]
      /\ at["GetData"] \in {"receive", "err", "drop"} => gd_sock \in Clients
      /\ to \in [Threads -> Clients \cup {NULL}]
      /\ \A t \in Threads : at[t] = "send" => to[t] \in Clients
      /\ at["main"] # "send" /\ at["server"] # "send"
      /\ \A i \in DOMAIN in_list : in_list[i].sock \in Clients \cup {NULL}
      /\ \A i \in DOMAIN sock_list : sock_list[i] \in Clients
  <2>1. \A i \in DOMAIN in_list : in_list[i] \in Entries
    BY ElementOfSeq DEF ClientInv
  <2>2. \A i \in DOMAIN in_list : in_list[i].sock \in Clients \cup {NULL}
    BY <2>1 DEF Entries
  <2>3. at["main"] # "send" /\ at["server"] # "send"
    BY DEF ThreadInv, MainAt, ServerAt
  <2> QED BY <2>2, <2>3, ElementOfSeq DEF ThreadInv, ClientInv
<1> USE <1>0, CheckConstants, PayCheckConstants
    DEF SocketInv, Alive, Threads, vars, checkVars, pcVars, xmlVars, socketVars, listVars,
        historyVars
<1>1. ASSUME NEW t \in Threads, SetStateEnter(t), UNCHANGED <<pcVars, xmlVars, reboots>>
      PROVE  SocketInv'
  BY <1>1 DEF SetStateEnter, Enter
<1>2. ASSUME NEW t \in Threads, SetStateLeave(t), UNCHANGED <<pcVars, xmlVars, reboots>>
      PROVE  SocketInv'
  BY <1>2 DEF SetStateLeave, Update, Leave
<1>3. ASSUME NEW w \in Workers, Launch(w), UNCHANGED <<pcVars, xmlVars, reboots>>
      PROVE  SocketInv'
  BY <1>3 DEF Launch
<1>4. ASSUME NEW w \in Workers, NEW r \in Results, DBSetState(w, r), UNCHANGED <<pcVars, xmlVars, reboots>>
      PROVE  SocketInv'
  BY <1>4 DEF DBSetState
<1>5. ASSUME NEW s \in Clients, Accept(s), UNCHANGED <<xmlVars, reboots>>
      PROVE  SocketInv'
  <2>1. fd[s] = "none" /\ fd' = [fd EXCEPT ![s] = "open"] /\ sock_list' = Append(sock_list, s)
    BY <1>5 DEF Accept, Connected
  <2>2. /\ Len(sock_list') = Len(sock_list) + 1 /\ Len(sock_list) \in Nat
        /\ DOMAIN sock_list = 1 .. Len(sock_list) /\ DOMAIN sock_list' = 1 .. Len(sock_list) + 1
        /\ \A i \in 1 .. Len(sock_list) : sock_list'[i] = sock_list[i]
        /\ sock_list'[Len(sock_list) + 1] = s
    BY <2>1
  <2>3. \A i \in 1 .. Len(sock_list) : sock_list[i] # s /\ sock_list[i] \in Clients
    BY <2>1, <2>2, ElementOfSeq
  <2>4. ASSUME NEW i \in DOMAIN sock_list' PROVE Alive(sock_list[i])' 
    BY <2>1, <2>2, <2>3
  <2>5. ASSUME NEW i \in DOMAIN sock_list', NEW j \in DOMAIN sock_list', sock_list'[i] = sock_list'[j]
        PROVE  i = j
    BY <2>2, <2>3, <2>5
  <2>6. \A c \in Clients : fd[c] \in {"open", "down"} => fd'[c] \in {"open", "down"}
    BY <2>1
  <2> QED BY <1>5, <2>4, <2>5, <2>6 DEF Accept
<1>6. ASSUME NEW s \in Clients, TimeOut(s), UNCHANGED <<xmlVars, reboots>>
      PROVE  SocketInv'
  <2>1. \A c \in Clients : fd[c] \in {"open", "down"} => fd'[c] \in {"open", "down"}
    BY <1>6 DEF TimeOut, Down
  <2> QED BY <1>6, <2>1 DEF TimeOut
<1>7. ASSUME NEW ready \in SUBSET Clients, Pick(ready), UNCHANGED <<xmlVars, reboots>>
      PROVE  SocketInv'
  <2>1. Len(sock_list) \in Nat /\ sock_list # <<>> /\ DOMAIN sock_list = 1 .. Len(sock_list)
    BY <1>7 DEF Pick, ToSet
  <2>2. sock_num' \in 1 .. Len(sock_list) /\ gd_sock' = sock_list[sock_num']
    BY <1>7, <2>1 DEF Pick
  <2>3. Alive(gd_sock)'
    BY <1>7, <2>1, <2>2 DEF Pick
  <2> QED BY <1>7, <2>3 DEF Pick
<1>8. ASSUME NEW chunk \in Messages \cup {HALF, EOF}, Receive(chunk), UNCHANGED <<xmlVars, reboots>>
      PROVE  SocketInv'
  BY <1>8 DEF Receive
<1>9. ASSUME Refuse, UNCHANGED <<xmlVars, reboots>>
      PROVE  SocketInv'
  BY <1>9 DEF Refuse
<1>10. ASSUME DropClient, UNCHANGED <<xmlVars, reboots>>
       PROVE  SocketInv'
  <2>1. /\ fd' = [fd EXCEPT ![gd_sock] = "deleted"] /\ gd_sock \in Clients
        /\ \A t \in Threads : at'[t] # "send"
        /\ at'["GetData"] = "loop"
    BY <1>10 DEF DropClient, Readers
  <2>2. \A i \in DOMAIN sock_list' : sock_list'[i] \in Clients \ {gd_sock} /\ Alive(sock_list'[i])
    BY <1>10, DropSocks DEF DropClient
  <2>3. \A i, j \in DOMAIN sock_list' : sock_list'[i] = sock_list'[j] => i = j
    BY <1>10, DropSocks DEF DropClient
  <2>4. \A i \in DOMAIN in_list' :
          in_list'[i].sock # NULL => in_list'[i].sock # gd_sock /\ Alive(in_list'[i].sock)
    <3>1. /\ DOMAIN in_list = 1 .. Len(in_list) /\ DOMAIN in_list' = 1 .. Len(in_list)
          /\ \A i \in 1 .. Len(in_list) :
               in_list'[i].sock = IF in_list[i].sock = gd_sock THEN NULL ELSE in_list[i].sock
      <4>1. in_list' = Forget(in_list, gd_sock) /\ in_list \in Seq(Entries)
        BY <1>10 DEF DropClient
      <4>2. Forget(in_list, gd_sock) \in Seq(Entries)
        BY <4>1, ForgetProperties
      <4> QED BY <4>1, <4>2, ForgetProperties
    <3> QED BY <3>1
  <2>5. \A i \in DOMAIN in_list' : in_list'[i].sock # NULL => in_list'[i].sock \in Clients
    <3>1. in_list' \in Seq(Entries)
      BY <1>10, ForgetProperties DEF DropClient
    <3>2. \A i \in DOMAIN in_list' : in_list'[i] \in Entries
      BY <3>1, ElementOfSeq
    <3> QED BY <3>2 DEF Entries
  <2> QED BY <2>1, <2>2, <2>3, <2>4, <2>5
<1>11. ASSUME OtherMessage, UNCHANGED <<xmlVars, reboots>>
       PROVE  SocketInv'
  BY <1>11 DEF OtherMessage, Got
<1>12. ASSUME Authorization, UNCHANGED <<xmlVars, reboots>>
       PROVE  SocketInv'
  <2>1. \A c \in Clients : fd[c] \in {"open", "down"} => fd'[c] \in {"open", "down"}
    BY <1>12 DEF Authorization, Got, Down
  <2>2. UNCHANGED <<sock_list, in_list, to>> /\ at' = [at EXCEPT !["GetData"] = "loop"]
    BY <1>12 DEF Authorization
  <2> QED BY <2>1, <2>2
<1>13. ASSUME Enqueue, UNCHANGED <<xmlVars, reboots>>
       PROVE  SocketInv'
  <2> DEFINE e == [key |-> gd_msg.key, sock |-> gd_sock]
  <2>1. in_list' = Append(in_list, e) /\ e.sock = gd_sock /\ Alive(gd_sock)
    BY <1>13 DEF Enqueue, MayCheck, Got
  <2>2. /\ UNCHANGED <<fd, sock_list, to>> /\ at' = [at EXCEPT !["GetData"] = "loop"]
    BY <1>13 DEF Enqueue
  <2> HIDE DEF e
  <2>3. \A i \in DOMAIN in_list' : 
          \/ i \in DOMAIN in_list /\ in_list'[i] = in_list[i]
          \/ in_list'[i] = e
    BY <2>1
  <2> QED BY <2>1, <2>2, <2>3
<1>14. ASSUME QueueFull, UNCHANGED <<xmlVars, reboots>>
       PROVE  SocketInv'
  BY <1>14 DEF QueueFull, MayCheck, Got, SPay
<1>15. ASSUME TakeCheck, UNCHANGED <<xmlVars, reboots>>
       PROVE  SocketInv'
  BY <1>15 DEF TakeCheck, SPay
<1>16. ASSUME Selected, UNCHANGED <<xmlVars, reboots>>
       PROVE  SocketInv'
  BY <1>16 DEF Selected, Leave, AlreadyChecked
<1>17. ASSUME Inserted, UNCHANGED <<xmlVars, reboots>>
       PROVE  SocketInv'
  BY <1>17 DEF Inserted, Insert, Leave
<1>18. ASSUME Enter("main", "select", "selecting"), UNCHANGED <<pcVars, xmlVars, reboots>>
       PROVE  SocketInv'
  BY <1>18 DEF Enter
<1>19. ASSUME Enter("main", "insert", "inserting"), UNCHANGED <<pcVars, xmlVars, reboots>>
       PROVE  SocketInv'
  BY <1>19 DEF Enter
<1>20. ASSUME NEW t \in Threads, Find(t), UNCHANGED <<xmlVars, reboots>>
       PROVE  SocketInv'
  <2> DEFINE i == Entry(pay[t].key)
             s == IF i = 0 THEN NULL ELSE in_list[i].sock
  <2>1. in_list \in Seq(Entries) /\ (i = 0 \/ i \in 1 .. Len(in_list))
    BY EntryProperties
  <2>2. /\ in_list' = (IF i = 0 THEN in_list ELSE RemoveAt(in_list, i))
        /\ to' = [to EXCEPT ![t] = s] /\ UNCHANGED <<fd, sock_list, gd_sock>> /\ at[t] = "find"
        /\ \/ s = NULL /\ at' = [at EXCEPT ![t] = "loop"]
           \/ s # NULL /\ at' = [at EXCEPT ![t] = "send"]
    BY <1>20 DEF Find, Done
  <2>3. s # NULL => Alive(s)
    BY <2>1
  <2> HIDE DEF i, s
  <2>4. \A j \in DOMAIN in_list' : \E l \in DOMAIN in_list : in_list'[j] = in_list[l]
    <3>1. CASE i = 0
      BY <2>2, <3>1
    <3>2. CASE i \in 1 .. Len(in_list)
      BY <2>1, <2>2, <3>2, RemovedElements
    <3> QED BY <2>1, <3>1, <3>2
  <2> QED BY <2>2, <2>3, <2>4
<1>21. ASSUME NEW t \in Threads, NEW sent \in BOOLEAN, Send(t, sent), UNCHANGED <<xmlVars, reboots>>
       PROVE  SocketInv'
  BY <1>21 DEF Send, Done
<1>22. ASSUME NEW s \in XSockets, XAccept(s), UNCHANGED <<pcVars, reboots>>
       PROVE  SocketInv'
  BY <1>22 DEF XAccept
<1>23. ASSUME NEW s \in active_sock_list, NEW r \in XRequests, XAnswered(s, r), UNCHANGED <<pcVars, reboots>>
       PROVE  SocketInv'
  BY <1>23 DEF XAnswered, NextActive
<1>24. ASSUME NEW s \in active_sock_list, NEW k \in Keys, XCheck(s, k), UNCHANGED <<pcVars, reboots>>
       PROVE  SocketInv'
  BY <1>24 DEF XCheck, SPay
<1>25. ASSUME XSelected, UNCHANGED <<pcVars, reboots>>
       PROVE  SocketInv'
  BY <1>25 DEF XSelected, Leave
<1>26. ASSUME XQueueFull, UNCHANGED <<pcVars, reboots>>
       PROVE  SocketInv'
  BY <1>26 DEF XQueueFull, NextActive
<1>27. ASSUME XQueue, UNCHANGED <<pcVars, reboots>>
       PROVE  SocketInv'
  BY <1>27 DEF XQueue
<1>28. ASSUME XInserted, UNCHANGED <<pcVars, reboots>>
       PROVE  SocketInv'
  BY <1>28 DEF XInserted, Insert, Leave, NextActive
<1>29. ASSUME XTake, UNCHANGED <<pcVars, reboots>>
       PROVE  SocketInv'
  BY <1>29 DEF XTake
<1>30. ASSUME XAnswerRepeated, UNCHANGED <<pcVars, reboots>>
       PROVE  SocketInv'
  BY <1>30 DEF XAnswerRepeated, NextActive
<1>31. ASSUME Enter("server", "select", "selecting"), UNCHANGED <<pcVars, xmlVars, reboots>>
       PROVE  SocketInv'
  BY <1>31 DEF Enter
<1>32. ASSUME NEW ready \in SUBSET connections_store, XSelect(ready), UNCHANGED <<pcVars, reboots>>
       PROVE  SocketInv'
  BY <1>32 DEF XSelect
<1>33. ASSUME NEW w \in Workers, XAnswer(w), UNCHANGED <<pcVars, reboots>>
       PROVE  SocketInv'
  BY <1>33 DEF XAnswer, Done
<1>34. ASSUME Reboot
       PROVE  SocketInv'
  BY <1>34 DEF Reboot, XReboot
<1>35. ASSUME Shutdown
       PROVE  SocketInv'
  <2>1. at' = [t \in Threads |-> "end"] /\ sock_list' = <<>> /\ in_list' = <<>>
    BY <1>35 DEF Shutdown, PCShutdown
  <2> QED BY <2>1
<1>36. CASE UNCHANGED vars
  BY <1>36
<1> HIDE DEF SocketInv, Alive, Threads, vars, checkVars, pcVars, xmlVars, socketVars, listVars,
        historyVars
<1>37. QED
  BY <1>1, <1>2, <1>3, <1>4, <1>5, <1>6, <1>7, <1>8, <1>9, <1>10, <1>11, <1>12, <1>13, <1>14,
     <1>15, <1>16, <1>17, <1>18, <1>19, <1>20, <1>21, <1>22, <1>23, <1>24, <1>25, <1>26, <1>27,
     <1>28, <1>29, <1>30, <1>31, <1>32, <1>33, <1>34, <1>35, <1>36, XmlCheckConstants
  DEF Next, SharedStep, PayCheckStep, PCNext, PCThread, XmlStep, XNext, XThread

\* What Append adds to a sequence.
LEMMA Appended ==
  ASSUME NEW S, NEW s \in Seq(S), NEW e \in S
  PROVE  /\ Append(s, e) \in Seq(S)
         /\ \A i \in DOMAIN Append(s, e) :
              \/ i = Len(s) + 1 /\ Append(s, e)[i] = e
              \/ i \in DOMAIN s /\ Append(s, e)[i] = s[i]
         /\ \A i \in DOMAIN s : i \in DOMAIN Append(s, e) /\ Append(s, e)[i] = s[i]
         /\ Len(s) + 1 \in DOMAIN Append(s, e) /\ Append(s, e)[Len(s) + 1] = e
<1> DEFINE a == Append(s, e)
<1>1. /\ a \in Seq(S) /\ Len(a) = Len(s) + 1 /\ a[Len(s) + 1] = e
      /\ \A i \in 1 .. Len(s) : a[i] = s[i]
  BY AppendProperties
<1> HIDE DEF a
<1>2. DOMAIN a = 1 .. Len(s) + 1 /\ DOMAIN s = 1 .. Len(s) /\ Len(s) \in Nat
  BY <1>1
<1>3. ASSUME NEW i \in DOMAIN a
      PROVE  \/ i = Len(s) + 1 /\ a[i] = e
             \/ i \in DOMAIN s /\ a[i] = s[i]
  <2>1. CASE i = Len(s) + 1
    BY <1>1, <2>1
  <2>2. CASE i # Len(s) + 1
    <3>1. i \in 1 .. Len(s)
      BY <1>2, <2>2
    <3> QED BY <1>1, <1>2, <3>1
  <2> QED BY <2>1, <2>2
<1>4. \A i \in DOMAIN s : i \in DOMAIN a /\ a[i] = s[i]
  BY <1>1, <1>2
<1>5. Len(s) + 1 \in DOMAIN a
  BY <1>2
<1> QED BY <1>1, <1>3, <1>4, <1>5 DEF a

\* A step that leaves the sockets and the queue where they are and gives no thread a socket.
LEMMA XmlKept ==
  ASSUME XmlInv, pays \in Seq(PayRecs), \A i \in DOMAIN pays : pays[i].xml_sock \in XSockets,
         UNCHANGED <<connections_store, active_sock_list, pays, xfd>>,
         \A t \in Holders, s \in XSockets : Holds(t, s)' => Holds(t, s),
         at["server"] = "inserting" =>
           (at["server"])' = "inserting" /\ (pay["server"])' = pay["server"]
  PROVE  XmlInv'
BY DEF XmlInv

\* The sockets of the XML front end: each is in one place, and open while it is anywhere.
LEMMA XSocketStep == ThreadInv /\ XmlInv /\ [Next]_vars => XmlInv'
<1> SUFFICES ASSUME ThreadInv, XmlInv, [Next]_vars PROVE XmlInv'
  OBVIOUS
<1>0. /\ at \in [Threads -> Places] /\ pay \in [Threads -> PayRecs \cup {NULL}]
      /\ at["GetData"] # "inserting" /\ at["server"] \notin {"run", "find", "send", "ready", "insert"}
      /\ \A w \in Workers : at[w] # "inserting"
      /\ \A t \in Threads :
           /\ at[t] = "loop" => pay[t] = NULL
           /\ at[t] \in {"select", "selecting", "queue", "inserting", "update", "updating", "run", "answer"}
                => pay[t] # NULL
           /\ pay[t] # NULL => pay[t] \in PayRecs /\ pay[t].xml_sock \in XSockets \cup {NULL}
           /\ at[t] = "answer" => pay[t].xml_sock \in XSockets
      /\ pays \in Seq(PayRecs) /\ \A i \in DOMAIN pays : pays[i].xml_sock \in XSockets
      /\ connections_store \subseteq XSockets /\ active_sock_list \subseteq XSockets
      /\ pay["GetData"] # NULL => pay["GetData"].xml_sock = NULL
      /\ pay["server"] # NULL => pay["server"].xml_sock \in active_sock_list
      /\ NULL \notin XSockets
  <2>1. \A i \in DOMAIN pays : pays[i] \in PayRecs
    BY ElementOfSeq DEF ThreadInv
  <2>2. \A i \in DOMAIN pays : pays[i].xml_sock \in XSockets
    BY <2>1 DEF ThreadInv, PayRecs
  <2>3. \A t \in Threads : pay[t] # NULL => pay[t] \in PayRecs /\ pay[t].xml_sock \in XSockets \cup {NULL}
    BY DEF ThreadInv, PayRecs
  <2>4. /\ at["GetData"] # "inserting" /\ at["server"] \notin {"run", "find", "send", "ready", "insert"}
        /\ \A w \in Workers : at[w] # "inserting"
    BY DEF ThreadInv, GetDataAt, ServerAt, WorkerAt
  <2>5. \A t \in Threads :
           /\ at[t] = "loop" => pay[t] = NULL
           /\ at[t] \in {"select", "selecting", "queue", "inserting", "update", "updating", "run", "answer"}
                => pay[t] # NULL
           /\ at[t] = "answer" => pay[t].xml_sock \in XSockets
    BY <2>3 DEF ThreadInv, Free
  <2> QED BY <2>2, <2>3, <2>4, <2>5, XmlCheckConstants DEF ThreadInv
<1> USE <1>0, CheckConstants
    DEF Threads, vars, checkVars, pcVars, xmlVars, socketVars, listVars, historyVars
<1>1. ASSUME NEW t \in Threads, SetStateEnter(t), UNCHANGED <<pcVars, xmlVars, reboots>>
      PROVE  XmlInv'
  BY <1>1, XmlKept DEF SetStateEnter, Enter, Holds
<1>2. ASSUME NEW t \in Threads, SetStateLeave(t), UNCHANGED <<pcVars, xmlVars, reboots>>
      PROVE  XmlInv'
  BY <1>2, XmlKept DEF SetStateLeave, Update, Leave, Holds
<1>3. ASSUME NEW w \in Workers, Launch(w), UNCHANGED <<pcVars, xmlVars, reboots>>
      PROVE  XmlInv'
  <2>1. /\ UNCHANGED <<connections_store, active_sock_list, pays, xfd>>
        /\ at'["server"] = at["server"] /\ pay'["server"] = pay["server"] /\ pay[w] = NULL
        /\ pay' = [pay EXCEPT !["main"] = NULL, ![w] = pay["main"]]
    BY <1>3 DEF Launch
  <2>0. \A t \in Threads :
          pay'[t] = IF t = w THEN pay["main"] ELSE IF t = "main" THEN NULL ELSE pay[t]
    BY <2>1
  <2>2. ASSUME NEW t \in Holders, NEW s \in XSockets, Holds(t, s)'
        PROVE  \/ t = w /\ Holds("main", s)
               \/ t \notin {"main", w} /\ Holds(t, s)
    <3>1. t \in Threads /\ pay'[t] # NULL /\ pay'[t].xml_sock = s
      BY <2>2 DEF Holds, Holders
    <3> QED BY <2>0, <3>1 DEF Holds
  <2>3. "main" \in Holders
    BY DEF Holders
  <2> QED BY <2>1, <2>2, <2>3 DEF XmlInv
<1>4. ASSUME NEW w \in Workers, NEW r \in Results, DBSetState(w, r), UNCHANGED <<pcVars, xmlVars, reboots>>
      PROVE  XmlInv'
  <2>1. pay[w] \in PayRecs /\ pay' = [pay EXCEPT ![w].code = r] /\ at["server"] = at'["server"]
    BY <1>4, XmlCheckConstants DEF DBSetState
  <2>2. pay[w].xml_sock = pay'[w].xml_sock
    BY <2>1 DEF PayRecs
  <2>3. \A t \in Threads : t # w => pay'[t] = pay[t]
    BY <2>1
  <2>4. pay[w] # NULL
    BY <1>4 DEF DBSetState
  <2>5. \A t \in Holders, s \in XSockets : Holds(t, s)' => Holds(t, s)
    BY <2>2, <2>3, <2>4 DEF Holds, Holders
  <2> QED BY <1>4, <2>1, <2>5, XmlKept
<1>5. ASSUME NEW s \in Clients, Accept(s), UNCHANGED <<xmlVars, reboots>>
      PROVE  XmlInv'
  BY <1>5, XmlKept DEF Accept, Connected, Holds
<1>6. ASSUME NEW s \in Clients, TimeOut(s), UNCHANGED <<xmlVars, reboots>>
      PROVE  XmlInv'
  BY <1>6, XmlKept DEF TimeOut, Down, Holds
<1>7. ASSUME NEW ready \in SUBSET Clients, Pick(ready), UNCHANGED <<xmlVars, reboots>>
      PROVE  XmlInv'
  BY <1>7, XmlKept DEF Pick, Holds
<1>8. ASSUME NEW chunk \in Messages \cup {HALF, EOF}, Receive(chunk), UNCHANGED <<xmlVars, reboots>>
      PROVE  XmlInv'
  BY <1>8, XmlKept DEF Receive, Holds
<1>9. ASSUME Refuse, UNCHANGED <<xmlVars, reboots>>
      PROVE  XmlInv'
  BY <1>9, XmlKept DEF Refuse, Holds
<1>10. ASSUME DropClient, UNCHANGED <<xmlVars, reboots>>
       PROVE  XmlInv'
  BY <1>10, XmlKept DEF DropClient, Readers, Holds
<1>11. ASSUME OtherMessage, UNCHANGED <<xmlVars, reboots>>
       PROVE  XmlInv'
  BY <1>11, XmlKept DEF OtherMessage, Got, Holds
<1>12. ASSUME Authorization, UNCHANGED <<xmlVars, reboots>>
       PROVE  XmlInv'
  BY <1>12, XmlKept DEF Authorization, Got, Down, Holds
<1>13. ASSUME Enqueue, UNCHANGED <<xmlVars, reboots>>
       PROVE  XmlInv'
  BY <1>13, XmlKept DEF Enqueue, MayCheck, Got, Holds
<1>14. ASSUME QueueFull, UNCHANGED <<xmlVars, reboots>>
       PROVE  XmlInv'
  BY <1>14, XmlKept DEF QueueFull, MayCheck, Got, SPay, Holds
<1>15. ASSUME TakeCheck, UNCHANGED <<xmlVars, reboots>>
       PROVE  XmlInv'
  BY <1>15, XmlKept DEF TakeCheck, SPay, Holds
<1>16. ASSUME Selected, UNCHANGED <<xmlVars, reboots>>
       PROVE  XmlInv'
  <2>1. \A t \in Threads : pay'[t] = pay[t] \/ pay'[t] = NULL
    BY <1>16 DEF Selected
  <2>2. at'["server"] = at["server"] /\ pay'["server"] = pay["server"]
    BY <1>16 DEF Selected
  <2> QED BY <1>16, <2>1, <2>2, XmlKept DEF Holds, Holders
<1>17. ASSUME Inserted, UNCHANGED <<xmlVars, reboots>>
       PROVE  XmlInv'
  BY <1>17, XmlKept DEF Inserted, Insert, Leave, Holds
<1>18. ASSUME Enter("main", "select", "selecting"), UNCHANGED <<pcVars, xmlVars, reboots>>
       PROVE  XmlInv'
  BY <1>18, XmlKept DEF Enter, Holds
<1>19. ASSUME Enter("main", "insert", "inserting"), UNCHANGED <<pcVars, xmlVars, reboots>>
       PROVE  XmlInv'
  BY <1>19, XmlKept DEF Enter, Holds
<1>20. ASSUME NEW t \in Threads, Find(t), UNCHANGED <<xmlVars, reboots>>
       PROVE  XmlInv'
  <2>1. \A u \in Threads : pay'[u] = pay[u] \/ pay'[u] = NULL
    BY <1>20 DEF Find, Done
  <2>2. t # "server"
    BY <1>20 DEF Find
  <2>3. at'["server"] = at["server"] /\ pay'["server"] = pay["server"]
    BY <1>20, <2>2 DEF Find, Done
  <2> QED BY <1>20, <2>1, <2>3, XmlKept DEF Holds, Holders
<1>21. ASSUME NEW t \in Threads, NEW sent \in BOOLEAN, Send(t, sent), UNCHANGED <<xmlVars, reboots>>
       PROVE  XmlInv'
  BY <1>21, XmlKept DEF Send, Done, Holds
<1>22. ASSUME NEW s \in XSockets, XAccept(s), UNCHANGED <<pcVars, reboots>>
       PROVE  XmlInv'
  <2>1. /\ UNCHANGED <<at, pay, pays, active_sock_list>> /\ xfd[s] = "none"
        /\ xfd' = [xfd EXCEPT ![s] = "open"] /\ connections_store' = connections_store \cup {s}
    BY <1>22 DEF XAccept
  <2>2. \A t \in Holders, x \in XSockets : Holds(t, x)' <=> Holds(t, x)
    BY <2>1 DEF Holds
  <2>3. \A i \in DOMAIN pays : pays[i].xml_sock # s
    BY <2>1 DEF XmlInv
  <2>4. \A x \in XSockets : xfd'[x] = IF x = s THEN "open" ELSE xfd[x]
    BY <2>1 DEF XmlInv
  <2> QED BY <2>1, <2>2, <2>3, <2>4 DEF XmlInv, FdStates
<1>23. ASSUME NEW s \in active_sock_list, NEW r \in XRequests, XAnswered(s, r), UNCHANGED <<pcVars, reboots>>
       PROVE  XmlInv'
  <2>1. /\ UNCHANGED <<connections_store, pays>> /\ at["server"] = "pass" /\ s \in active_sock_list
        /\ active_sock_list' = active_sock_list \ {s}
        /\ \A x \in XSockets : x # s => xfd'[x] = xfd[x]
        /\ xfd' \in [XSockets -> FdStates]
    BY <1>23 DEF XAnswered, NextActive, XmlInv, FdStates, Left
  <2>2. \A t \in Holders, x \in XSockets : Holds(t, x)' <=> Holds(t, x)
    BY <1>23 DEF XAnswered, NextActive, Holds, Holders
  <2>3. \A i \in DOMAIN pays : pays[i].xml_sock \notin active_sock_list
    BY <2>1 DEF XmlInv
  <2> QED BY <2>1, <2>2, <2>3 DEF XmlInv
<1>24. ASSUME NEW s \in active_sock_list, NEW k \in Keys, XCheck(s, k), UNCHANGED <<pcVars, reboots>>
       PROVE  XmlInv'
  BY <1>24, XmlKept DEF XCheck, Holders, Holds
<1>25. ASSUME XSelected, UNCHANGED <<pcVars, reboots>>
       PROVE  XmlInv'
  <2>1. \A t \in Holders : pay'[t] = pay[t]
    BY <1>25 DEF XSelected, Holders
  <2>2. at["server"] = "selecting" /\ UNCHANGED xmlVars
    BY <1>25 DEF XSelected
  <2> QED BY <2>1, <2>2, XmlKept DEF Holds
<1>26. ASSUME XQueueFull, UNCHANGED <<pcVars, reboots>>
       PROVE  XmlInv'
  <2>1. /\ UNCHANGED <<connections_store, pays>> /\ at["server"] = "queue" /\ pay["server"].xml_sock \in active_sock_list
        /\ active_sock_list' = active_sock_list \ {pay["server"].xml_sock}
        /\ \A x \in XSockets : x # pay["server"].xml_sock => xfd'[x] = xfd[x]
        /\ xfd' \in [XSockets -> FdStates]
    BY <1>26 DEF XQueueFull, NextActive, XmlInv, FdStates, Left
  <2>2. \A t \in Holders, x \in XSockets : Holds(t, x)' <=> Holds(t, x)
    BY <1>26 DEF XQueueFull, NextActive, Holds, Holders
  <2>3. \A i \in DOMAIN pays : pays[i].xml_sock \notin active_sock_list
    BY <2>1 DEF XmlInv
  <2> QED BY <2>1, <2>2, <2>3 DEF XmlInv
<1>27. ASSUME XQueue, UNCHANGED <<pcVars, reboots>>
       PROVE  XmlInv'
  <2> DEFINE p == pay["server"]
  <2>1. /\ UNCHANGED <<connections_store, active_sock_list, xfd, pay>> /\ at["server"] = "queue"
        /\ at'["server"] = "inserting" /\ p.xml_sock \in active_sock_list
        /\ pays' = Append(pays, p) /\ p \in PayRecs
    BY <1>27, XmlCheckConstants DEF XQueue
  <2>2. \A t \in Holders, x \in XSockets : Holds(t, x)' <=> Holds(t, x)
    BY <2>1 DEF Holds
  <2> HIDE DEF p
  <2>4. \A i \in DOMAIN pays : pays[i].xml_sock \notin active_sock_list
    BY <2>1 DEF XmlInv
  <2>5. \A i \in DOMAIN pays' :
          \/ i = Len(pays) + 1 /\ pays'[i] = p
          \/ i \in DOMAIN pays /\ pays'[i] = pays[i]
    <3>1. pays \in Seq(PayRecs)
      OBVIOUS
    <3> QED BY <2>1, <3>1, Appended
  <2>6. ASSUME NEW i \in DOMAIN pays', NEW j \in DOMAIN pays', pays'[i].xml_sock = pays'[j].xml_sock
        PROVE  i = j
    BY <2>1, <2>4, <2>5, <2>6 DEF XmlInv, p
  <2>7. ASSUME NEW i \in DOMAIN pays'
        PROVE  /\ xfd'[pays'[i].xml_sock] = "open" /\ pays'[i].xml_sock \notin connections_store'
               /\ pays'[i].xml_sock \in active_sock_list' =>
                    at'["server"] = "inserting" /\ pay'["server"].xml_sock = pays'[i].xml_sock
               /\ \A t \in Holders : ~Holds(t, pays[i].xml_sock)'
    <3>1. CASE pays'[i] = p
      BY <2>1, <2>2, <3>1 DEF XmlInv, p
    <3>2. CASE i \in DOMAIN pays /\ pays'[i] = pays[i]
      BY <2>1, <2>2, <2>4, <3>2 DEF XmlInv
    <3> QED BY <2>5, <3>1, <3>2
  <2> QED BY <2>1, <2>2, <2>6, <2>7 DEF XmlInv
<1>28. ASSUME XInserted, UNCHANGED <<pcVars, reboots>>
       PROVE  XmlInv'
  <2> DEFINE x == pay["server"].xml_sock
  <2>1. /\ UNCHANGED <<connections_store, pays, xfd>> /\ x \in active_sock_list
        /\ active_sock_list' = active_sock_list \ {x}
    BY <1>28 DEF XInserted, NextActive
  <2>2. \A t \in Holders, y \in XSockets : Holds(t, y)' <=> Holds(t, y)
    BY <1>28 DEF XInserted, NextActive, Holds, Holders
  <2>3. \A i \in DOMAIN pays : pays[i].xml_sock \notin active_sock_list'
    BY <2>1 DEF XmlInv
  <2> QED BY <2>1, <2>2, <2>3 DEF XmlInv
<1>29. ASSUME XTake, UNCHANGED <<pcVars, reboots>>
       PROVE  XmlInv'
  <2> DEFINE p == Head(pays)
  <2>1. /\ UNCHANGED <<connections_store, active_sock_list, xfd>>
        /\ at'["server"] = at["server"] /\ pay'["server"] = pay["server"]
        /\ pays # <<>> /\ pays' = Tail(pays) /\ pay' = [pay EXCEPT !["main"] = p]
        /\ at["server"] # "inserting"
    BY <1>29 DEF XTake
  <2>2. /\ Len(pays) \in Nat /\ DOMAIN pays = 1 .. Len(pays) /\ DOMAIN pays' = 1 .. Len(pays) - 1
        /\ 1 \in DOMAIN pays /\ p = pays[1] /\ \A i \in 1 .. Len(pays) - 1 : pays'[i] = pays[i + 1]
    BY <2>1, HeadTailProperties
  <2> HIDE DEF p
  <2>0. \A t \in Threads : pay'[t] = IF t = "main" THEN p ELSE pay[t]
    BY <2>1
  <2>3. ASSUME NEW t \in Holders, NEW s \in XSockets, Holds(t, s)'
        PROVE  \/ t = "main" /\ s = p.xml_sock
               \/ t # "main" /\ Holds(t, s)
    <3>1. t \in Threads /\ pay'[t] # NULL /\ pay'[t].xml_sock = s
      BY <2>3 DEF Holds, Holders
    <3>2. CASE t = "main"
      <4>1. pay'[t] = p
        BY <2>0, <3>1, <3>2
      <4>2. s = p.xml_sock
        BY ONLY <3>1, <4>1
      <4> QED BY <3>2, <4>2
    <3>3. CASE t # "main"
      BY <2>0, <3>1, <3>3 DEF Holds
    <3> QED BY <3>2, <3>3
  <2>4. p.xml_sock \notin connections_store \cup active_sock_list /\ xfd[p.xml_sock] = "open"
    BY <2>1, <2>2 DEF XmlInv
  <2>5. \A t \in Holders : ~Holds(t, p.xml_sock)
    BY <2>2 DEF XmlInv
  <2>6. \A i \in DOMAIN pays' : i + 1 \in DOMAIN pays /\ pays'[i] = pays[i + 1]
    BY <2>2
  <2>7. \A i \in DOMAIN pays' : pays'[i].xml_sock # p.xml_sock
    BY <2>2, <2>6 DEF XmlInv
  <2>8. ASSUME NEW i \in DOMAIN pays', NEW j \in DOMAIN pays', pays'[i].xml_sock = pays'[j].xml_sock
        PROVE  i = j
    <3>1. i + 1 = j + 1
      BY <2>6, <2>8 DEF XmlInv
    <3> QED BY <2>2, <3>1
  <2>9. ASSUME NEW i \in DOMAIN pays'
        PROVE  /\ xfd'[pays'[i].xml_sock] = "open" /\ pays'[i].xml_sock \notin connections_store'
               /\ pays'[i].xml_sock \notin active_sock_list'
               /\ \A t \in Holders : ~Holds(t, pays[i].xml_sock)'
    <3>1. i + 1 \in DOMAIN pays /\ pays'[i] = pays[i + 1] /\ pays'[i].xml_sock \in XSockets
      BY <2>6
    <3> QED BY <2>1, <2>3, <2>7, <3>1 DEF XmlInv
  <2> QED BY <2>1, <2>3, <2>4, <2>5, <2>8, <2>9 DEF XmlInv
<1>30. ASSUME XAnswerRepeated, UNCHANGED <<pcVars, reboots>>
       PROVE  XmlInv'
  <2>1. /\ UNCHANGED <<connections_store, pays>> /\ at["server"] = "answer" /\ pay["server"].xml_sock \in active_sock_list
        /\ active_sock_list' = active_sock_list \ {pay["server"].xml_sock}
        /\ \A x \in XSockets : x # pay["server"].xml_sock => xfd'[x] = xfd[x]
        /\ xfd' \in [XSockets -> FdStates]
    BY <1>30 DEF XAnswerRepeated, NextActive, XmlInv, FdStates, Left
  <2>2. \A t \in Holders, x \in XSockets : Holds(t, x)' <=> Holds(t, x)
    BY <1>30 DEF XAnswerRepeated, NextActive, Holds, Holders
  <2>3. \A i \in DOMAIN pays : pays[i].xml_sock \notin active_sock_list
    BY <2>1 DEF XmlInv
  <2> QED BY <2>1, <2>2, <2>3 DEF XmlInv
<1>31. ASSUME Enter("server", "select", "selecting"), UNCHANGED <<pcVars, xmlVars, reboots>>
       PROVE  XmlInv'
  BY <1>31, XmlKept DEF Enter, Holds
<1>32. ASSUME NEW ready \in SUBSET connections_store, XSelect(ready), UNCHANGED <<pcVars, reboots>>
       PROVE  XmlInv'
  <2>1. /\ UNCHANGED <<pay, pays, xfd>> /\ active_sock_list' = ready
        /\ connections_store' = connections_store \ ready /\ at["server"] = "loop"
    BY <1>32 DEF XSelect
  <2>2. \A t \in Holders, x \in XSockets : Holds(t, x)' <=> Holds(t, x)
    BY <2>1 DEF Holds
  <2> QED BY <2>1, <2>2 DEF XmlInv
<1>33. ASSUME NEW w \in Workers, XAnswer(w), UNCHANGED <<pcVars, reboots>>
       PROVE  XmlInv'
  <2> DEFINE x == pay[w].xml_sock
  <2>1. /\ UNCHANGED <<connections_store, active_sock_list, pays>>
        /\ at'["server"] = at["server"] /\ pay'["server"] = pay["server"]
        /\ xfd' = [xfd EXCEPT ![x] = "deleted"] /\ pay' = [pay EXCEPT ![w] = NULL]
        /\ x \in XSockets /\ Holds(w, x) /\ xfd' \in [XSockets -> FdStates]
    BY <1>33 DEF XAnswer, Done, Holds, XmlInv, FdStates
  <2>2. \A t \in Holders, y \in XSockets : Holds(t, y)' => t # w /\ Holds(t, y)
    BY <2>1 DEF Holds, Holders
  <2>3. w \in Holders
    BY DEF Holders
  <2> HIDE DEF x
  <2>4. x \notin connections_store \cup active_sock_list /\ \A i \in DOMAIN pays : pays[i].xml_sock # x
    BY <2>1, <2>3 DEF XmlInv
  <2>5. \A t \in Holders, y \in XSockets : Holds(t, y)' => y # x /\ Holds(t, y)
    BY <2>1, <2>2, <2>3 DEF XmlInv
  <2> QED BY <2>1, <2>4, <2>5 DEF XmlInv
<1>34. ASSUME Reboot
       PROVE  XmlInv'
  <2>1. /\ connections_store' = {} /\ pays' = <<>> /\ UNCHANGED active_sock_list
        /\ \A x \in XSockets : x \notin connections_store => xfd'[x] = xfd[x]
        /\ xfd' \in [XSockets -> FdStates]
    BY <1>34 DEF Reboot, XReboot, XmlInv, FdStates
  <2>2. \A t \in Holders, x \in XSockets : Holds(t, x)' => Holds(t, x)
    BY <1>34 DEF Reboot, XReboot, Holds, Holders
  <2> QED BY <2>1, <2>2 DEF XmlInv
<1>35. ASSUME Shutdown
       PROVE  XmlInv'
  BY <1>35, XmlKept DEF Shutdown, PCShutdown, Holds, Holders
<1>36. CASE UNCHANGED vars
  BY <1>36, XmlKept DEF Holds
<1> HIDE DEF Threads, vars, checkVars, pcVars, xmlVars, socketVars, listVars, historyVars
<1>37. QED
  BY <1>1, <1>2, <1>3, <1>4, <1>5, <1>6, <1>7, <1>8, <1>9, <1>10, <1>11, <1>12, <1>13, <1>14,
     <1>15, <1>16, <1>17, <1>18, <1>19, <1>20, <1>21, <1>22, <1>23, <1>24, <1>25, <1>26, <1>27,
     <1>28, <1>29, <1>30, <1>31, <1>32, <1>33, <1>34, <1>35, <1>36, XmlCheckConstants
  DEF Next, SharedStep, PayCheckStep, PCNext, PCThread, XmlStep, XNext, XThread

\* A request is recorded before it is looked up once more by the same front end.
LEMMA OnceStep == ThreadInv /\ OnceInv /\ [Next]_vars => OnceInv'
<1> SUFFICES ASSUME ThreadInv, OnceInv, [Next]_vars PROVE OnceInv'
  OBVIOUS
<1>0. /\ at \in [Threads -> Places] /\ pay \in [Threads -> PayRecs \cup {NULL}]
      /\ check_reqs \in [Keys -> Codes \cup {NULL}] /\ NULL \notin Codes
      /\ at["main"] \notin {"update", "updating", "find", "send", "run", "answer"}
      /\ at["server"] \notin {"find", "send", "run"}
      /\ \A t \in Threads :
           /\ at[t] \in {"select", "selecting", "queue", "insert", "inserting", "updating"}
                => pay[t].key \in Keys
           /\ at[t] = "updating" => pay[t].code \in Codes
  <2>1. \A t \in Threads :
          at[t] \in {"select", "selecting", "queue", "insert", "inserting", "updating"} => pay[t] \in PayRecs
    BY DEF ThreadInv, Free
  <2>2. \A t \in Threads :
          /\ at[t] \in {"select", "selecting", "queue", "insert", "inserting", "updating"}
               => pay[t].key \in Keys
          /\ at[t] = "updating" => pay[t].code \in Codes
    BY <2>1 DEF ThreadInv, PayRecs
  <2>3. /\ at["main"] \notin {"update", "updating", "find", "send", "run", "answer"}
        /\ at["server"] \notin {"find", "send", "run"}
    BY DEF ThreadInv, MainAt, ServerAt
  <2> QED BY <2>2, <2>3, CheckConstants DEF ThreadInv, Codes
<1> USE <1>0, CheckConstants
    DEF Threads, vars, checkVars, pcVars, xmlVars, socketVars, listVars, historyVars
<1>1. ASSUME NEW t \in Threads, SetStateEnter(t), UNCHANGED <<pcVars, xmlVars, reboots>>
      PROVE  OnceInv'
  BY <1>1 DEF SetStateEnter, Enter, OnceInv
<1>2. ASSUME NEW t \in Threads, SetStateLeave(t), UNCHANGED <<pcVars, xmlVars, reboots>>
      PROVE  OnceInv'
  <2>1. \A k \in Keys : check_reqs[k] # NULL => check_reqs'[k] # NULL
    BY <1>2 DEF SetStateLeave, Update
  <2>2. /\ at["main"] = at'["main"] /\ UNCHANGED <<pay, launched, xlaunched>>
        /\ \/ at'["server"] = at["server"]
           \/ at["server"] = "updating" /\ at'["server"] \in {"find", "answer"}
    BY <1>2 DEF SetStateLeave
  <2> QED BY <2>1, <2>2 DEF OnceInv
<1>3. ASSUME NEW w \in Workers, Launch(w), UNCHANGED <<pcVars, xmlVars, reboots>>
      PROVE  OnceInv'
  BY <1>3 DEF Launch, OnceInv
<1>4. ASSUME NEW w \in Workers, NEW r \in Results, DBSetState(w, r), UNCHANGED <<pcVars, xmlVars, reboots>>
      PROVE  OnceInv'
  <2>1. UNCHANGED <<check_reqs, launched, xlaunched>>
    BY <1>4 DEF DBSetState
  <2>2. /\ at'["main"] = at["main"] /\ at'["server"] = at["server"]
        /\ pay'["main"] = pay["main"] /\ pay'["server"] = pay["server"]
    BY <1>4 DEF DBSetState
  <2> QED BY <2>1, <2>2 DEF OnceInv
<1>5. ASSUME NEW s \in Clients, Accept(s), UNCHANGED <<xmlVars, reboots>>
      PROVE  OnceInv'
  BY <1>5 DEF Accept, Connected, OnceInv
<1>6. ASSUME NEW s \in Clients, TimeOut(s), UNCHANGED <<xmlVars, reboots>>
      PROVE  OnceInv'
  BY <1>6 DEF TimeOut, Down, OnceInv
<1>7. ASSUME NEW ready \in SUBSET Clients, Pick(ready), UNCHANGED <<xmlVars, reboots>>
      PROVE  OnceInv'
  BY <1>7 DEF Pick, OnceInv
<1>8. ASSUME NEW chunk \in Messages \cup {HALF, EOF}, Receive(chunk), UNCHANGED <<xmlVars, reboots>>
      PROVE  OnceInv'
  BY <1>8 DEF Receive, OnceInv
<1>9. ASSUME Refuse, UNCHANGED <<xmlVars, reboots>>
      PROVE  OnceInv'
  BY <1>9 DEF Refuse, OnceInv
<1>10. ASSUME DropClient, UNCHANGED <<xmlVars, reboots>>
       PROVE  OnceInv'
  BY <1>10 DEF DropClient, Readers, OnceInv
<1>11. ASSUME OtherMessage, UNCHANGED <<xmlVars, reboots>>
       PROVE  OnceInv'
  BY <1>11 DEF OtherMessage, Got, OnceInv
<1>12. ASSUME Authorization, UNCHANGED <<xmlVars, reboots>>
       PROVE  OnceInv'
  BY <1>12 DEF Authorization, Got, Down, OnceInv
<1>13. ASSUME Enqueue, UNCHANGED <<xmlVars, reboots>>
       PROVE  OnceInv'
  BY <1>13 DEF Enqueue, MayCheck, Got, OnceInv
<1>14. ASSUME QueueFull, UNCHANGED <<xmlVars, reboots>>
       PROVE  OnceInv'
  <2>1. UNCHANGED <<check_reqs, launched, xlaunched>>
    BY <1>14 DEF QueueFull
  <2>2. /\ at'["main"] = at["main"] /\ at'["server"] = at["server"]
        /\ pay'["main"] = pay["main"] /\ pay'["server"] = pay["server"]
    BY <1>14 DEF QueueFull
  <2> QED BY <2>1, <2>2 DEF OnceInv
<1>15. ASSUME TakeCheck, UNCHANGED <<xmlVars, reboots>>
       PROVE  OnceInv'
  <2>1. UNCHANGED <<check_reqs, launched, xlaunched>> /\ at'["main"] \in {"ready", "select"}
    BY <1>15 DEF TakeCheck
  <2>2. at'["server"] = at["server"] /\ pay'["server"] = pay["server"]
    BY <1>15 DEF TakeCheck
  <2> QED BY <2>1, <2>2 DEF OnceInv
<1>16. ASSUME Selected, UNCHANGED <<xmlVars, reboots>>
       PROVE  OnceInv'
  <2>1. UNCHANGED <<check_reqs, launched, xlaunched>> /\ at["main"] = "selecting"
    BY <1>16 DEF Selected
  <2>2. at'["server"] = at["server"] /\ pay'["server"] = pay["server"]
    BY <1>16 DEF Selected
  <2>3. \/ at'["main"] = "loop"
        \/ at'["main"] = "insert" /\ pay'["main"] = pay["main"] /\ check_reqs[pay["main"].key] = NULL
    BY <1>16 DEF Selected, AlreadyChecked
  <2>4. pay["main"].key \in Keys
    BY <2>1
  <2> QED BY <2>1, <2>2, <2>3, <2>4 DEF OnceInv
<1>17. ASSUME Inserted, UNCHANGED <<xmlVars, reboots>>
       PROVE  OnceInv'
  <2> DEFINE k == pay["main"].key
  <2>1. /\ at["main"] = "inserting" /\ at'["main"] = "ready" /\ at'["server"] = at["server"]
        /\ launched' = [launched EXCEPT ![k] = @ + 1] /\ UNCHANGED <<pay, xlaunched>> /\ k \in Keys
    BY <1>17 DEF Inserted
  <2>2. check_reqs'[k] # NULL /\ \A j \in Keys : check_reqs[j] # NULL => check_reqs'[j] # NULL
    BY <1>17, <2>1 DEF Inserted, Insert
  <2> HIDE DEF k
  <2>3. launched[k] = 0
    BY <2>1 DEF OnceInv, k
  <2>4. launched' = [launched EXCEPT ![k] = 1]
    BY <2>1, <2>3 DEF OnceInv
  <2> QED BY <2>1, <2>2, <2>4 DEF OnceInv
<1>18. ASSUME Enter("main", "select", "selecting"), UNCHANGED <<pcVars, xmlVars, reboots>>
       PROVE  OnceInv'
  BY <1>18 DEF Enter, OnceInv
<1>19. ASSUME Enter("main", "insert", "inserting"), UNCHANGED <<pcVars, xmlVars, reboots>>
       PROVE  OnceInv'
  BY <1>19 DEF Enter, OnceInv
<1>20. ASSUME NEW t \in Threads, Find(t), UNCHANGED <<xmlVars, reboots>>
       PROVE  OnceInv'
  <2>1. UNCHANGED <<check_reqs, launched, xlaunched>> /\ t \notin {"main", "server"}
    BY <1>20 DEF Find
  <2>2. /\ at'["main"] = at["main"] /\ at'["server"] = at["server"]
        /\ pay'["main"] = pay["main"] /\ pay'["server"] = pay["server"]
    BY <1>20, <2>1 DEF Find, Done
  <2> QED BY <2>1, <2>2 DEF OnceInv
<1>21. ASSUME NEW t \in Threads, NEW sent \in BOOLEAN, Send(t, sent), UNCHANGED <<xmlVars, reboots>>
       PROVE  OnceInv'
  BY <1>21 DEF Send, Done, OnceInv
<1>22. ASSUME NEW s \in XSockets, XAccept(s), UNCHANGED <<pcVars, reboots>>
       PROVE  OnceInv'
  BY <1>22 DEF XAccept, OnceInv
<1>23. ASSUME NEW s \in active_sock_list, NEW r \in XRequests, XAnswered(s, r), UNCHANGED <<pcVars, reboots>>
       PROVE  OnceInv'
  BY <1>23 DEF XAnswered, NextActive, OnceInv
<1>24. ASSUME NEW s \in active_sock_list, NEW k \in Keys, XCheck(s, k), UNCHANGED <<pcVars, reboots>>
       PROVE  OnceInv'
  BY <1>24 DEF XCheck, SPay, OnceInv
<1>25. ASSUME XSelected, UNCHANGED <<pcVars, reboots>>
       PROVE  OnceInv'
  <2>1. UNCHANGED <<check_reqs, launched, xlaunched>> /\ at["server"] = "selecting"
    BY <1>25 DEF XSelected
  <2>2. at'["main"] = at["main"] /\ pay'["main"] = pay["main"]
    BY <1>25 DEF XSelected
  <2>3. \/ at'["server"] = "update"
        \/ at'["server"] = "queue" /\ pay'["server"] = pay["server"] /\ check_reqs[pay["server"].key] = NULL
    BY <1>25 DEF XSelected
  <2>4. pay["server"].key \in Keys
    BY <2>1
  <2> QED BY <2>1, <2>2, <2>3, <2>4 DEF OnceInv
<1>26. ASSUME XQueueFull, UNCHANGED <<pcVars, reboots>>
       PROVE  OnceInv'
  BY <1>26 DEF XQueueFull, NextActive, OnceInv
<1>27. ASSUME XQueue, UNCHANGED <<pcVars, reboots>>
       PROVE  OnceInv'
  <2> DEFINE k == pay["server"].key
  <2>1. /\ at["server"] = "queue" /\ at'["server"] = "inserting" /\ at'["main"] = at["main"]
        /\ xlaunched' = [xlaunched EXCEPT ![k] = @ + 1] /\ UNCHANGED <<pay, launched, check_reqs>>
        /\ k \in Keys
    BY <1>27 DEF XQueue
  <2> HIDE DEF k
  <2>3. xlaunched[k] = 0
    BY <2>1 DEF OnceInv, k
  <2>4. xlaunched' = [xlaunched EXCEPT ![k] = 1]
    BY <2>1, <2>3 DEF OnceInv
  <2> QED BY <2>1, <2>4 DEF OnceInv, k
<1>28. ASSUME XInserted, UNCHANGED <<pcVars, reboots>>
       PROVE  OnceInv'
  <2> DEFINE k == pay["server"].key
  <2>1. /\ at["server"] = "inserting" /\ at'["server"] \in {"loop", "pass"} /\ at'["main"] = at["main"]
        /\ pay'["main"] = pay["main"] /\ UNCHANGED <<launched, xlaunched>> /\ k \in Keys
    BY <1>28 DEF XInserted, NextActive
  <2>2. check_reqs'[k] # NULL /\ \A j \in Keys : check_reqs[j] # NULL => check_reqs'[j] # NULL
    BY <1>28, <2>1 DEF XInserted, Insert
  <2> HIDE DEF k
  <2> QED BY <2>1, <2>2 DEF OnceInv, k
<1>29. ASSUME XTake, UNCHANGED <<pcVars, reboots>>
       PROVE  OnceInv'
  <2>1. UNCHANGED <<check_reqs, launched, xlaunched>> /\ at'["main"] = "ready"
    BY <1>29 DEF XTake
  <2>2. at'["server"] = at["server"] /\ pay'["server"] = pay["server"]
    BY <1>29 DEF XTake
  <2> QED BY <2>1, <2>2 DEF OnceInv
<1>30. ASSUME XAnswerRepeated, UNCHANGED <<pcVars, reboots>>
       PROVE  OnceInv'
  BY <1>30 DEF XAnswerRepeated, NextActive, OnceInv
<1>31. ASSUME Enter("server", "select", "selecting"), UNCHANGED <<pcVars, xmlVars, reboots>>
       PROVE  OnceInv'
  BY <1>31 DEF Enter, OnceInv
<1>32. ASSUME NEW ready \in SUBSET connections_store, XSelect(ready), UNCHANGED <<pcVars, reboots>>
       PROVE  OnceInv'
  BY <1>32 DEF XSelect, OnceInv
<1>33. ASSUME NEW w \in Workers, XAnswer(w), UNCHANGED <<pcVars, reboots>>
       PROVE  OnceInv'
  BY <1>33 DEF XAnswer, Done, OnceInv
<1>34. ASSUME Reboot
       PROVE  OnceInv'
  BY <1>34 DEF Reboot, XReboot, OnceInv
<1>35. ASSUME Shutdown
       PROVE  OnceInv'
  BY <1>35 DEF Shutdown, PCShutdown, OnceInv
<1>36. CASE UNCHANGED vars
  BY <1>36 DEF OnceInv
<1> HIDE DEF Threads, vars, checkVars, pcVars, xmlVars, socketVars, listVars, historyVars
<1>37. QED
  BY <1>1, <1>2, <1>3, <1>4, <1>5, <1>6, <1>7, <1>8, <1>9, <1>10, <1>11, <1>12, <1>13, <1>14,
     <1>15, <1>16, <1>17, <1>18, <1>19, <1>20, <1>21, <1>22, <1>23, <1>24, <1>25, <1>26, <1>27,
     <1>28, <1>29, <1>30, <1>31, <1>32, <1>33, <1>34, <1>35, <1>36, XmlCheckConstants
  DEF Next, SharedStep, PayCheckStep, PCNext, PCThread, XmlStep, XNext, XThread

\* Results other than "unknown" are on their way to check_reqs, except from the server, whose
\* requests are those of XML clients; after the end nobody waits.
LEMMA CodeStep == UNKNOWN \notin Results /\ ThreadInv /\ ClientInv /\ CodeInv /\ [Next]_vars => CodeInv'
<1> SUFFICES ASSUME UNKNOWN \notin Results, ThreadInv, ClientInv, CodeInv, [Next]_vars PROVE CodeInv'
  OBVIOUS
<1>0. /\ at \in [Threads -> Places] /\ pay \in [Threads -> PayRecs \cup {NULL}]
      /\ in_list \in Seq(Entries) /\ NULL \notin PayRecs
      /\ at["main"] \notin {"update", "updating", "find", "send", "run", "answer"}
      /\ at["server"] # "find"
      /\ \A t \in Threads :
           /\ at[t] \in {"run", "selecting"} => pay[t] \in PayRecs
           /\ at[t] \in {"loop", "pass"} => pay[t] = NULL
  <2>1. \A t \in Threads :
          /\ at[t] \in {"run", "selecting"} => pay[t] \in PayRecs
          /\ at[t] \in {"loop", "pass"} => pay[t] = NULL
    BY DEF ThreadInv, Free
  <2>2. /\ at["main"] \notin {"update", "updating", "find", "send", "run", "answer"}
        /\ at["server"] # "find"
    BY DEF ThreadInv, MainAt, ServerAt
  <2>3. NULL \notin PayRecs
    BY XmlCheckConstants DEF PayRecs, Codes
  <2> QED BY <2>1, <2>2, <2>3 DEF ThreadInv, ClientInv
<1> USE <1>0, CheckConstants
    DEF Threads, vars, checkVars, pcVars, xmlVars, socketVars, listVars, historyVars
<1>1. ASSUME NEW t \in Threads, SetStateEnter(t), UNCHANGED <<pcVars, xmlVars, reboots>>
      PROVE  CodeInv'
  BY <1>1 DEF SetStateEnter, Enter, CodeInv
<1>2. ASSUME NEW t \in Threads, SetStateLeave(t), UNCHANGED <<pcVars, xmlVars, reboots>>
      PROVE  CodeInv'
  BY <1>2 DEF SetStateLeave, Update, Leave, CodeInv
<1>3. ASSUME NEW w \in Workers, Launch(w), UNCHANGED <<pcVars, xmlVars, reboots>>
      PROVE  CodeInv'
  BY <1>3 DEF Launch, CodeInv
<1>4. ASSUME NEW w \in Workers, NEW r \in Results, DBSetState(w, r), UNCHANGED <<pcVars, xmlVars, reboots>>
      PROVE  CodeInv'
  <2>1. pay[w] \in PayRecs /\ pay' = [pay EXCEPT ![w].code = r] /\ UNCHANGED <<in_list, xasked>>
    BY <1>4 DEF DBSetState
  <2>2. pay'[w].code = r /\ \A t \in Threads : t # w => pay'[t] = pay[t]
    BY <2>1 DEF PayRecs
  <2>3. \A t \in Threads : t # w => at'[t] = at[t]
    BY <1>4 DEF DBSetState
  <2> QED BY <2>1, <2>2, <2>3 DEF CodeInv
<1>5. ASSUME NEW s \in Clients, Accept(s), UNCHANGED <<xmlVars, reboots>>
      PROVE  CodeInv'
  BY <1>5 DEF Accept, Connected, CodeInv
<1>6. ASSUME NEW s \in Clients, TimeOut(s), UNCHANGED <<xmlVars, reboots>>
      PROVE  CodeInv'
  BY <1>6 DEF TimeOut, Down, CodeInv
<1>7. ASSUME NEW ready \in SUBSET Clients, Pick(ready), UNCHANGED <<xmlVars, reboots>>
      PROVE  CodeInv'
  BY <1>7 DEF Pick, CodeInv
<1>8. ASSUME NEW chunk \in Messages \cup {HALF, EOF}, Receive(chunk), UNCHANGED <<xmlVars, reboots>>
      PROVE  CodeInv'
  BY <1>8 DEF Receive, CodeInv
<1>9. ASSUME Refuse, UNCHANGED <<xmlVars, reboots>>
      PROVE  CodeInv'
  BY <1>9 DEF Refuse, CodeInv
<1>10. ASSUME DropClient, UNCHANGED <<xmlVars, reboots>>
       PROVE  CodeInv'
  <2>1. at'["main"] = at["main"] /\ at["main"] # "end"
    BY <1>10 DEF DropClient, CodeInv
  <2> QED BY <1>10, <2>1 DEF DropClient, CodeInv
<1>11. ASSUME OtherMessage, UNCHANGED <<xmlVars, reboots>>
       PROVE  CodeInv'
  BY <1>11 DEF OtherMessage, Got, CodeInv
<1>12. ASSUME Authorization, UNCHANGED <<xmlVars, reboots>>
       PROVE  CodeInv'
  BY <1>12 DEF Authorization, Got, Down, CodeInv
<1>13. ASSUME Enqueue, UNCHANGED <<xmlVars, reboots>>
       PROVE  CodeInv'
  BY <1>13 DEF Enqueue, MayCheck, Got, CodeInv
<1>14. ASSUME QueueFull, UNCHANGED <<xmlVars, reboots>>
       PROVE  CodeInv'
  <2>1. pay'["GetData"].code = QUEUE_FULL
    BY <1>14 DEF QueueFull, SPay
  <2>2. \A t \in Threads : t # "GetData" => pay'[t] = pay[t] /\ at'[t] = at[t]
    BY <1>14 DEF QueueFull
  <2>3. UNCHANGED <<in_list, xasked>> /\ at["GetData"] = "err"
    BY <1>14 DEF QueueFull, MayCheck, Got
  <2> QED BY <2>1, <2>2, <2>3 DEF CodeInv
<1>15. ASSUME TakeCheck, UNCHANGED <<xmlVars, reboots>>
       PROVE  CodeInv'
  <2>1. UNCHANGED <<in_list, xasked>> /\ at'["main"] \in {"ready", "select"}
    BY <1>15 DEF TakeCheck
  <2>2. \A t \in Threads : t # "main" => pay'[t] = pay[t] /\ at'[t] = at[t]
    BY <1>15 DEF TakeCheck
  <2> QED BY <2>1, <2>2 DEF CodeInv
<1>16. ASSUME Selected, UNCHANGED <<xmlVars, reboots>>
       PROVE  CodeInv'
  <2>1. UNCHANGED <<in_list, xasked>> /\ at'["main"] \in {"loop", "insert"}
    BY <1>16 DEF Selected
  <2>2. \A t \in Threads : t # "main" => pay'[t] = pay[t] /\ at'[t] = at[t]
    BY <1>16 DEF Selected
  <2> QED BY <2>1, <2>2 DEF CodeInv
<1>17. ASSUME Inserted, UNCHANGED <<xmlVars, reboots>>
       PROVE  CodeInv'
  BY <1>17 DEF Inserted, Insert, Leave, CodeInv
<1>18. ASSUME Enter("main", "select", "selecting"), UNCHANGED <<pcVars, xmlVars, reboots>>
       PROVE  CodeInv'
  BY <1>18 DEF Enter, CodeInv
<1>19. ASSUME Enter("main", "insert", "inserting"), UNCHANGED <<pcVars, xmlVars, reboots>>
       PROVE  CodeInv'
  BY <1>19 DEF Enter, CodeInv
<1>20. ASSUME NEW t \in Threads, Find(t), UNCHANGED <<xmlVars, reboots>>
       PROVE  CodeInv'
  <2>1. UNCHANGED xasked /\ at[t] = "find" /\ at'[t] \in {"loop", "send"}
    BY <1>20 DEF Find, Done
  <2>2. \A u \in Threads : u # t => pay'[u] = pay[u] /\ at'[u] = at[u]
    BY <1>20 DEF Find, Done
  <2>3. ASSUME at'["main"] = "end" PROVE at'["GetData"] = "end" /\ in_list' = <<>>
    <3>1. at["main"] = "end" /\ at["GetData"] = "end" /\ in_list = <<>> /\ t # "GetData"
      BY <2>1, <2>2, <2>3 DEF CodeInv
    <3>2. Entry(pay[t].key) = 0
      BY <3>1, EntryProperties
    <3> QED BY <1>20, <2>2, <3>1, <3>2 DEF Find
  <2> QED BY <2>1, <2>2, <2>3 DEF CodeInv
<1>21. ASSUME NEW t \in Threads, NEW sent \in BOOLEAN, Send(t, sent), UNCHANGED <<xmlVars, reboots>>
       PROVE  CodeInv'
  BY <1>21 DEF Send, Done, CodeInv
<1>22. ASSUME NEW s \in XSockets, XAccept(s), UNCHANGED <<pcVars, reboots>>
       PROVE  CodeInv'
  BY <1>22 DEF XAccept, CodeInv
<1>23. ASSUME NEW s \in active_sock_list, NEW r \in XRequests, XAnswered(s, r), UNCHANGED <<pcVars, reboots>>
       PROVE  CodeInv'
  BY <1>23 DEF XAnswered, NextActive, CodeInv
<1>24. ASSUME NEW s \in active_sock_list, NEW k \in Keys, XCheck(s, k), UNCHANGED <<pcVars, reboots>>
       PROVE  CodeInv'
  <2>1. pay'["server"].key = k /\ xasked' = xasked \cup {k} /\ UNCHANGED in_list
    BY <1>24 DEF XCheck, SPay
  <2>2. \A t \in Threads : t # "server" => pay'[t] = pay[t] /\ at'[t] = at[t]
    BY <1>24 DEF XCheck
  <2> QED BY <2>1, <2>2 DEF CodeInv
<1>25. ASSUME XSelected, UNCHANGED <<pcVars, reboots>>
       PROVE  CodeInv'
  <2>1. UNCHANGED <<in_list, xasked>> /\ at["server"] = "selecting"
    BY <1>25 DEF XSelected
  <2>2. \A t \in Threads : t # "server" => pay'[t] = pay[t] /\ at'[t] = at[t]
    BY <1>25 DEF XSelected
  <2>3. pay["server"] \in PayRecs /\ pay["server"] # NULL
    BY <2>1
  <2>4. pay'["server"].key = pay["server"].key
    BY <1>25, <2>3 DEF XSelected, PayRecs
  <2> QED BY <2>1, <2>2, <2>3, <2>4 DEF CodeInv
<1>26. ASSUME XQueueFull, UNCHANGED <<pcVars, reboots>>
       PROVE  CodeInv'
  BY <1>26 DEF XQueueFull, NextActive, CodeInv
<1>27. ASSUME XQueue, UNCHANGED <<pcVars, reboots>>
       PROVE  CodeInv'
  BY <1>27 DEF XQueue, CodeInv
<1>28. ASSUME XInserted, UNCHANGED <<pcVars, reboots>>
       PROVE  CodeInv'
  BY <1>28 DEF XInserted, Insert, Leave, NextActive, CodeInv
<1>29. ASSUME XTake, UNCHANGED <<pcVars, reboots>>
       PROVE  CodeInv'
  <2>1. UNCHANGED <<in_list, xasked>> /\ at'["main"] = "ready"
    BY <1>29 DEF XTake
  <2>2. \A t \in Threads : t # "main" => pay'[t] = pay[t] /\ at'[t] = at[t]
    BY <1>29 DEF XTake
  <2> QED BY <2>1, <2>2 DEF CodeInv
<1>30. ASSUME XAnswerRepeated, UNCHANGED <<pcVars, reboots>>
       PROVE  CodeInv'
  BY <1>30 DEF XAnswerRepeated, NextActive, CodeInv
<1>31. ASSUME Enter("server", "select", "selecting"), UNCHANGED <<pcVars, xmlVars, reboots>>
       PROVE  CodeInv'
  BY <1>31 DEF Enter, CodeInv
<1>32. ASSUME NEW ready \in SUBSET connections_store, XSelect(ready), UNCHANGED <<pcVars, reboots>>
       PROVE  CodeInv'
  BY <1>32 DEF XSelect, CodeInv
<1>33. ASSUME NEW w \in Workers, XAnswer(w), UNCHANGED <<pcVars, reboots>>
       PROVE  CodeInv'
  BY <1>33 DEF XAnswer, Done, CodeInv
<1>34. ASSUME Reboot
       PROVE  CodeInv'
  BY <1>34 DEF Reboot, XReboot, CodeInv
<1>35. ASSUME Shutdown
       PROVE  CodeInv'
  BY <1>35 DEF Shutdown, PCShutdown, CodeInv
<1>36. CASE UNCHANGED vars
  BY <1>36 DEF CodeInv
<1> HIDE DEF Threads, vars, checkVars, pcVars, xmlVars, socketVars, listVars, historyVars
<1>37. QED
  BY <1>1, <1>2, <1>3, <1>4, <1>5, <1>6, <1>7, <1>8, <1>9, <1>10, <1>11, <1>12, <1>13, <1>14,
     <1>15, <1>16, <1>17, <1>18, <1>19, <1>20, <1>21, <1>22, <1>23, <1>24, <1>25, <1>26, <1>27,
     <1>28, <1>29, <1>30, <1>31, <1>32, <1>33, <1>34, <1>35, <1>36, XmlCheckConstants
  DEF Next, SharedStep, PayCheckStep, PCNext, PCThread, XmlStep, XNext, XThread

\* A step of other threads on other rows.
LEMMA RowStill ==
  ASSUME NEW k, RowKept(k), (check_reqs[k])' = check_reqs[k], UNCHANGED <<in_list, in_cash_list>>,
         \A u \in Carriers : (at[u])' = at[u] /\ (pay[u])' = pay[u]
  PROVE  RowKept(k)'
<1>1. InHand(k) => InHand(k)'
  BY DEF InHand
<1>2. OnItsWay(k) => OnItsWay(k)'
  BY DEF OnItsWay, Carriers
<1> QED BY <1>1, <1>2 DEF RowKept

\* Forget changes no key.
LEMMA ForgottenKeys ==
  ASSUME NEW list \in Seq(Entries), NEW s
  PROVE  /\ DOMAIN Forget(list, s) = DOMAIN list
         /\ \A i \in DOMAIN list : Forget(list, s)[i].key = list[i].key
<1>1. DOMAIN list = 1 .. Len(list)
  OBVIOUS
<1>2. DOMAIN Forget(list, s) = DOMAIN list
  BY DEF Forget
<1> QED BY <1>1, <1>2, ForgetProperties

\* An element is the first one or in the rest.
LEMMA TailElements ==
  ASSUME NEW S, NEW s \in Seq(S), s # <<>>
  PROVE  \A i \in DOMAIN s : s[i] = Head(s) \/ \E j \in DOMAIN Tail(s) : Tail(s)[j] = s[i]
<1>1. /\ Tail(s) \in Seq(S) /\ Len(Tail(s)) = Len(s) - 1 /\ Head(s) = s[1]
      /\ \A j \in 1 .. Len(s) - 1 : Tail(s)[j] = s[j + 1]
  BY HeadTailProperties
<1>2. DOMAIN Tail(s) = 1 .. Len(s) - 1 /\ DOMAIN s = 1 .. Len(s) /\ Len(s) \in Nat
  BY <1>1
<1>3. ASSUME NEW i \in DOMAIN s, i # 1 PROVE \E j \in DOMAIN Tail(s) : Tail(s)[j] = s[i]
  <2>1. i - 1 \in DOMAIN Tail(s) /\ (i - 1) + 1 = i
    BY <1>2, <1>3
  <2>2. Tail(s)[i - 1] = s[i]
    BY <1>1, <1>2, <2>1
  <2> QED BY <2>1, <2>2
<1> QED BY <1>1, <1>3

\* A request of binary clients gets from GetData to a worker, and back, without being lost.
LEMMA WaitStep == ThreadInv /\ ClientInv /\ CodeInv /\ WaitInv /\ [Next]_vars => WaitInv'
<1> SUFFICES ASSUME ThreadInv, ClientInv, CodeInv, WaitInv, [Next]_vars,
                    reboots' = 0, at'["main"] # "end", NEW k \in Keys, k # NoId, k \notin xasked'
             PROVE  RowKept(k)'
  BY DEF WaitInv
<1>0. reboots = 0 /\ at["main"] # "end" /\ k \notin xasked => RowKept(k)
  BY DEF WaitInv
<1>t. /\ at \in [Threads -> Places] /\ pay \in [Threads -> PayRecs \cup {NULL}]
      /\ check_reqs \in [Keys -> Codes \cup {NULL}]
      /\ in_list \in Seq(Entries) /\ in_cash_list \in Seq(Entries) /\ NULL \notin PayRecs
      /\ at["main"] \notin {"update", "updating", "find", "send", "run", "answer"}
      /\ \A t \in Threads :
           /\ at[t] \in {"run", "selecting", "inserting", "updating"} => pay[t] \in PayRecs
           /\ pay[t] \in PayRecs => pay[t].key \in Keys
           /\ at[t] = "updating" => pay[t].code # NULL
  <2>1. \A t \in Threads : at[t] \in {"run", "selecting", "inserting", "updating"} => pay[t] \in PayRecs
    BY DEF ThreadInv, Free
  <2>2. at["main"] \notin {"update", "updating", "find", "send", "run", "answer"}
    BY DEF ThreadInv, MainAt
  <2>3. NULL \notin PayRecs /\ \A p \in PayRecs : p.key \in Keys
    BY XmlCheckConstants DEF PayRecs, Codes
  <2> QED BY <2>1, <2>2, <2>3 DEF ThreadInv, ClientInv
<1> USE <1>t, CheckConstants
    DEF Threads, vars, checkVars, pcVars, xmlVars, socketVars, listVars, historyVars
<1>1. ASSUME NEW t \in Threads, SetStateEnter(t), UNCHANGED <<pcVars, xmlVars, reboots>>
      PROVE  RowKept(k)'
  <2>1. /\ UNCHANGED <<check_reqs, in_list, in_cash_list, reboots, xasked, pay>>
        /\ at[t] = "update" /\ at' = [at EXCEPT ![t] = "updating"] /\ t # "main"
    BY <1>1 DEF SetStateEnter, Enter
  <2>2. RowKept(k)
    BY <1>0, <2>1
  <2>3. InHand(k) => InHand(k)'
    BY <2>1 DEF InHand, Carriers
  <2>4. OnItsWay(k) => OnItsWay(k)'
    BY <2>1 DEF OnItsWay
  <2> QED BY <2>1, <2>2, <2>3, <2>4 DEF RowKept
<1>2. ASSUME NEW t \in Threads, SetStateLeave(t), UNCHANGED <<pcVars, xmlVars, reboots>>
      PROVE  RowKept(k)'
  <2>1. /\ UNCHANGED <<in_list, in_cash_list, reboots, xasked, pay>> /\ at[t] = "updating"
        /\ \A u \in Threads : u # t => at'[u] = at[u]
        /\ check_reqs' = IF check_reqs[pay[t].key] = NULL THEN check_reqs
                         ELSE [check_reqs EXCEPT ![pay[t].key] = pay[t].code]
        /\ t # "main"
    BY <1>2 DEF SetStateLeave, Update
  <2>2. RowKept(k)
    BY <1>0, <2>1
  <2>3. OnItsWay(k) => OnItsWay(k)'
    BY <2>1 DEF OnItsWay
  <2>4. CASE pay[t].key # k
    <3>1. check_reqs'[k] = check_reqs[k]
      BY <2>1, <2>4
    <3>2. InHand(k) => InHand(k)'
      BY <2>1, <2>4 DEF InHand, Carriers
    <3> QED BY <2>1, <2>2, <2>3, <3>1, <3>2 DEF RowKept
  <2>5. CASE pay[t].key = k /\ check_reqs[k] = NULL
    BY <2>1, <2>2, <2>3, <2>5 DEF RowKept
  <2>6. CASE pay[t].key = k /\ check_reqs[k] # NULL
    <3>1. t # "server"
      BY <2>1, <2>6 DEF CodeInv
    <3>2. pay[t].code \notin {NULL, UNKNOWN}
      BY <2>1, <3>1 DEF CodeInv
    <3>3. check_reqs'[k] = pay[t].code
      BY <2>1, <2>6
    <3> QED BY <3>2, <3>3 DEF RowKept
  <2> QED BY <2>4, <2>5, <2>6
<1>3. ASSUME NEW w \in Workers, Launch(w), UNCHANGED <<pcVars, xmlVars, reboots>>
      PROVE  RowKept(k)'
  <2>1. /\ UNCHANGED <<check_reqs, in_list, in_cash_list, reboots, xasked>>
        /\ at["main"] = "ready" /\ at[w] = "loop" /\ at'[w] = "run" /\ pay'[w] = pay["main"]
        /\ \A u \in Carriers \ {"main", w} : at'[u] = at[u] /\ pay'[u] = pay[u]
    BY <1>3 DEF Launch, Carriers
  <2>2. RowKept(k)
    BY <1>0, <2>1
  <2>3. InHand(k) => InHand(k)'
    BY <2>1 DEF InHand, Carriers
  <2>4. OnItsWay(k) => OnItsWay(k)'
    BY <2>1 DEF OnItsWay
  <2> QED BY <2>1, <2>2, <2>3, <2>4 DEF RowKept
<1>4. ASSUME NEW w \in Workers, NEW r \in Results, DBSetState(w, r), UNCHANGED <<pcVars, xmlVars, reboots>>
      PROVE  RowKept(k)'
  <2>1. /\ UNCHANGED <<check_reqs, in_list, in_cash_list, reboots, xasked>>
        /\ at[w] = "run" /\ (pay[w].key = k => at'[w] = "update")
        /\ \A u \in Carriers \ {w} : at'[u] = at[u] /\ pay'[u] = pay[u]
    BY <1>4 DEF DBSetState, Carriers
  <2>2. pay[w] \in PayRecs /\ pay' = [pay EXCEPT ![w].code = r]
    BY <1>4 DEF DBSetState
  <2>3. pay'[w].key = pay[w].key
    BY <2>2 DEF PayRecs
  <2>4. RowKept(k)
    BY <1>0, <2>1 DEF Carriers
  <2>5. InHand(k) => InHand(k)'
    BY <2>1, <2>3 DEF InHand, Carriers
  <2>6. OnItsWay(k) => OnItsWay(k)'
    BY <2>1 DEF OnItsWay, Carriers
  <2> QED BY <2>1, <2>4, <2>5, <2>6 DEF RowKept
<1>5. ASSUME NEW s \in Clients, Accept(s), UNCHANGED <<xmlVars, reboots>>
      PROVE  RowKept(k)'
  <2>1. /\ UNCHANGED <<check_reqs, in_list, in_cash_list, reboots>> /\ xasked \subseteq xasked'
        /\ \A u \in Carriers : at'[u] = at[u] /\ pay'[u] = pay[u]
    BY <1>5 DEF Accept, Connected, Carriers
  <2> QED BY <1>0, <2>1, RowStill DEF Carriers
<1>6. ASSUME NEW s \in Clients, TimeOut(s), UNCHANGED <<xmlVars, reboots>>
      PROVE  RowKept(k)'
  <2>1. /\ UNCHANGED <<check_reqs, in_list, in_cash_list, reboots>> /\ xasked \subseteq xasked'
        /\ \A u \in Carriers : at'[u] = at[u] /\ pay'[u] = pay[u]
    BY <1>6 DEF TimeOut, Down, Carriers
  <2> QED BY <1>0, <2>1, RowStill DEF Carriers
<1>7. ASSUME NEW ready \in SUBSET Clients, Pick(ready), UNCHANGED <<xmlVars, reboots>>
      PROVE  RowKept(k)'
  <2>1. /\ UNCHANGED <<check_reqs, in_list, in_cash_list, reboots>> /\ xasked \subseteq xasked'
        /\ \A u \in Carriers : at'[u] = at[u] /\ pay'[u] = pay[u]
    BY <1>7 DEF Pick, Carriers
  <2> QED BY <1>0, <2>1, RowStill DEF Carriers
<1>8. ASSUME NEW chunk \in Messages \cup {HALF, EOF}, Receive(chunk), UNCHANGED <<xmlVars, reboots>>
      PROVE  RowKept(k)'
  <2>1. /\ UNCHANGED <<check_reqs, in_list, in_cash_list, reboots>> /\ xasked \subseteq xasked'
        /\ \A u \in Carriers : at'[u] = at[u] /\ pay'[u] = pay[u]
    BY <1>8 DEF Receive, Carriers
  <2> QED BY <1>0, <2>1, RowStill DEF Carriers
<1>9. ASSUME Refuse, UNCHANGED <<xmlVars, reboots>>
      PROVE  RowKept(k)'
  <2>1. /\ UNCHANGED <<check_reqs, in_list, in_cash_list, reboots>> /\ xasked \subseteq xasked'
        /\ \A u \in Carriers : at'[u] = at[u] /\ pay'[u] = pay[u]
    BY <1>9 DEF Refuse, Carriers
  <2> QED BY <1>0, <2>1, RowStill DEF Carriers
<1>10. ASSUME DropClient, UNCHANGED <<xmlVars, reboots>>
       PROVE  RowKept(k)'
  <2>1. /\ UNCHANGED <<check_reqs, reboots, xasked, pay>>
        /\ \A u \in Carriers : at'[u] = at[u]
        /\ in_list' = Forget(in_list, gd_sock) /\ in_cash_list' = Forget(in_cash_list, gd_sock)
    BY <1>10 DEF DropClient, Carriers
  <2>2. RowKept(k)
    BY <1>0, <2>1 DEF Carriers
  <2>3. InHand(k) => InHand(k)'
    BY <2>1 DEF InHand
  <2>4. /\ DOMAIN in_list' = DOMAIN in_list /\ DOMAIN in_cash_list' = DOMAIN in_cash_list
        /\ \A i \in DOMAIN in_list : in_list'[i].key = in_list[i].key
        /\ \A i \in DOMAIN in_cash_list : in_cash_list'[i].key = in_cash_list[i].key
    BY <2>1, ForgottenKeys
  <2>5. OnItsWay(k) => OnItsWay(k)'
    BY <2>1, <2>4 DEF OnItsWay, Carriers
  <2> QED BY <2>1, <2>2, <2>3, <2>4, <2>5 DEF RowKept
<1>11. ASSUME OtherMessage, UNCHANGED <<xmlVars, reboots>>
       PROVE  RowKept(k)'
  <2>1. /\ UNCHANGED <<check_reqs, in_list, in_cash_list, reboots>> /\ xasked \subseteq xasked'
        /\ \A u \in Carriers : at'[u] = at[u] /\ pay'[u] = pay[u]
    BY <1>11 DEF OtherMessage, Got, Carriers
  <2> QED BY <1>0, <2>1, RowStill DEF Carriers
<1>12. ASSUME Authorization, UNCHANGED <<xmlVars, reboots>>
       PROVE  RowKept(k)'
  <2>1. /\ UNCHANGED <<check_reqs, in_list, in_cash_list, reboots>> /\ xasked \subseteq xasked'
        /\ \A u \in Carriers : at'[u] = at[u] /\ pay'[u] = pay[u]
    BY <1>12 DEF Authorization, Got, Down, Carriers
  <2> QED BY <1>0, <2>1, RowStill DEF Carriers
<1>13. ASSUME Enqueue, UNCHANGED <<xmlVars, reboots>>
       PROVE  RowKept(k)'
  <2> DEFINE e == [key |-> gd_msg.key, sock |-> gd_sock]
  <2>0. gd_msg.key \in Keys /\ gd_sock \in Clients
    BY <1>13, PayCheckConstants DEF Enqueue, MayCheck, Got, HALF, EOF, ClientInv
  <2>1. /\ UNCHANGED <<check_reqs, reboots, xasked, pay>>
        /\ \A u \in Carriers : at'[u] = at[u]
        /\ in_list' = Append(in_list, e) /\ in_cash_list' = Append(in_cash_list, e)
    BY <1>13 DEF Enqueue, Carriers
  <2>2. e \in Entries
    BY <2>0 DEF Entries
  <2> HIDE DEF e
  <2>3. RowKept(k)
    BY <1>0, <2>1 DEF Carriers
  <2>4. InHand(k) => InHand(k)'
    BY <2>1 DEF InHand
  <2>5. \A i \in DOMAIN in_list' : in_list'[i] = e \/ (i \in DOMAIN in_list /\ in_list'[i] = in_list[i])
    BY <2>1, <2>2, Appended
  <2>6. /\ \A i \in DOMAIN in_cash_list : i \in DOMAIN in_cash_list' /\ in_cash_list'[i] = in_cash_list[i]
        /\ \E i \in DOMAIN in_cash_list' : in_cash_list'[i] = e
    BY <2>1, <2>2, Appended
  <2>7. OnItsWay(k) => OnItsWay(k)'
    BY <2>1, <2>6 DEF OnItsWay, Carriers
  <2>8. e.key = k => OnItsWay(k)'
    BY <2>6 DEF OnItsWay
  <2> QED BY <2>1, <2>3, <2>4, <2>5, <2>7, <2>8 DEF RowKept
<1>14. ASSUME QueueFull, UNCHANGED <<xmlVars, reboots>>
       PROVE  RowKept(k)'
  <2>1. /\ UNCHANGED <<check_reqs, in_list, in_cash_list, reboots>> /\ xasked \subseteq xasked'
        /\ \A u \in Carriers : at'[u] = at[u] /\ pay'[u] = pay[u]
    BY <1>14 DEF QueueFull, MayCheck, Got, SPay, Carriers
  <2> QED BY <1>0, <2>1, RowStill DEF Carriers
<1>15. ASSUME TakeCheck, UNCHANGED <<xmlVars, reboots>>
       PROVE  RowKept(k)'
  <2> DEFINE h == Head(in_cash_list)
  <2>1. /\ UNCHANGED <<check_reqs, in_list, reboots, xasked>>
        /\ at["main"] = "loop" /\ in_cash_list # <<>> /\ in_cash_list' = Tail(in_cash_list)
        /\ \A u \in Carriers \ {"main"} : at'[u] = at[u] /\ pay'[u] = pay[u]
        /\ pay'["main"].key = h.key /\ (h.key # NoId => at'["main"] = "select")
    BY <1>15 DEF TakeCheck, SPay, Carriers
  <2>2. RowKept(k)
    BY <1>0, <2>1
  <2>3. InHand(k) => InHand(k)'
    BY <2>1 DEF InHand, Carriers
  <2>4. \A i \in DOMAIN in_cash_list :
          \/ in_cash_list[i] = h
          \/ \E j \in DOMAIN in_cash_list' : in_cash_list'[j] = in_cash_list[i]
    BY <2>1, TailElements
  <2> HIDE DEF h
  <2>5. OnItsWay(k) => OnItsWay(k)'
    BY <2>1, <2>4 DEF OnItsWay
  <2> QED BY <2>1, <2>2, <2>3, <2>5 DEF RowKept
<1>16. ASSUME Selected, UNCHANGED <<xmlVars, reboots>>
       PROVE  RowKept(k)'
  <2>1. /\ UNCHANGED <<check_reqs, in_list, in_cash_list, reboots, xasked>> /\ at["main"] = "selecting"
    BY <1>16 DEF Selected
  <2>2. \A u \in Carriers \ {"main"} : at'[u] = at[u] /\ pay'[u] = pay[u]
    BY <1>16 DEF Selected, Carriers
  <2>3. check_reqs[pay["main"].key] = NULL => at'["main"] = "insert" /\ pay'["main"] = pay["main"]
    BY <1>16 DEF Selected, AlreadyChecked
  <2>4. RowKept(k)
    BY <1>0, <2>1
  <2>5. InHand(k) => InHand(k)'
    BY <2>1, <2>2 DEF InHand, Carriers
  <2>6. OnItsWay(k) /\ check_reqs[k] = NULL => OnItsWay(k)'
    BY <2>1, <2>3 DEF OnItsWay
  <2> QED BY <2>1, <2>4, <2>5, <2>6 DEF RowKept
<1>17. ASSUME Inserted, UNCHANGED <<xmlVars, reboots>>
       PROVE  RowKept(k)'
  <2>1. /\ UNCHANGED <<in_list, in_cash_list, reboots, xasked, pay>> /\ at["main"] = "inserting"
        /\ at'["main"] = "ready" /\ pay["main"].key \in Keys
        /\ \A u \in Carriers \ {"main"} : at'[u] = at[u]
        /\ check_reqs' = IF check_reqs[pay["main"].key] # NULL THEN check_reqs
                         ELSE [check_reqs EXCEPT ![pay["main"].key] = UNKNOWN]
    BY <1>17 DEF Inserted, Insert, Carriers
  <2>2. RowKept(k)
    BY <1>0, <2>1
  <2>3. InHand(k) => InHand(k)'
    BY <2>1 DEF InHand, Carriers
  <2>4. CASE pay["main"].key = k
    <3>1. InHand(k)'
      BY <2>1, <2>4 DEF InHand, Carriers
    <3>2. check_reqs'[k] # NULL
      BY <2>1, <2>4
    <3> QED BY <3>1, <3>2 DEF RowKept
  <2>5. CASE pay["main"].key # k
    <3>1. OnItsWay(k) => OnItsWay(k)'
      BY <2>1, <2>5 DEF OnItsWay
    <3>2. check_reqs'[k] = check_reqs[k]
      BY <2>1, <2>5
    <3> QED BY <2>1, <2>2, <2>3, <3>1, <3>2 DEF RowKept
  <2> QED BY <2>4, <2>5
<1>18. ASSUME Enter("main", "select", "selecting"), UNCHANGED <<pcVars, xmlVars, reboots>>
       PROVE  RowKept(k)'
  <2>1. /\ UNCHANGED <<check_reqs, in_list, in_cash_list, reboots, xasked, pay>>
        /\ at["main"] = "select" /\ at' = [at EXCEPT !["main"] = "selecting"]
    BY <1>18 DEF Enter
  <2>2. RowKept(k)
    BY <1>0, <2>1
  <2>3. InHand(k) => InHand(k)'
    BY <2>1 DEF InHand, Carriers
  <2>4. OnItsWay(k) => OnItsWay(k)'
    BY <2>1 DEF OnItsWay
  <2> QED BY <2>1, <2>2, <2>3, <2>4 DEF RowKept
<1>19. ASSUME Enter("main", "insert", "inserting"), UNCHANGED <<pcVars, xmlVars, reboots>>
       PROVE  RowKept(k)'
  <2>1. /\ UNCHANGED <<check_reqs, in_list, in_cash_list, reboots, xasked, pay>>
        /\ at["main"] = "insert" /\ at' = [at EXCEPT !["main"] = "inserting"]
    BY <1>19 DEF Enter
  <2>2. RowKept(k)
    BY <1>0, <2>1
  <2>3. InHand(k) => InHand(k)'
    BY <2>1 DEF InHand, Carriers
  <2>4. OnItsWay(k) => OnItsWay(k)'
    BY <2>1 DEF OnItsWay
  <2> QED BY <2>1, <2>2, <2>3, <2>4 DEF RowKept
<1>20. ASSUME NEW t \in Threads, Find(t), UNCHANGED <<xmlVars, reboots>>
       PROVE  RowKept(k)'
  <2> DEFINE i == Entry(pay[t].key)
  <2>1. /\ UNCHANGED <<check_reqs, in_cash_list, reboots, xasked>> /\ at[t] = "find" /\ t # "main"
    BY <1>20 DEF Find
  <2>2. \A u \in Threads : u # t => at'[u] = at[u] /\ pay'[u] = pay[u]
    BY <1>20 DEF Find, Done
  <2>3. RowKept(k)
    BY <1>0, <2>1, <2>2
  <2>4. InHand(k) => InHand(k)'
    BY <2>1, <2>2 DEF InHand, Carriers
  <2>5. OnItsWay(k) => OnItsWay(k)'
    BY <2>1, <2>2 DEF OnItsWay
  <2>6. in_list' = (IF i = 0 THEN in_list ELSE RemoveAt(in_list, i)) /\ (i = 0 \/ i \in 1 .. Len(in_list))
    BY <1>20, EntryProperties DEF Find
  <2> HIDE DEF i
  <2>7. \A j \in DOMAIN in_list' : \E l \in DOMAIN in_list : in_list'[j] = in_list[l]
    <3>1. CASE i = 0
      BY <2>6, <3>1
    <3>2. CASE i # 0
      BY <2>6, <3>2, RemovedElements
    <3> QED BY <3>1, <3>2
  <2> QED BY <2>1, <2>3, <2>4, <2>5, <2>7 DEF RowKept
<1>21. ASSUME NEW t \in Threads, NEW sent \in BOOLEAN, Send(t, sent), UNCHANGED <<xmlVars, reboots>>
       PROVE  RowKept(k)'
  <2>1. /\ UNCHANGED <<check_reqs, in_list, in_cash_list, reboots, xasked>>
        /\ at[t] = "send" /\ t # "main"
        /\ \A u \in Threads : u # t => at'[u] = at[u] /\ pay'[u] = pay[u]
    BY <1>21 DEF Send, Done
  <2>2. RowKept(k)
    BY <1>0, <2>1
  <2>3. InHand(k) => InHand(k)'
    BY <2>1 DEF InHand, Carriers
  <2>4. OnItsWay(k) => OnItsWay(k)'
    BY <2>1 DEF OnItsWay
  <2> QED BY <2>1, <2>2, <2>3, <2>4 DEF RowKept
<1>22. ASSUME NEW s \in XSockets, XAccept(s), UNCHANGED <<pcVars, reboots>>
       PROVE  RowKept(k)'
  <2>1. /\ UNCHANGED <<check_reqs, in_list, in_cash_list, reboots>> /\ xasked \subseteq xasked'
        /\ \A u \in Carriers : at'[u] = at[u] /\ pay'[u] = pay[u]
    BY <1>22 DEF XAccept, Carriers
  <2> QED BY <1>0, <2>1, RowStill DEF Carriers
<1>23. ASSUME NEW s \in active_sock_list, NEW r \in XRequests, XAnswered(s, r), UNCHANGED <<pcVars, reboots>>
       PROVE  RowKept(k)'
  <2>1. /\ UNCHANGED <<check_reqs, in_list, in_cash_list, reboots>> /\ xasked \subseteq xasked'
        /\ \A u \in Carriers : at'[u] = at[u] /\ pay'[u] = pay[u]
    BY <1>23 DEF XAnswered, NextActive, Carriers
  <2> QED BY <1>0, <2>1, RowStill DEF Carriers
<1>24. ASSUME NEW s \in active_sock_list, NEW x \in Keys, XCheck(s, x), UNCHANGED <<pcVars, reboots>>
       PROVE  RowKept(k)'
  <2>1. /\ UNCHANGED <<check_reqs, in_list, in_cash_list, reboots>> /\ xasked \subseteq xasked'
        /\ \A u \in Carriers : at'[u] = at[u] /\ pay'[u] = pay[u]
    BY <1>24 DEF XCheck, SPay, Carriers
  <2> QED BY <1>0, <2>1, RowStill DEF Carriers
<1>25. ASSUME XSelected, UNCHANGED <<pcVars, reboots>>
       PROVE  RowKept(k)'
  <2>1. /\ UNCHANGED <<check_reqs, in_list, in_cash_list, reboots>> /\ xasked \subseteq xasked'
        /\ \A u \in Carriers : at'[u] = at[u] /\ pay'[u] = pay[u]
    BY <1>25 DEF XSelected, Leave, Carriers
  <2> QED BY <1>0, <2>1, RowStill DEF Carriers
<1>26. ASSUME XQueueFull, UNCHANGED <<pcVars, reboots>>
       PROVE  RowKept(k)'
  <2>1. /\ UNCHANGED <<check_reqs, in_list, in_cash_list, reboots>> /\ xasked \subseteq xasked'
        /\ \A u \in Carriers : at'[u] = at[u] /\ pay'[u] = pay[u]
    BY <1>26 DEF XQueueFull, NextActive, Carriers
  <2> QED BY <1>0, <2>1, RowStill DEF Carriers
<1>27. ASSUME XQueue, UNCHANGED <<pcVars, reboots>>
       PROVE  RowKept(k)'
  <2>1. /\ UNCHANGED <<check_reqs, in_list, in_cash_list, reboots>> /\ xasked \subseteq xasked'
        /\ \A u \in Carriers : at'[u] = at[u] /\ pay'[u] = pay[u]
    BY <1>27 DEF XQueue, Carriers
  <2> QED BY <1>0, <2>1, RowStill DEF Carriers
<1>28. ASSUME XInserted, UNCHANGED <<pcVars, reboots>>
       PROVE  RowKept(k)'
  <2>1. /\ UNCHANGED <<in_list, in_cash_list, reboots, xasked>>
        /\ \A u \in Carriers : at'[u] = at[u] /\ pay'[u] = pay[u]
    BY <1>28 DEF XInserted, NextActive, Carriers
  <2>2. pay["server"].key # k
    BY <1>28, <2>1 DEF XInserted, CodeInv
  <2>3. check_reqs'[k] = check_reqs[k]
    BY <1>28, <2>2 DEF XInserted, Insert
  <2> QED BY <1>0, <2>1, <2>3, RowStill DEF Carriers
<1>29. ASSUME XTake, UNCHANGED <<pcVars, reboots>>
       PROVE  RowKept(k)'
  <2>1. /\ UNCHANGED <<check_reqs, in_list, in_cash_list, reboots, xasked>> /\ at["main"] = "loop"
    BY <1>29 DEF XTake
  <2>2. \A u \in Carriers \ {"main"} : at'[u] = at[u] /\ pay'[u] = pay[u]
    BY <1>29 DEF XTake, Carriers
  <2>3. RowKept(k)
    BY <1>0, <2>1
  <2>4. InHand(k) => InHand(k)'
    BY <2>1, <2>2 DEF InHand, Carriers
  <2>5. OnItsWay(k) => OnItsWay(k)'
    BY <2>1 DEF OnItsWay
  <2> QED BY <2>1, <2>3, <2>4, <2>5 DEF RowKept
<1>30. ASSUME XAnswerRepeated, UNCHANGED <<pcVars, reboots>>
       PROVE  RowKept(k)'
  <2>1. /\ UNCHANGED <<check_reqs, in_list, in_cash_list, reboots>> /\ xasked \subseteq xasked'
        /\ \A u \in Carriers : at'[u] = at[u] /\ pay'[u] = pay[u]
    BY <1>30 DEF XAnswerRepeated, NextActive, Carriers
  <2> QED BY <1>0, <2>1, RowStill DEF Carriers
<1>31. ASSUME Enter("server", "select", "selecting"), UNCHANGED <<pcVars, xmlVars, reboots>>
       PROVE  RowKept(k)'
  <2>1. /\ UNCHANGED <<check_reqs, in_list, in_cash_list, reboots>> /\ xasked \subseteq xasked'
        /\ \A u \in Carriers : at'[u] = at[u] /\ pay'[u] = pay[u]
    BY <1>31 DEF Enter, Carriers
  <2> QED BY <1>0, <2>1, RowStill DEF Carriers
<1>32. ASSUME NEW ready \in SUBSET connections_store, XSelect(ready), UNCHANGED <<pcVars, reboots>>
       PROVE  RowKept(k)'
  <2>1. /\ UNCHANGED <<check_reqs, in_list, in_cash_list, reboots>> /\ xasked \subseteq xasked'
        /\ \A u \in Carriers : at'[u] = at[u] /\ pay'[u] = pay[u]
    BY <1>32 DEF XSelect, Carriers
  <2> QED BY <1>0, <2>1, RowStill DEF Carriers
<1>33. ASSUME NEW w \in Workers, XAnswer(w), UNCHANGED <<pcVars, reboots>>
       PROVE  RowKept(k)'
  <2>1. /\ UNCHANGED <<check_reqs, in_list, in_cash_list, reboots, xasked>>
        /\ at[w] = "answer" /\ w # "main"
        /\ \A u \in Threads : u # w => at'[u] = at[u] /\ pay'[u] = pay[u]
    BY <1>33 DEF XAnswer, Done
  <2>2. RowKept(k)
    BY <1>0, <2>1
  <2>3. InHand(k) => InHand(k)'
    BY <2>1 DEF InHand, Carriers
  <2>4. OnItsWay(k) => OnItsWay(k)'
    BY <2>1 DEF OnItsWay
  <2> QED BY <2>1, <2>2, <2>3, <2>4 DEF RowKept
<1>34. ASSUME Reboot
       PROVE  RowKept(k)'
  BY <1>34 DEF Reboot
<1>35. ASSUME Shutdown
       PROVE  RowKept(k)'
  BY <1>35 DEF Shutdown, PCShutdown
<1>36. CASE UNCHANGED vars
  BY <1>0, <1>36, RowStill DEF Carriers
<1> HIDE DEF Threads, vars, checkVars, pcVars, xmlVars, socketVars, listVars, historyVars
<1>37. QED
  BY <1>1, <1>2, <1>3, <1>4, <1>5, <1>6, <1>7, <1>8, <1>9, <1>10, <1>11, <1>12, <1>13, <1>14,
     <1>15, <1>16, <1>17, <1>18, <1>19, <1>20, <1>21, <1>22, <1>23, <1>24, <1>25, <1>26, <1>27,
     <1>28, <1>29, <1>30, <1>31, <1>32, <1>33, <1>34, <1>35, <1>36, XmlCheckConstants
  DEF Next, SharedStep, PayCheckStep, PCNext, PCThread, XmlStep, XNext, XThread

\* The clients that wait and the threads that answer are finitely many.
LEMMA AskFinite ==
  ASSUME in_list \in Seq(Entries), NEW s, NEW k
  PROVE  /\ IsFiniteSet(Waiting(s, k)) /\ IsFiniteSet(Answering(s, k))
         /\ Cardinality(Waiting(s, k)) \in Nat /\ Cardinality(Answering(s, k)) \in Nat
<1>1. IsFiniteSet(Waiting(s, k))
  <2>1. Len(in_list) \in Nat /\ Waiting(s, k) \in SUBSET (1 .. Len(in_list))
    BY DEF Waiting
  <2>2. IsFiniteSet(1 .. Len(in_list))
    BY <2>1, FS_Interval
  <2> QED BY <2>1, <2>2, FS_Subset
<1>2. IsFiniteSet(Threads)
  <2>1. IsFiniteSet({}) /\ IsFiniteSet(Workers)
    BY FS_EmptySet, CheckConstants
  <2>2. Threads = ((Workers \cup {"main"}) \cup {"GetData"}) \cup {"server"}
    BY DEF Threads
  <2>3. IsFiniteSet(Workers \cup {"main"})
    BY <2>1, FS_AddElement
  <2>4. IsFiniteSet((Workers \cup {"main"}) \cup {"GetData"})
    BY <2>3, FS_AddElement
  <2> QED BY <2>2, <2>4, FS_AddElement
<1>3. IsFiniteSet(Answering(s, k))
  <2>1. Answering(s, k) \in SUBSET Threads
    BY DEF Answering
  <2> QED BY <1>2, <2>1, FS_Subset
<1> QED BY <1>1, <1>3, FS_CardinalityType

\* Fewer who wait and who answer.
LEMMA BalanceLess ==
  ASSUME AskInv, in_list \in Seq(Entries), NEW s \in Clients, NEW k \in Keys,
         Waiting(s, k)' \subseteq Waiting(s, k), Answering(s, k)' \subseteq Answering(s, k),
         (asked[s][k])' = asked[s][k], (answered[s][k])' = answered[s][k]
  PROVE  Balance(s, k)'
<1>1. /\ IsFiniteSet(Waiting(s, k)) /\ IsFiniteSet(Answering(s, k))
      /\ Cardinality(Waiting(s, k)) \in Nat /\ Cardinality(Answering(s, k)) \in Nat
  BY AskFinite
<1>2. /\ IsFiniteSet(Waiting(s, k)') /\ Cardinality(Waiting(s, k)') <= Cardinality(Waiting(s, k))
      /\ IsFiniteSet(Answering(s, k)') /\ Cardinality(Answering(s, k)') <= Cardinality(Answering(s, k))
  BY <1>1, FS_Subset
<1>3. Cardinality(Waiting(s, k)') \in Nat /\ Cardinality(Answering(s, k)') \in Nat
  BY <1>2, FS_CardinalityType
<1>4. asked[s][k] \in Nat /\ answered[s][k] \in Nat /\ Balance(s, k)
  BY DEF AskInv
<1> QED BY <1>1, <1>2, <1>3, <1>4 DEF Balance

\* The same for all clients and requests.
LEMMA AskLess ==
  ASSUME AskInv, in_list \in Seq(Entries), UNCHANGED <<asked, answered>>,
         \A s \in Clients, k \in Keys :
           Waiting(s, k)' \subseteq Waiting(s, k) /\ Answering(s, k)' \subseteq Answering(s, k)
  PROVE  AskInv'
<1>1. ASSUME NEW s \in Clients, NEW k \in Keys PROVE Balance(s, k)'
  BY BalanceLess
<1> QED BY <1>1 DEF AskInv

\* A step that brings no thread to Send and leaves in_list.
LEMMA AskSame ==
  ASSUME AskInv, in_list \in Seq(Entries), UNCHANGED <<asked, answered, in_list>>,
         \A u \in Threads : (at[u])' = "send" =>
           at[u] = "send" /\ (to[u])' = to[u] /\ (pay[u])' = pay[u]
  PROVE  AskInv'
<1>1. ASSUME NEW s \in Clients, NEW k \in Keys
      PROVE  Waiting(s, k)' \subseteq Waiting(s, k) /\ Answering(s, k)' \subseteq Answering(s, k)
  BY DEF Waiting, Answering
<1> QED BY <1>1, AskLess

\* An entry of in_list is removed: the others are as many as before, at other places.
LEMMA WaitingRemoved ==
  ASSUME in_list \in Seq(Entries), NEW i \in 1 .. Len(in_list), in_list' = RemoveAt(in_list, i),
         NEW s, NEW k
  PROVE  /\ IsFiniteSet(Waiting(s, k)')
         /\ Cardinality(Waiting(s, k)') <= Cardinality(Waiting(s, k) \ {i})
<1> DEFINE A == Waiting(s, k)'
           B == Waiting(s, k) \ {i}
           f == [j \in A |-> IF j < i THEN j ELSE j + 1]
<1>1. /\ Len(in_list) \in Nat /\ DOMAIN in_list = 1 .. Len(in_list) /\ i \in Nat
      /\ DOMAIN in_list' = 1 .. Len(in_list) - 1
      /\ \A j \in 1 .. Len(in_list) - 1 :
           in_list'[j] = IF j < i THEN in_list[j] ELSE in_list[j + 1]
  <2>1. /\ in_list' \in Seq(Entries) /\ Len(in_list') = Len(in_list) - 1
        /\ \A j \in 1 .. Len(in_list) - 1 :
             in_list'[j] = IF j < i THEN in_list[j] ELSE in_list[j + 1]
    BY RemoveAtProperties
  <2> QED BY ONLY <2>1, in_list \in Seq(Entries), i \in 1 .. Len(in_list)
<1>2. A = {j \in DOMAIN in_list' : in_list'[j].sock = s /\ in_list'[j].key = k}
  BY DEF Waiting
<1>3. B = {j \in DOMAIN in_list : in_list[j].sock = s /\ in_list[j].key = k} \ {i}
  BY DEF Waiting
<1> HIDE DEF A, B
<1>4. ASSUME NEW j \in A PROVE f[j] \in B /\ j \in Nat
  <2>1. j \in 1 .. Len(in_list) - 1 /\ in_list'[j].sock = s /\ in_list'[j].key = k
    BY <1>1, <1>2
  <2>2. CASE j < i
    BY <1>1, <1>3, <2>1, <2>2
  <2>3. CASE ~(j < i)
    <3>1. j + 1 \in 1 .. Len(in_list) /\ j + 1 # i /\ f[j] = j + 1 /\ in_list'[j] = in_list[j + 1]
      BY <1>1, <2>1, <2>3
    <3> QED BY <1>1, <1>3, <2>1, <3>1
  <2> QED BY <2>2, <2>3
<1>5. \A j, l \in A : f[j] = f[l] => j = l
  BY <1>1, <1>4
<1>6. f \in [A -> B]
  BY <1>4
<1> HIDE DEF f
<1>7. f \in Injection(A, B)
  BY <1>5, <1>6 DEF Injection, IsInjective
<1>8. IsFiniteSet(B)
  <2>1. IsFiniteSet(Waiting(s, k))
    BY AskFinite
  <2> QED BY <2>1, FS_RemoveElement DEF B
<1>9. IsFiniteSet(A) /\ Cardinality(A) <= Cardinality(B)
  BY <1>7, <1>8, FS_Injection
<1> QED BY <1>9 DEF A, B

\* Every answer is for a request that was asked: answered, being answered and waiting.
LEMMA AskStep == ThreadInv /\ ClientInv /\ AskInv /\ [Next]_vars => AskInv'
<1> SUFFICES ASSUME ThreadInv, ClientInv, AskInv, [Next]_vars PROVE AskInv'
  OBVIOUS
<1>t. /\ at \in [Threads -> Places] /\ pay \in [Threads -> PayRecs \cup {NULL}]
      /\ to \in [Threads -> Clients \cup {NULL}]
      /\ in_list \in Seq(Entries) /\ in_cash_list \in Seq(Entries)
      /\ at["main"] # "send" /\ at["server"] # "send"
      /\ \A t \in Threads : at[t] = "send" => to[t] \in Clients /\ pay[t].key \in Keys
  <2>1. \A t \in Threads : at[t] = "send" => pay[t] \in PayRecs
    BY DEF ThreadInv, Free
  <2>2. at["main"] # "send" /\ at["server"] # "send"
    BY DEF ThreadInv, MainAt, ServerAt
  <2>3. \A p \in PayRecs : p.key \in Keys
    BY DEF PayRecs
  <2> QED BY <2>1, <2>2, <2>3 DEF ThreadInv, ClientInv
<1>f. \A s, k : /\ IsFiniteSet(Waiting(s, k)) /\ IsFiniteSet(Answering(s, k))
                /\ Cardinality(Waiting(s, k)) \in Nat /\ Cardinality(Answering(s, k)) \in Nat
  BY <1>t, AskFinite
<1> USE <1>t, CheckConstants
    DEF Threads, vars, checkVars, pcVars, xmlVars, socketVars, listVars, historyVars
<1>1. ASSUME NEW t \in Threads, SetStateEnter(t), UNCHANGED <<pcVars, xmlVars, reboots>>
      PROVE  AskInv'
  <2>1. /\ UNCHANGED <<asked, answered, in_list>>
        /\ \A u \in Threads : at'[u] = "send" => at[u] = "send" /\ to'[u] = to[u] /\ pay'[u] = pay[u]
    BY <1>1 DEF SetStateEnter, Enter
  <2> QED BY <2>1, AskSame
<1>2. ASSUME NEW t \in Threads, SetStateLeave(t), UNCHANGED <<pcVars, xmlVars, reboots>>
      PROVE  AskInv'
  <2>1. /\ UNCHANGED <<asked, answered, in_list>>
        /\ \A u \in Threads : at'[u] = "send" => at[u] = "send" /\ to'[u] = to[u] /\ pay'[u] = pay[u]
    BY <1>2 DEF SetStateLeave, Update, Leave
  <2> QED BY <2>1, AskSame
<1>3. ASSUME NEW w \in Workers, Launch(w), UNCHANGED <<pcVars, xmlVars, reboots>>
      PROVE  AskInv'
  <2>1. /\ UNCHANGED <<asked, answered, in_list>>
        /\ \A u \in Threads : at'[u] = "send" => at[u] = "send" /\ to'[u] = to[u] /\ pay'[u] = pay[u]
    BY <1>3 DEF Launch
  <2> QED BY <2>1, AskSame
<1>4. ASSUME NEW w \in Workers, NEW r \in Results, DBSetState(w, r), UNCHANGED <<pcVars, xmlVars, reboots>>
      PROVE  AskInv'
  <2>1. /\ UNCHANGED <<asked, answered, in_list>>
        /\ \A u \in Threads : at'[u] = "send" => at[u] = "send" /\ to'[u] = to[u] /\ pay'[u] = pay[u]
    <3>1. at' = [at EXCEPT ![w] = at'[w]] /\ at'[w] # "send" /\ pay' = [pay EXCEPT ![w] = pay'[w]]
      BY <1>4 DEF DBSetState
    <3> QED BY <1>4, <3>1 DEF DBSetState
  <2> QED BY <2>1, AskSame
<1>5. ASSUME NEW s \in Clients, Accept(s), UNCHANGED <<xmlVars, reboots>>
      PROVE  AskInv'
  <2>1. /\ UNCHANGED <<asked, answered, in_list>>
        /\ \A u \in Threads : at'[u] = "send" => at[u] = "send" /\ to'[u] = to[u] /\ pay'[u] = pay[u]
    BY <1>5 DEF Accept, Connected
  <2> QED BY <2>1, AskSame
<1>6. ASSUME NEW s \in Clients, TimeOut(s), UNCHANGED <<xmlVars, reboots>>
      PROVE  AskInv'
  <2>1. /\ UNCHANGED <<asked, answered, in_list>>
        /\ \A u \in Threads : at'[u] = "send" => at[u] = "send" /\ to'[u] = to[u] /\ pay'[u] = pay[u]
    BY <1>6 DEF TimeOut, Down
  <2> QED BY <2>1, AskSame
<1>7. ASSUME NEW ready \in SUBSET Clients, Pick(ready), UNCHANGED <<xmlVars, reboots>>
      PROVE  AskInv'
  <2>1. /\ UNCHANGED <<asked, answered, in_list>>
        /\ \A u \in Threads : at'[u] = "send" => at[u] = "send" /\ to'[u] = to[u] /\ pay'[u] = pay[u]
    BY <1>7 DEF Pick
  <2> QED BY <2>1, AskSame
<1>8. ASSUME NEW chunk \in Messages \cup {HALF, EOF}, Receive(chunk), UNCHANGED <<xmlVars, reboots>>
      PROVE  AskInv'
  <2>1. /\ UNCHANGED <<asked, answered, in_list>>
        /\ \A u \in Threads : at'[u] = "send" => at[u] = "send" /\ to'[u] = to[u] /\ pay'[u] = pay[u]
    BY <1>8 DEF Receive
  <2> QED BY <2>1, AskSame
<1>9. ASSUME Refuse, UNCHANGED <<xmlVars, reboots>>
      PROVE  AskInv'
  <2>1. /\ UNCHANGED <<asked, answered, in_list>>
        /\ \A u \in Threads : at'[u] = "send" => at[u] = "send" /\ to'[u] = to[u] /\ pay'[u] = pay[u]
    BY <1>9 DEF Refuse
  <2> QED BY <2>1, AskSame
<1>10. ASSUME DropClient, UNCHANGED <<xmlVars, reboots>>
       PROVE  AskInv'
  <2>1. /\ UNCHANGED <<asked, answered>> /\ in_list' = Forget(in_list, gd_sock)
        /\ \A u \in Threads : at'[u] # "send"
    BY <1>10 DEF DropClient, Readers
  <2>2. ASSUME NEW s \in Clients, NEW k \in Keys
        PROVE  Waiting(s, k)' \subseteq Waiting(s, k) /\ Answering(s, k)' \subseteq Answering(s, k)
    <3>1. /\ DOMAIN in_list' = DOMAIN in_list
          /\ \A i \in DOMAIN in_list : in_list'[i].key = in_list[i].key
      BY <2>1, ForgottenKeys
    <3>2. \A i \in DOMAIN in_list : in_list'[i].sock \in {in_list[i].sock, NULL}
      <4>1. DOMAIN in_list = 1 .. Len(in_list)
        OBVIOUS
      <4> QED BY <2>1, <4>1, ForgetProperties
    <3>3. NULL \notin Clients
      BY PayCheckConstants
    <3> QED BY <2>1, <3>1, <3>2, <3>3 DEF Waiting, Answering
  <2> QED BY <2>1, <2>2, AskLess
<1>11. ASSUME OtherMessage, UNCHANGED <<xmlVars, reboots>>
       PROVE  AskInv'
  <2>1. /\ UNCHANGED <<asked, answered, in_list>>
        /\ \A u \in Threads : at'[u] = "send" => at[u] = "send" /\ to'[u] = to[u] /\ pay'[u] = pay[u]
    BY <1>11 DEF OtherMessage, Got
  <2> QED BY <2>1, AskSame
<1>12. ASSUME Authorization, UNCHANGED <<xmlVars, reboots>>
       PROVE  AskInv'
  <2>1. /\ UNCHANGED <<asked, answered, in_list>>
        /\ \A u \in Threads : at'[u] = "send" => at[u] = "send" /\ to'[u] = to[u] /\ pay'[u] = pay[u]
    BY <1>12 DEF Authorization, Got, Down
  <2> QED BY <2>1, AskSame
<1>13. ASSUME Enqueue, UNCHANGED <<xmlVars, reboots>>
       PROVE  AskInv'
  <2> DEFINE e == [key |-> gd_msg.key, sock |-> gd_sock]
             n == Len(in_list) + 1
  <2>0. gd_msg.key \in Keys /\ gd_sock \in Clients
    BY <1>13, PayCheckConstants DEF Enqueue, MayCheck, Got, HALF, EOF, ClientInv
  <2>1. /\ UNCHANGED <<answered, to, pay>> /\ in_list' = Append(in_list, e)
        /\ asked' = [asked EXCEPT ![gd_sock][gd_msg.key] = @ + 1]
        /\ \A u \in Threads : at'[u] = "send" => at[u] = "send"
    BY <1>13 DEF Enqueue
  <2>2. e \in Entries /\ e.key = gd_msg.key /\ e.sock = gd_sock
    BY <2>0 DEF Entries
  <2> HIDE DEF e
  <2>3. /\ \A i \in DOMAIN in_list' :
             \/ i = n /\ in_list'[i] = e
             \/ i \in DOMAIN in_list /\ in_list'[i] = in_list[i]
        /\ n \notin DOMAIN in_list
    <3>1. DOMAIN in_list = 1 .. Len(in_list) /\ Len(in_list) \in Nat
      OBVIOUS
    <3>2. n \notin DOMAIN in_list
      BY <3>1
    <3> QED BY <2>1, <2>2, <3>2, Appended
  <2> HIDE DEF n
  <2>4. asked' \in [Clients -> [Keys -> Nat]]
    BY <2>0, <2>1 DEF AskInv
  <2>5. ASSUME NEW s \in Clients, NEW k \in Keys PROVE Balance(s, k)'
    <3>1. Answering(s, k)' \subseteq Answering(s, k)
      BY <2>1 DEF Answering
    <3>2. CASE s = gd_sock /\ k = gd_msg.key
      <4>1. Waiting(s, k)' \subseteq Waiting(s, k) \cup {n}
        BY <2>3 DEF Waiting
      <4>2. /\ IsFiniteSet(Waiting(s, k) \cup {n})
            /\ Cardinality(Waiting(s, k) \cup {n}) <= Cardinality(Waiting(s, k)) + 1
        <5>1. /\ IsFiniteSet(Waiting(s, k) \cup {n})
              /\ Cardinality(Waiting(s, k) \cup {n}) =
                   IF n \in Waiting(s, k) THEN Cardinality(Waiting(s, k)) ELSE Cardinality(Waiting(s, k)) + 1
          BY <1>f, FS_AddElement
        <5> QED BY <1>f, <5>1
      <4>3. /\ IsFiniteSet(Waiting(s, k)') /\ Cardinality(Waiting(s, k)') <= Cardinality(Waiting(s, k) \cup {n})
        BY <4>1, <4>2, FS_Subset
      <4>4. /\ IsFiniteSet(Answering(s, k)') /\ Cardinality(Answering(s, k)') <= Cardinality(Answering(s, k))
        BY <1>f, <3>1, FS_Subset
      <4>5. /\ Cardinality(Waiting(s, k)') \in Nat /\ Cardinality(Answering(s, k)') \in Nat
            /\ Cardinality(Waiting(s, k) \cup {n}) \in Nat
        BY <4>2, <4>3, <4>4, FS_CardinalityType
      <4>6. asked'[s][k] = asked[s][k] + 1 /\ answered'[s][k] = answered[s][k]
        BY <2>0, <2>1, <3>2 DEF AskInv
      <4>7. asked[s][k] \in Nat /\ answered[s][k] \in Nat /\ Balance(s, k)
        BY DEF AskInv
      <4>8. Cardinality(Waiting(s, k)') <= Cardinality(Waiting(s, k)) + 1
        BY <1>f, <4>2, <4>3, <4>5
      <4>9. answered[s][k] + Cardinality(Waiting(s, k)) + Cardinality(Answering(s, k)) <= asked[s][k]
        BY <4>7 DEF Balance
      <4>10. answered'[s][k] + Cardinality(Waiting(s, k)') + Cardinality(Answering(s, k)') <= asked'[s][k]
        BY ONLY <1>f, <4>4, <4>5, <4>6, <4>7, <4>8, <4>9
      <4> QED BY <4>10 DEF Balance
    <3>3. CASE ~(s = gd_sock /\ k = gd_msg.key)
      <4>1. Waiting(s, k)' \subseteq Waiting(s, k)
        BY <2>2, <2>3, <3>3 DEF Waiting
      <4>2. asked'[s][k] = asked[s][k]
        BY <2>0, <2>1, <3>3 DEF AskInv
      <4> QED BY <2>1, <3>1, <4>1, <4>2, BalanceLess
    <3> QED BY <3>2, <3>3
  <2> QED BY <2>1, <2>4, <2>5 DEF AskInv
<1>14. ASSUME QueueFull, UNCHANGED <<xmlVars, reboots>>
       PROVE  AskInv'
  <2>1. /\ UNCHANGED <<asked, answered, in_list>>
        /\ \A u \in Threads : at'[u] = "send" => at[u] = "send" /\ to'[u] = to[u] /\ pay'[u] = pay[u]
    BY <1>14 DEF QueueFull, MayCheck, Got, SPay
  <2> QED BY <2>1, AskSame
<1>15. ASSUME TakeCheck, UNCHANGED <<xmlVars, reboots>>
       PROVE  AskInv'
  <2>1. /\ UNCHANGED <<asked, answered, in_list>>
        /\ \A u \in Threads : at'[u] = "send" => at[u] = "send" /\ to'[u] = to[u] /\ pay'[u] = pay[u]
    BY <1>15 DEF TakeCheck, SPay
  <2> QED BY <2>1, AskSame
<1>16. ASSUME Selected, UNCHANGED <<xmlVars, reboots>>
       PROVE  AskInv'
  <2>1. /\ UNCHANGED <<asked, answered, in_list>>
        /\ \A u \in Threads : at'[u] = "send" => at[u] = "send" /\ to'[u] = to[u] /\ pay'[u] = pay[u]
    BY <1>16 DEF Selected, Leave, AlreadyChecked
  <2> QED BY <2>1, AskSame
<1>17. ASSUME Inserted, UNCHANGED <<xmlVars, reboots>>
       PROVE  AskInv'
  <2>1. /\ UNCHANGED <<asked, answered, in_list>>
        /\ \A u \in Threads : at'[u] = "send" => at[u] = "send" /\ to'[u] = to[u] /\ pay'[u] = pay[u]
    BY <1>17 DEF Inserted, Insert, Leave
  <2> QED BY <2>1, AskSame
<1>18. ASSUME Enter("main", "select", "selecting"), UNCHANGED <<pcVars, xmlVars, reboots>>
       PROVE  AskInv'
  <2>1. /\ UNCHANGED <<asked, answered, in_list>>
        /\ \A u \in Threads : at'[u] = "send" => at[u] = "send" /\ to'[u] = to[u] /\ pay'[u] = pay[u]
    BY <1>18 DEF Enter
  <2> QED BY <2>1, AskSame
<1>19. ASSUME Enter("main", "insert", "inserting"), UNCHANGED <<pcVars, xmlVars, reboots>>
       PROVE  AskInv'
  <2>1. /\ UNCHANGED <<asked, answered, in_list>>
        /\ \A u \in Threads : at'[u] = "send" => at[u] = "send" /\ to'[u] = to[u] /\ pay'[u] = pay[u]
    BY <1>19 DEF Enter
  <2> QED BY <2>1, AskSame
<1>20. ASSUME NEW t \in Threads, Find(t), UNCHANGED <<xmlVars, reboots>>
       PROVE  AskInv'
  <2> DEFINE i == Entry(pay[t].key)
             c == IF i = 0 THEN NULL ELSE in_list[i].sock
  <2>1. /\ UNCHANGED <<asked, answered>> /\ at[t] = "find"
        /\ in_list' = (IF i = 0 THEN in_list ELSE RemoveAt(in_list, i))
        /\ to' = [to EXCEPT ![t] = c]
        /\ \/ c = NULL /\ at' = [at EXCEPT ![t] = "loop"] /\ pay' = [pay EXCEPT ![t] = NULL]
           \/ c # NULL /\ at' = [at EXCEPT ![t] = "send"] /\ UNCHANGED pay
    BY <1>20 DEF Find, Done
  <2>2. i = 0 \/ (i \in 1 .. Len(in_list) /\ in_list[i].key = pay[t].key)
    BY EntryProperties
  <2>3. i = 0 => c = NULL
    OBVIOUS
  <2>4. i # 0 => c = in_list[i].sock
    OBVIOUS
  <2> HIDE DEF i, c
  <2>5. CASE i = 0
    <3>1. /\ UNCHANGED in_list
          /\ \A u \in Threads : at'[u] = "send" => at[u] = "send" /\ to'[u] = to[u] /\ pay'[u] = pay[u]
      BY <2>1, <2>3, <2>5
    <3> QED BY <2>1, <3>1, AskSame
  <2>6. CASE i # 0
    <3>1. in_list' = RemoveAt(in_list, i) /\ i \in 1 .. Len(in_list) /\ in_list[i].key = pay[t].key
      BY <2>1, <2>2, <2>6
    <3>2. ASSUME NEW s \in Clients, NEW k \in Keys PROVE Balance(s, k)'
      <4>1. /\ IsFiniteSet(Waiting(s, k)')
            /\ Cardinality(Waiting(s, k)') <= Cardinality(Waiting(s, k) \ {i})
        BY <3>1, WaitingRemoved
      <4>2. /\ IsFiniteSet(Waiting(s, k) \ {i})
            /\ Cardinality(Waiting(s, k) \ {i}) =
                 IF i \in Waiting(s, k) THEN Cardinality(Waiting(s, k)) - 1 ELSE Cardinality(Waiting(s, k))
        BY <1>f, FS_RemoveElement
      <4>3. CASE c = s /\ pay[t].key = k
        <5>1. i \in Waiting(s, k)
          BY <2>4, <2>6, <3>1, <4>3 DEF Waiting
        <5>2. Answering(s, k)' \subseteq Answering(s, k) \cup {t}
          BY <2>1 DEF Answering
        <5>3. /\ IsFiniteSet(Answering(s, k) \cup {t})
              /\ Cardinality(Answering(s, k) \cup {t}) <= Cardinality(Answering(s, k)) + 1
          <6>1. /\ IsFiniteSet(Answering(s, k) \cup {t})
                /\ Cardinality(Answering(s, k) \cup {t}) =
                     IF t \in Answering(s, k) THEN Cardinality(Answering(s, k))
                     ELSE Cardinality(Answering(s, k)) + 1
            BY <1>f, FS_AddElement
          <6> QED BY <1>f, <6>1
        <5>4. /\ IsFiniteSet(Answering(s, k)')
              /\ Cardinality(Answering(s, k)') <= Cardinality(Answering(s, k) \cup {t})
          BY <5>2, <5>3, FS_Subset
        <5>5. /\ Cardinality(Waiting(s, k)') \in Nat /\ Cardinality(Answering(s, k)') \in Nat
              /\ Cardinality(Answering(s, k) \cup {t}) \in Nat /\ Cardinality(Waiting(s, k) \ {i}) \in Nat
          BY <4>1, <4>2, <5>3, <5>4, FS_CardinalityType
        <5>6. asked'[s][k] = asked[s][k] /\ answered'[s][k] = answered[s][k]
          BY <2>1
        <5>7. asked[s][k] \in Nat /\ answered[s][k] \in Nat /\ Balance(s, k)
          BY DEF AskInv
        <5>8. Cardinality(Waiting(s, k)') <= Cardinality(Waiting(s, k)) - 1
          BY <1>f, <4>1, <4>2, <5>1, <5>5
        <5>9. Cardinality(Answering(s, k)') <= Cardinality(Answering(s, k)) + 1
          BY <1>f, <5>3, <5>4, <5>5
        <5>10. Cardinality(Waiting(s, k)) \in Nat /\ Cardinality(Answering(s, k)) \in Nat
          BY <1>f
        <5> QED BY ONLY <5>5, <5>6, <5>7, <5>8, <5>9, <5>10 DEF Balance
      <4>4. CASE ~(c = s /\ pay[t].key = k)
        <5>1. Answering(s, k)' \subseteq Answering(s, k)
          BY <2>1, <4>4 DEF Answering
        <5>2. /\ IsFiniteSet(Answering(s, k)') /\ Cardinality(Answering(s, k)') <= Cardinality(Answering(s, k))
          BY <1>f, <5>1, FS_Subset
        <5>3. /\ Cardinality(Waiting(s, k)') \in Nat /\ Cardinality(Answering(s, k)') \in Nat
              /\ Cardinality(Waiting(s, k) \ {i}) \in Nat
          BY <4>1, <4>2, <5>2, FS_CardinalityType
        <5>4. asked'[s][k] = asked[s][k] /\ answered'[s][k] = answered[s][k]
          BY <2>1
        <5>5. asked[s][k] \in Nat /\ answered[s][k] \in Nat /\ Balance(s, k)
          BY DEF AskInv
        <5>6. Cardinality(Waiting(s, k)') <= Cardinality(Waiting(s, k))
          BY <1>f, <4>1, <4>2, <5>3
        <5>7. Cardinality(Waiting(s, k)) \in Nat /\ Cardinality(Answering(s, k)) \in Nat
          BY <1>f
        <5> QED BY ONLY <5>2, <5>3, <5>4, <5>5, <5>6, <5>7 DEF Balance
      <4> QED BY <4>3, <4>4
    <3> QED BY <2>1, <3>2 DEF AskInv
  <2> QED BY <2>5, <2>6
<1>21. ASSUME NEW t \in Threads, NEW sent \in BOOLEAN, Send(t, sent), UNCHANGED <<xmlVars, reboots>>
       PROVE  AskInv'
  <2> DEFINE c == to[t]
             p == pay[t].key
  <2>1. /\ UNCHANGED <<asked, in_list>> /\ at[t] = "send" /\ c \in Clients /\ p \in Keys
        /\ answered' = [answered EXCEPT ![c][p] = @ + 1]
        /\ at'[t] = "loop" /\ \A u \in Threads : u # t => at'[u] = at[u] /\ to'[u] = to[u] /\ pay'[u] = pay[u]
    BY <1>21 DEF Send, Done
  <2> HIDE DEF c, p
  <2>2. answered' \in [Clients -> [Keys -> Nat]]
    BY <2>1 DEF AskInv
  <2>3. ASSUME NEW s \in Clients, NEW k \in Keys PROVE Balance(s, k)'
    <3>1. Waiting(s, k)' \subseteq Waiting(s, k) /\ Answering(s, k)' \subseteq Answering(s, k)
      BY <2>1 DEF Waiting, Answering
    <3>2. CASE s = c /\ k = p
      <4>1. t \in Answering(s, k) /\ Answering(s, k)' \subseteq Answering(s, k) \ {t}
        BY <2>1, <3>2 DEF Answering, c, p
      <4>2. /\ IsFiniteSet(Answering(s, k) \ {t})
            /\ Cardinality(Answering(s, k) \ {t}) = Cardinality(Answering(s, k)) - 1
        BY <1>f, <4>1, FS_RemoveElement
      <4>3. /\ IsFiniteSet(Answering(s, k)')
            /\ Cardinality(Answering(s, k)') <= Cardinality(Answering(s, k) \ {t})
        BY <4>1, <4>2, FS_Subset
      <4>4. /\ IsFiniteSet(Waiting(s, k)') /\ Cardinality(Waiting(s, k)') <= Cardinality(Waiting(s, k))
        BY <1>f, <3>1, FS_Subset
      <4>5. Cardinality(Waiting(s, k)') \in Nat /\ Cardinality(Answering(s, k)') \in Nat
        BY <4>3, <4>4, FS_CardinalityType
      <4>6. asked'[s][k] = asked[s][k] /\ answered'[s][k] = answered[s][k] + 1
        BY <2>1, <3>2 DEF AskInv
      <4>7. asked[s][k] \in Nat /\ answered[s][k] \in Nat /\ Balance(s, k)
        BY DEF AskInv
      <4>8. Cardinality(Waiting(s, k)) \in Nat /\ Cardinality(Answering(s, k)) \in Nat
        BY <1>f
      <4> QED BY ONLY <4>2, <4>3, <4>4, <4>5, <4>6, <4>7, <4>8 DEF Balance
    <3>3. CASE ~(s = c /\ k = p)
      <4>1. answered'[s][k] = answered[s][k]
        BY <2>1, <3>3 DEF AskInv
      <4> QED BY <2>1, <3>1, <4>1, BalanceLess
    <3> QED BY <3>2, <3>3
  <2> QED BY <2>1, <2>2, <2>3 DEF AskInv
<1>22. ASSUME NEW s \in XSockets, XAccept(s), UNCHANGED <<pcVars, reboots>>
       PROVE  AskInv'
  <2>1. /\ UNCHANGED <<asked, answered, in_list>>
        /\ \A u \in Threads : at'[u] = "send" => at[u] = "send" /\ to'[u] = to[u] /\ pay'[u] = pay[u]
    BY <1>22 DEF XAccept
  <2> QED BY <2>1, AskSame
<1>23. ASSUME NEW s \in active_sock_list, NEW r \in XRequests, XAnswered(s, r), UNCHANGED <<pcVars, reboots>>
       PROVE  AskInv'
  <2>1. /\ UNCHANGED <<asked, answered, in_list>>
        /\ \A u \in Threads : at'[u] = "send" => at[u] = "send" /\ to'[u] = to[u] /\ pay'[u] = pay[u]
    BY <1>23 DEF XAnswered, NextActive
  <2> QED BY <2>1, AskSame
<1>24. ASSUME NEW s \in active_sock_list, NEW k \in Keys, XCheck(s, k), UNCHANGED <<pcVars, reboots>>
       PROVE  AskInv'
  <2>1. /\ UNCHANGED <<asked, answered, in_list>>
        /\ \A u \in Threads : at'[u] = "send" => at[u] = "send" /\ to'[u] = to[u] /\ pay'[u] = pay[u]
    BY <1>24 DEF XCheck, SPay
  <2> QED BY <2>1, AskSame
<1>25. ASSUME XSelected, UNCHANGED <<pcVars, reboots>>
       PROVE  AskInv'
  <2>1. /\ UNCHANGED <<asked, answered, in_list>>
        /\ \A u \in Threads : at'[u] = "send" => at[u] = "send" /\ to'[u] = to[u] /\ pay'[u] = pay[u]
    BY <1>25 DEF XSelected, Leave
  <2> QED BY <2>1, AskSame
<1>26. ASSUME XQueueFull, UNCHANGED <<pcVars, reboots>>
       PROVE  AskInv'
  <2>1. /\ UNCHANGED <<asked, answered, in_list>>
        /\ \A u \in Threads : at'[u] = "send" => at[u] = "send" /\ to'[u] = to[u] /\ pay'[u] = pay[u]
    BY <1>26 DEF XQueueFull, NextActive
  <2> QED BY <2>1, AskSame
<1>27. ASSUME XQueue, UNCHANGED <<pcVars, reboots>>
       PROVE  AskInv'
  <2>1. /\ UNCHANGED <<asked, answered, in_list>>
        /\ \A u \in Threads : at'[u] = "send" => at[u] = "send" /\ to'[u] = to[u] /\ pay'[u] = pay[u]
    BY <1>27 DEF XQueue
  <2> QED BY <2>1, AskSame
<1>28. ASSUME XInserted, UNCHANGED <<pcVars, reboots>>
       PROVE  AskInv'
  <2>1. /\ UNCHANGED <<asked, answered, in_list>>
        /\ \A u \in Threads : at'[u] = "send" => at[u] = "send" /\ to'[u] = to[u] /\ pay'[u] = pay[u]
    BY <1>28 DEF XInserted, Insert, Leave, NextActive
  <2> QED BY <2>1, AskSame
<1>29. ASSUME XTake, UNCHANGED <<pcVars, reboots>>
       PROVE  AskInv'
  <2>1. /\ UNCHANGED <<asked, answered, in_list>>
        /\ \A u \in Threads : at'[u] = "send" => at[u] = "send" /\ to'[u] = to[u] /\ pay'[u] = pay[u]
    BY <1>29 DEF XTake
  <2> QED BY <2>1, AskSame
<1>30. ASSUME XAnswerRepeated, UNCHANGED <<pcVars, reboots>>
       PROVE  AskInv'
  <2>1. /\ UNCHANGED <<asked, answered, in_list>>
        /\ \A u \in Threads : at'[u] = "send" => at[u] = "send" /\ to'[u] = to[u] /\ pay'[u] = pay[u]
    BY <1>30 DEF XAnswerRepeated, NextActive
  <2> QED BY <2>1, AskSame
<1>31. ASSUME Enter("server", "select", "selecting"), UNCHANGED <<pcVars, xmlVars, reboots>>
       PROVE  AskInv'
  <2>1. /\ UNCHANGED <<asked, answered, in_list>>
        /\ \A u \in Threads : at'[u] = "send" => at[u] = "send" /\ to'[u] = to[u] /\ pay'[u] = pay[u]
    BY <1>31 DEF Enter
  <2> QED BY <2>1, AskSame
<1>32. ASSUME NEW ready \in SUBSET connections_store, XSelect(ready), UNCHANGED <<pcVars, reboots>>
       PROVE  AskInv'
  <2>1. /\ UNCHANGED <<asked, answered, in_list>>
        /\ \A u \in Threads : at'[u] = "send" => at[u] = "send" /\ to'[u] = to[u] /\ pay'[u] = pay[u]
    BY <1>32 DEF XSelect
  <2> QED BY <2>1, AskSame
<1>33. ASSUME NEW w \in Workers, XAnswer(w), UNCHANGED <<pcVars, reboots>>
       PROVE  AskInv'
  <2>1. /\ UNCHANGED <<asked, answered, in_list>>
        /\ \A u \in Threads : at'[u] = "send" => at[u] = "send" /\ to'[u] = to[u] /\ pay'[u] = pay[u]
    BY <1>33 DEF XAnswer, Done
  <2> QED BY <2>1, AskSame
<1>34. ASSUME Reboot
       PROVE  AskInv'
  <2>1. /\ UNCHANGED <<asked, answered, in_list>>
        /\ \A u \in Threads : at'[u] = "send" => at[u] = "send" /\ to'[u] = to[u] /\ pay'[u] = pay[u]
    BY <1>34 DEF Reboot, XReboot
  <2> QED BY <2>1, AskSame
<1>35. ASSUME Shutdown
       PROVE  AskInv'
  <2>1. UNCHANGED <<asked, answered>> /\ in_list' = <<>> /\ \A u \in Threads : at'[u] # "send"
    BY <1>35 DEF Shutdown, PCShutdown
  <2>2. ASSUME NEW s \in Clients, NEW k \in Keys
        PROVE  Waiting(s, k)' \subseteq Waiting(s, k) /\ Answering(s, k)' \subseteq Answering(s, k)
    <3>1. DOMAIN in_list' = {}
      BY <2>1
    <3> QED BY <2>1, <3>1 DEF Waiting, Answering
  <2> QED BY <2>1, <2>2, AskLess
<1>36. CASE UNCHANGED vars
  BY <1>36, AskSame
<1> HIDE DEF Threads, vars, checkVars, pcVars, xmlVars, socketVars, listVars, historyVars
<1>37. QED
  BY <1>1, <1>2, <1>3, <1>4, <1>5, <1>6, <1>7, <1>8, <1>9, <1>10, <1>11, <1>12, <1>13, <1>14,
     <1>15, <1>16, <1>17, <1>18, <1>19, <1>20, <1>21, <1>22, <1>23, <1>24, <1>25, <1>26, <1>27,
     <1>28, <1>29, <1>30, <1>31, <1>32, <1>33, <1>34, <1>35, <1>36, XmlCheckConstants
  DEF Next, SharedStep, PayCheckStep, PCNext, PCThread, XmlStep, XNext, XThread

\* What the program starts with.
LEMMA InitInv == Init => TypeInv /\ SocketInv /\ XmlInv /\ OnceInv /\ CodeInv /\ WaitInv /\ AskInv
<1> SUFFICES ASSUME Init PROVE TypeInv /\ SocketInv /\ XmlInv /\ OnceInv /\ CodeInv /\ WaitInv /\ AskInv
  OBVIOUS
<1> USE DEF Init, CheckInit, PCInit, XmlInit
<1>1. "main" \in Threads /\ "server" \in Threads /\ "GetData" \in Threads /\ Workers \subseteq Threads
  BY DEF Threads
<1>2. ThreadInv
  BY <1>1 DEF ThreadInv, Free, Places, MainAt, ServerAt, GetDataAt, WorkerAt
<1>3. ClientInv
  BY <1>1 DEF ClientInv, FdStates
<1>4. SocketInv
  BY <1>1 DEF SocketInv
<1>5. XmlInv
  BY DEF XmlInv, FdStates, Holders, Holds
<1>6. OnceInv
  BY <1>1 DEF OnceInv
<1>7. CodeInv
  BY <1>1 DEF CodeInv
<1>8. WaitInv
  BY CheckConstants DEF WaitInv, RowKept
<1>9. AskInv
  <2>1. \A s, k : Waiting(s, k) = {} /\ Answering(s, k) = {}
    BY DEF Waiting, Answering
  <2>2. Cardinality({}) = 0
    BY FS_EmptySet
  <2>3. ASSUME NEW s \in Clients, NEW k \in Keys PROVE Balance(s, k)
    <3>1. answered[s][k] = 0 /\ asked[s][k] = 0
      OBVIOUS
    <3>2. Cardinality(Waiting(s, k)) = 0 /\ Cardinality(Answering(s, k)) = 0
      BY <2>1, <2>2
    <3> QED BY ONLY <3>1, <3>2 DEF Balance
  <2> QED BY <2>3 DEF AskInv
<1> QED BY <1>2, <1>3, <1>4, <1>5, <1>6, <1>7, <1>8, <1>9 DEF TypeInv

\* Every thread stands where its code can be, with a pay where it needs one, and every list
\* holds what its readers expect, in every state of both front ends.
THEOREM FrontTypeCorrect == Spec => []TypeInv
<1>1. Init => TypeInv
  BY InitInv
<1>2. TypeInv /\ [Next]_vars => TypeInv'
  BY ThreadStep, ClientStep DEF TypeInv
<1> QED BY <1>1, <1>2, PTL DEF Spec

\* No thread ever sends on a socket that was deleted under it: the workers that are in Send
\* keep GetData from deleting the client, and each XML socket belongs to one place at a time.
THEOREM SendAliveCorrect == Spec => []SendAlive
<1>1. Init => SocketInv /\ XmlInv
  BY InitInv
<1>2. TypeInv /\ SocketInv /\ [Next]_vars => SocketInv'
  BY SocketStep DEF TypeInv
<1>3. TypeInv /\ XmlInv /\ [Next]_vars => XmlInv'
  BY XSocketStep DEF TypeInv
<1>4. TypeInv /\ SocketInv /\ XmlInv => SendAlive
  <2> SUFFICES ASSUME TypeInv, SocketInv, XmlInv PROVE SendAlive
    OBVIOUS
  <2>1. \A t \in Threads : at[t] = "send" => fd[to[t]] # "deleted"
    BY DEF SocketInv, Alive
  <2>2. ASSUME NEW t \in Threads \ {"server"}, pay[t] # NULL, pay[t].xml_sock # NULL
        PROVE  xfd[pay[t].xml_sock] = "open"
    <3>1. pay[t] \in PayRecs
      BY <2>2 DEF TypeInv, ThreadInv
    <3>2. pay[t].xml_sock \in XSockets
      BY <2>2, <3>1 DEF PayRecs
    <3> QED BY <2>2, <3>2 DEF XmlInv, Holders, Holds
  <2>3. \A i \in DOMAIN pays : xfd[pays[i].xml_sock] = "open"
    BY DEF XmlInv
  <2> QED BY <2>1, <2>2, <2>3 DEF SendAlive
<1> QED BY <1>1, <1>2, <1>3, <1>4, FrontTypeCorrect, PTL DEF Spec

\* Each front end hands a recorded request to a module at most once, however its lookups,
\* inserts and updates interleave with those of the other front end.
THEOREM CheckedOnceCorrect == Spec => []CheckedOnce
<1>1. Init => OnceInv
  BY InitInv
<1>2. TypeInv /\ OnceInv /\ [Next]_vars => OnceInv'
  BY OnceStep DEF TypeInv
<1>3. OnceInv => CheckedOnce
  BY DEF OnceInv, CheckedOnce
<1> QED BY <1>1, <1>2, <1>3, FrontTypeCorrect, PTL DEF Spec

\* No check of a binary client is lost on its way: as long as it has no result, a queue or a
\* thread has it.  The hypothesis is about the modules: none answers with "unknown".
THEOREM WaitingIsCarriedCorrect ==
  ASSUME UNKNOWN \notin Results
  PROVE  Spec => []WaitingIsCarried
<1>1. Init => CodeInv /\ WaitInv
  BY InitInv
<1>2. TypeInv /\ CodeInv /\ [Next]_vars => CodeInv'
  BY CodeStep DEF TypeInv
<1>3. TypeInv /\ CodeInv /\ WaitInv /\ [Next]_vars => WaitInv'
  BY WaitStep DEF TypeInv
<1>4. TypeInv /\ CodeInv /\ WaitInv => WaitingIsCarried
  <2> SUFFICES ASSUME TypeInv, CodeInv, WaitInv, reboots = 0, NEW i \in DOMAIN in_list,
                      in_list[i].key \notin xasked \cup {NoId},
                      check_reqs[in_list[i].key] \in {NULL, UNKNOWN}
               PROVE  Carried(in_list[i].key)
    BY DEF WaitingIsCarried
  <2> DEFINE k == in_list[i].key
  <2>1. k \in Keys
    <3>1. in_list[i] \in Entries
      BY ElementOfSeq DEF TypeInv, ClientInv
    <3> QED BY <3>1 DEF Entries
  <2>2. at["main"] # "end"
    BY DEF CodeInv
  <2>3. RowKept(k)
    BY <2>1, <2>2 DEF WaitInv
  <2> HIDE DEF k
  <2>4. \A t \in Threads : at[t] \notin Free => pay[t] # NULL
    BY DEF TypeInv, ThreadInv
  <2>5. CASE check_reqs[k] = UNKNOWN
    <3>1. PICK t \in Carriers : at[t] \in {"ready", "run", "update", "updating"} /\ pay[t].key = k
      BY <2>3, <2>5 DEF RowKept, InHand
    <3> QED BY <2>4, <3>1 DEF Carried, Carriers, Threads, Free, k
  <2>6. CASE check_reqs[k] = NULL
    <3>1. OnItsWay(k)
      BY <2>3, <2>6 DEF RowKept, k
    <3> QED BY <2>4, <3>1 DEF OnItsWay, Carried, Threads, Free, k
  <2> QED BY <2>5, <2>6 DEF k
<1> QED BY <1>1, <1>2, <1>3, <1>4, FrontTypeCorrect, PTL DEF Spec

\* A client never gets more answers to a request than it has asked, however often the request
\* is repeated and whichever thread finds its entry in in_list first.
THEOREM AnswersAskedCorrect == Spec => []AnswersAsked
<1>1. Init => AskInv
  BY InitInv
<1>2. TypeInv /\ AskInv /\ [Next]_vars => AskInv'
  BY AskStep DEF TypeInv
<1>3. TypeInv /\ AskInv => AnswersAsked
  <2> SUFFICES ASSUME TypeInv, AskInv, NEW s \in Clients, NEW k \in Keys
               PROVE  answered[s][k] <= asked[s][k]
    BY DEF AnswersAsked
  <2>1. Cardinality(Waiting(s, k)) \in Nat /\ Cardinality(Answering(s, k)) \in Nat
    BY AskFinite DEF TypeInv, ClientInv
  <2>2. answered[s][k] \in Nat /\ asked[s][k] \in Nat /\ Balance(s, k)
    BY DEF AskInv
  <2> QED BY <2>1, <2>2 DEF Balance
<1> QED BY <1>1, <1>2, <1>3, FrontTypeCorrect, PTL DEF Spec
=============================================================================
