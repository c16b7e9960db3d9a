------------------------------ MODULE PayCheck ------------------------------
(***************************************************************************)
(* The binary front end of online checks (paycheck.cpp over                *)
(* uremote_socket.cpp): ConnectionManager accepts clients and takes down   *)
(* those that do not talk, GetData reads one client at a time, main takes  *)
(* checks off in_cash_list and a worker's PCSetState answers the client    *)
(* that in_list names.                                                     *)
(*                                                                         *)
(* A critical section of pc_lock is one action, except that of GetData     *)
(* dropping a client: it waits for socklist_delete, whose readers are the  *)
(* threads inside Send, with pc_lock held.                                 *)
(***************************************************************************)
EXTENDS CheckReqs

CONSTANTS
  Clients,              \* sockets, one per connection
  Messages,             \* what clients send: records with the field type
  Users,                \* login -> levels of access -> password
  max_queue,            \* limit of in_list
  MaxClients            \* limit of sock_list (500 in the code)

ASSUME PayCheckConstants ==
  /\ NULL \notin Clients \cup Messages
  /\ \A m \in Messages : m.type = "check" => m.key \in Keys

VARIABLES
  sock_list, sock_num,
  fd,                   \* "none", "open", "down" (socket_id = -1), "deleted"
  error, reading, read_possible, auth,   \* fields of CSocketRW, CPayguideClient
  in_list, in_cash_list,
  pc_lock,              \* GetData while it drops a client, else NULL
  gd_sock, gd_msg,      \* locals of GetData
  to,                   \* the socket a thread sends an answer to
  arrived, asked, answered, launched   \* history: pieces of data, requests, answers, checks

socketVars == <<fd, error, reading, read_possible, auth>>
listVars   == <<sock_list, in_list, in_cash_list>>
historyVars == <<arrived, asked, answered, launched>>
pcVars == <<socketVars, listVars, sock_num, pc_lock, gd_sock, gd_msg, to, historyVars>>

AUTH_PAYCHECK == 2

\* Part of a frame; the peer has closed the connection.
HALF == [type |-> "half"]
EOF == [type |-> "eof"]

Connected(s) == fd' = [fd EXCEPT ![s] = "open"]   \* CRemoteSocket::Accept
Down(s) == fd' = [fd EXCEPT ![s] = "down"]        \* CRemoteSocket::Down

\* Variant of Readers: PCSetState does not lock socklist_delete.
NoReaders == {}

Readers == {t \in Threads : at[t] = "send"}   \* of socklist_delete

PCInit ==
  /\ sock_list = <<>> /\ in_list = <<>> /\ in_cash_list = <<>>
  /\ sock_num = 0
  /\ fd = [s \in Clients |-> "none"]
  /\ error = [s \in Clients |-> FALSE] /\ reading = [s \in Clients |-> FALSE]
  /\ read_possible = [s \in Clients |-> FALSE]
  /\ auth = [s \in Clients |-> 0]
  /\ pc_lock = NULL
  /\ gd_sock = NULL /\ gd_msg = NULL /\ to = [t \in Threads |-> NULL]
  /\ arrived = 0 /\ launched = [k \in Keys |-> 0]
  /\ asked = [s \in Clients |-> [k \in Keys |-> 0]]
  /\ answered = [s \in Clients |-> [k \in Keys |-> 0]]

-----------------------------------------------------------------------------
(* ConnectionManager.                                                       *)

\* ConnectionManager has accepted a connection.
Accept(s) ==
  /\ pc_lock = NULL /\ fd[s] = "none" /\ Len(sock_list) < MaxClients
  /\ Connected(s)
  /\ sock_list' = Append(sock_list, s)
  /\ UNCHANGED <<checkVars, error, reading, read_possible, auth, in_list,
                 in_cash_list, sock_num, pc_lock, gd_sock, gd_msg, to, historyVars>>

\* Nobody to accept: a client that has sat too long in the middle of a frame or without
\* authorization is taken down.  It stays in sock_list.
TimeOut(s) ==
  /\ pc_lock = NULL /\ s \in ToSet(sock_list) /\ fd[s] = "open"
  /\ reading[s] \/ auth[s] = 0
  /\ Down(s)
  /\ UNCHANGED <<checkVars, error, reading, read_possible, auth, listVars, sock_num, pc_lock,
                 gd_sock, gd_msg, to, historyVars>>

-----------------------------------------------------------------------------
(* GetData.                                                                 *)

\* readmultiselect asks the sockets that have a descriptor, of which some have data; the
\* others keep what the last call has found.
ReadMultiSelect(ready) ==
  [s \in Clients |-> IF s \in ToSet(sock_list) /\ fd[s] = "open" THEN s \in ready ELSE read_possible[s]]

\* One round: if there is something to read, the next client in turn is looked at.
Pick(ready) ==
  /\ at["GetData"] = "loop" /\ pc_lock = NULL
  /\ ready # {} /\ \A s \in ready : s \in ToSet(sock_list) /\ fd[s] = "open"
  /\ read_possible' = ReadMultiSelect(ready)
  /\ sock_num' = IF sock_num \in 1..(Len(sock_list) - 1) THEN sock_num + 1 ELSE 1
  /\ gd_sock' = sock_list[sock_num']
  /\ at' = [at EXCEPT !["GetData"] = IF read_possible'[gd_sock'] THEN "receive" ELSE "loop"]
  /\ arrived' = IF read_possible'[gd_sock'] THEN arrived + 1 ELSE arrived
  /\ UNCHANGED <<check_reqs, db_lock_checkreqs, inside, pay, fd, error, reading, auth, listVars,
                 pc_lock, gd_msg, to, asked, answered, launched>>

\* CSocketRW::Receive of what one recv call returns; nothing comes from a socket that was
\* taken down meanwhile.
Receive(chunk) ==
  /\ at["GetData"] = "receive"
  /\ fd[gd_sock] # "open" => chunk = EOF
  /\ gd_msg' = chunk
  /\ error' = [error EXCEPT ![gd_sock] = chunk = EOF]
  /\ reading' = [reading EXCEPT ![gd_sock] = chunk = HALF]
  /\ at' = [at EXCEPT !["GetData"] = "err"]
  /\ UNCHANGED <<check_reqs, db_lock_checkreqs, inside, pay, fd, read_possible, auth, listVars,
                 sock_num, pc_lock, gd_sock, to, historyVars>>

\* sock->Err() is asked after Receive: a worker whose Send failed meanwhile has set it.
Refuse ==
  /\ at["GetData"] = "err" /\ pc_lock = NULL
  /\ error[gd_sock] \/ gd_msg = EOF
  /\ pc_lock' = "GetData"
  /\ at' = [at EXCEPT !["GetData"] = "drop"]
  /\ UNCHANGED <<check_reqs, db_lock_checkreqs, inside, pay, socketVars, listVars, sock_num,
                 gd_sock, gd_msg, to, historyVars>>

Forget(list, s) == [i \in DOMAIN list |-> IF list[i].sock = s THEN [list[i] EXCEPT !.sock = NULL] ELSE list[i]]

\* Variant of DropClient: the client's checks leave in_cash_list as well.
DropClientAndChecks ==
  /\ at["GetData"] = "drop" /\ Readers = {}
  /\ fd' = [fd EXCEPT ![gd_sock] = "deleted"]
  /\ reading' = [reading EXCEPT ![gd_sock] = FALSE]
  /\ sock_list' = RemoveFirst(sock_list, gd_sock)
  /\ in_list' = Forget(in_list, gd_sock)
  /\ in_cash_list' = SelectSeq(in_cash_list, LAMBDA e : e.sock # gd_sock)
  /\ pc_lock' = NULL /\ gd_sock' = NULL /\ gd_msg' = NULL
  /\ at' = [at EXCEPT !["GetData"] = "loop"]
  /\ UNCHANGED <<check_reqs, db_lock_checkreqs, inside, pay, error, read_possible, auth, sock_num, to,
                 historyVars>>

\* With socklist_delete write locked: the client is deleted and no list names it.
DropClient ==
  /\ at["GetData"] = "drop" /\ Readers = {}
  /\ fd' = [fd EXCEPT ![gd_sock] = "deleted"]
  /\ reading' = [reading EXCEPT ![gd_sock] = FALSE]
  /\ sock_list' = RemoveFirst(sock_list, gd_sock)
  /\ in_list' = Forget(in_list, gd_sock) /\ in_cash_list' = Forget(in_cash_list, gd_sock)
  /\ pc_lock' = NULL /\ gd_sock' = NULL /\ gd_msg' = NULL
  /\ at' = [at EXCEPT !["GetData"] = "loop"]
  /\ UNCHANGED <<check_reqs, db_lock_checkreqs, inside, pay, error, read_possible, auth,
                 sock_num, to, historyVars>>

\* The best level whose password in the file is the one given; 0: no access.
GetAuthorization(login, password) ==
  LET ok == {l \in 1..4 : login \in DOMAIN Users /\ Users[login][l] = password}
  IN IF ok = {} THEN 0 ELSE CHOOSE l \in ok : \A m \in ok : m <= l

Got(type) == at["GetData"] = "err" /\ ~error[gd_sock] /\ gd_msg.type = type

\* Half of a frame, a request that changes nothing here (PING, GETUSERS, SIGN, UNSIGN, a
\* command for ExecCmd), or a check by a client without the right to it.
OtherMessage ==
  /\ \/ Got("half")
     \/ Got("other")
     \/ Got("check") /\ auth[gd_sock] < AUTH_PAYCHECK
  /\ at' = [at EXCEPT !["GetData"] = "loop"] /\ gd_sock' = NULL /\ gd_msg' = NULL
  /\ UNCHANGED <<check_reqs, db_lock_checkreqs, inside, pay, socketVars, listVars, sock_num, pc_lock,
                 to, historyVars>>

\* NETTYPE_AUTHORIZATION: a wrong password takes the socket down.
Authorization ==
  /\ Got("auth")
  /\ at' = [at EXCEPT !["GetData"] = "loop"] /\ gd_sock' = NULL /\ gd_msg' = NULL
  /\ LET level == GetAuthorization(gd_msg.login, gd_msg.password)
     IN IF level = 0
        THEN Down(gd_sock) /\ UNCHANGED auth
        ELSE auth' = [auth EXCEPT ![gd_sock] = level] /\ UNCHANGED fd
  /\ UNCHANGED <<check_reqs, db_lock_checkreqs, inside, pay, error, reading, read_possible,
                 listVars, sock_num, pc_lock, to, historyVars>>

MayCheck == Got("check") /\ auth[gd_sock] >= AUTH_PAYCHECK /\ pc_lock = NULL

\* A check goes into both lists.
Enqueue ==
  /\ MayCheck /\ Len(in_list) < max_queue
  /\ in_list' = Append(in_list, [key |-> gd_msg.key, sock |-> gd_sock])
  /\ in_cash_list' = Append(in_cash_list, [key |-> gd_msg.key, sock |-> gd_sock])
  /\ asked' = [asked EXCEPT ![gd_sock][gd_msg.key] = @ + 1]
  /\ at' = [at EXCEPT !["GetData"] = "loop"] /\ gd_sock' = NULL /\ gd_msg' = NULL
  /\ UNCHANGED <<check_reqs, db_lock_checkreqs, inside, pay, socketVars, sock_list, sock_num,
                 pc_lock, to, arrived, answered, launched>>

\* The queue is full: PCSetState looks the refused request up in in_list, where it is not.
QueueFull ==
  /\ MayCheck /\ Len(in_list) >= max_queue
  /\ pay' = [pay EXCEPT !["GetData"] = [SPay(gd_msg.key, NULL) EXCEPT !.code = QUEUE_FULL]]
  /\ at' = [at EXCEPT !["GetData"] = IF gd_msg.key = NoId THEN "find" ELSE "update"]
  /\ gd_sock' = NULL /\ gd_msg' = NULL
  /\ UNCHANGED <<check_reqs, db_lock_checkreqs, inside, socketVars, listVars, sock_num, pc_lock,
                 to, historyVars>>
-----------------------------------------------------------------------------
(* Main and the workers.                                                    *)

\* PCGetNextPay takes the first check; one with id 0 is not looked up.
TakeCheck ==
  /\ at["main"] = "loop" /\ pc_lock = NULL /\ in_cash_list # <<>>
  /\ pay' = [pay EXCEPT !["main"] = SPay(Head(in_cash_list).key, NULL)]
  /\ in_cash_list' = Tail(in_cash_list)
  /\ at' = [at EXCEPT !["main"] = IF Head(in_cash_list).key = NoId THEN "ready" ELSE "select"]
  /\ UNCHANGED <<check_reqs, db_lock_checkreqs, inside, socketVars, sock_list, in_list, sock_num,
                 pc_lock, gd_sock, gd_msg, to, historyVars>>

\* Variant of AlreadyChecked: a request that has no result yet is checked once more.
HasResult(k) == check_reqs[k] \notin {NULL, UNKNOWN}

\* There is a row, with or without a result.
AlreadyChecked(k) == check_reqs[k] # NULL

\* A repeated request is dropped without an answer: error_code is still -1.
Selected ==
  /\ at["main"] = "selecting"
  /\ Leave("main")
  /\ IF AlreadyChecked(pay["main"].key)
     THEN /\ at' = [at EXCEPT !["main"] = "loop"] /\ pay' = [pay EXCEPT !["main"] = NULL]
     ELSE at' = [at EXCEPT !["main"] = "insert"] /\ UNCHANGED pay
  /\ UNCHANGED <<check_reqs, pcVars>>

\* The request is recorded, in a critical section of its own.
Inserted ==
  /\ at["main"] = "inserting"
  /\ Insert(pay["main"].key)
  /\ Leave("main")
  /\ at' = [at EXCEPT !["main"] = "ready"]
  /\ launched' = [launched EXCEPT ![pay["main"].key] = @ + 1]
  /\ UNCHANGED <<pay, socketVars, listVars, sock_num, pc_lock, gd_sock, gd_msg, to, arrived, asked,
                 answered>>

Entry(k) == SelectInSeq(in_list, LAMBDA e : e.key = k)

\* Variant of Find: the entry stays in in_list.
FindKeepsEntry(t) ==
  /\ at[t] = "find" /\ pc_lock = NULL
  /\ LET i == Entry(pay[t].key)
         s == IF i = 0 THEN NULL ELSE in_list[i].sock
     IN /\ to' = [to EXCEPT ![t] = s]
        /\ IF s = NULL THEN Done(t) ELSE at' = [at EXCEPT ![t] = "send"] /\ UNCHANGED pay
  /\ UNCHANGED <<check_reqs, db_lock_checkreqs, inside, socketVars, sock_list, in_list, in_cash_list,
                 sock_num, pc_lock, gd_sock, gd_msg, historyVars>>

\* PCSetState: the first entry with the id and the terminal of the pay is removed; its
\* socket is read locked before pc_lock is released.
Find(t) ==
  /\ at[t] = "find" /\ pc_lock = NULL
  /\ LET i == Entry(pay[t].key)
         s == IF i = 0 THEN NULL ELSE in_list[i].sock
     IN /\ in_list' = IF i = 0 THEN in_list ELSE RemoveAt(in_list, i)
        /\ to' = [to EXCEPT ![t] = s]
        /\ IF s = NULL THEN Done(t) ELSE at' = [at EXCEPT ![t] = "send"] /\ UNCHANGED pay
  /\ UNCHANGED <<check_reqs, db_lock_checkreqs, inside, socketVars, sock_list, in_cash_list, sock_num,
                 pc_lock, gd_sock, gd_msg, historyVars>>

\* CSocketRW::Send; a socket that is down or cannot be written to takes nothing.
Send(t, sent) ==
  /\ at[t] = "send"
  /\ sent => fd[to[t]] = "open"
  /\ error' = [error EXCEPT ![to[t]] = IF fd[to[t]] = "open" THEN ~sent ELSE @]
  /\ answered' = [answered EXCEPT ![to[t]][pay[t].key] = @ + 1]
  /\ to' = [to EXCEPT ![t] = NULL]
  /\ Done(t)
  /\ UNCHANGED <<check_reqs, db_lock_checkreqs, inside, fd, reading, read_possible, auth,
                 listVars, sock_num, pc_lock, gd_sock, gd_msg, arrived, asked, launched>>

\* PCShutdown at the end of main, when no worker is left: both threads have ended.
PCShutdown ==
  /\ at["GetData"] = "loop" /\ \A w \in Workers : at[w] = "loop"
  /\ at' = [t \in Threads |-> "end"] /\ pay' = [t \in Threads |-> NULL]
  /\ fd' = [s \in Clients |-> IF s \in ToSet(sock_list) THEN "deleted" ELSE fd[s]]
  /\ sock_list' = <<>> /\ in_list' = <<>> /\ in_cash_list' = <<>>
  /\ UNCHANGED <<check_reqs, db_lock_checkreqs, inside, error, reading, read_possible, auth, sock_num,
                 pc_lock, gd_sock, gd_msg, to, historyVars>>

PCThread ==
  \/ \E ready \in SUBSET Clients : Pick(ready)
  \/ \E chunk \in Messages \cup {HALF, EOF} : Receive(chunk)
  \/ Refuse \/ DropClient \/ OtherMessage \/ Authorization \/ Enqueue \/ QueueFull
  \/ TakeCheck \/ Selected \/ Inserted
  \/ (Enter("main", "select", "selecting") \/ Enter("main", "insert", "inserting")) /\ UNCHANGED pcVars
  \/ \E t \in Threads : Find(t) \/ \E sent \in BOOLEAN : Send(t, sent)

PCNext ==
  \/ \E s \in Clients : Accept(s) \/ TimeOut(s)
  \/ PCThread
=============================================================================
