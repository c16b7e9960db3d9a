------------------------------ MODULE XmlCheck ------------------------------
(***************************************************************************)
(* The XML front end of online checks (cserver.cc, cpaycheckcore.cc and    *)
(* csocket.cc): one server thread, one request per connection.  A check    *)
(* that was seen before is answered from check_reqs at once, a new one is  *)
(* queued together with its socket and a worker's XMLSetState answers it   *)
(* and deletes the socket.                                                 *)
(*                                                                         *)
(* Sockets wait for the server in two queues, whose order nothing depends  *)
(* on: they are sets.                                                      *)
(***************************************************************************)
EXTENDS CheckReqs

CONSTANTS
  XSockets,             \* sockets, one per connection
  XRequests,            \* what a client sends, "eof" if it leaves: records with the field type
  MaxPays               \* limit of pays (1024 in the code)

ASSUME XmlCheckConstants ==
  /\ NULL \notin XSockets
  /\ NULL \notin [key : Keys, xml_sock : XSockets \cup {NULL},
                 code : Results \cup {UNKNOWN, QUEUE_FULL, NULL}]
  /\ \A r \in XRequests : r.type = "check" => r.key \in Keys

VARIABLES
  connections_store, active_sock_list, delete_now, pays,
  xfd,                  \* "none", "open", "down" (socket_id = -1), "deleted"
  xasked,               \* history: requests that clients have asked
  xlaunched             \* history: how often each request was queued

xmlVars == <<connections_store, active_sock_list, delete_now, pays, xfd, xasked, xlaunched>>

XmlInit ==
  /\ connections_store = {} /\ active_sock_list = {} /\ delete_now = 1 /\ pays = <<>>
  /\ xfd = [s \in XSockets |-> "none"] /\ xasked = {}
  /\ xlaunched = [k \in Keys |-> 0]

\* The listener is ready: a client joins the store.
XAccept(s) ==
  /\ at["server"] = "loop" /\ xfd[s] = "none"
  /\ xfd' = [xfd EXCEPT ![s] = "open"]
  /\ connections_store' = connections_store \cup {s}
  /\ UNCHANGED <<checkVars, active_sock_list, delete_now, pays, xasked, xlaunched>>

\* readmultiselect moves the sockets with data out of the store.
XSelect(ready) ==
  /\ at["server"] = "loop" /\ ready # {}
  /\ active_sock_list' = ready
  /\ connections_store' = connections_store \ ready
  /\ delete_now' = 1
  /\ at' = [at EXCEPT !["server"] = "pass"]
  /\ UNCHANGED <<check_reqs, db_lock_checkreqs, inside, pay, pays, xfd, xasked, xlaunched>>

\* The server is through with active socket s; the pass goes on.
NextActive(s) ==
  /\ active_sock_list' = active_sock_list \ {s}
  /\ at' = [at EXCEPT !["server"] = IF active_sock_list' = {} THEN "loop" ELSE "pass"]
  /\ pay' = [pay EXCEPT !["server"] = NULL]

\* CSocket::Receive has returned -1: the client has left.
Lost(r) == r.type = "eof"

\* What becomes of the socket after GenericError or SimpleAnswer (ForceDown), or after
\* nothing if the client was lost, unless Execute deletes it.
Left(r, state) == IF Lost(r) THEN state ELSE "down"

\* A request that is answered without a check: another method, no or an unknown action, a
\* missing parameter, an operator that is not allowed, or a status report.  delete_now is
\* what Xml2PayguideFormat returned, or what it was before if it was not called.
XAnswered(s, r) ==
  /\ at["server"] = "pass" /\ r.type # "check"
  /\ delete_now' = IF Lost(r) \/ r.type = "method" THEN delete_now ELSE -1
  /\ xfd' = [xfd EXCEPT ![s] = IF delete_now' # 0 THEN "deleted" ELSE Left(r, @)]
  /\ NextActive(s)
  /\ UNCHANGED <<check_reqs, db_lock_checkreqs, inside, connections_store, pays, xasked, xlaunched>>

\* action=check: CompileNewPay, then the lookup.
XCheck(s, k) ==
  /\ at["server"] = "pass"
  /\ pay' = [pay EXCEPT !["server"] = SPay(k, s)]
  /\ xasked' = xasked \cup {k}
  /\ at' = [at EXCEPT !["server"] = "select"]
  /\ UNCHANGED <<check_reqs, db_lock_checkreqs, inside, connections_store, active_sock_list, delete_now,
                 pays, xfd, xlaunched>>

\* The stored result, or "unknown", becomes the answer.
XSelected ==
  /\ at["server"] = "selecting"
  /\ Leave("server")
  /\ LET row == check_reqs[pay["server"].key]
     IN IF row # NULL
        THEN /\ pay' = [pay EXCEPT !["server"].code = row]
             /\ at' = [at EXCEPT !["server"] = "update"]
        ELSE at' = [at EXCEPT !["server"] = "queue"] /\ UNCHANGED pay
  /\ UNCHANGED <<check_reqs, xmlVars>>

\* The queue is full: an error is answered; db_lock_checkreqs is released though not held.
XQueueFull ==
  /\ at["server"] = "queue" /\ Len(pays) >= MaxPays
  /\ delete_now' = -1
  /\ xfd' = [xfd EXCEPT ![pay["server"].xml_sock] = "deleted"]
  /\ db_lock_checkreqs' = db_lock_checkreqs + 1
  /\ NextActive(pay["server"].xml_sock)
  /\ UNCHANGED <<check_reqs, inside, connections_store, pays, xasked, xlaunched>>

\* The pay is queued and then inserted, on the connection but without its lock.
XQueue ==
  /\ at["server"] = "queue" /\ Len(pays) < MaxPays
  /\ pays' = Append(pays, pay["server"])
  /\ xlaunched' = [xlaunched EXCEPT ![pay["server"].key] = @ + 1]
  /\ inside' = inside \cup {"server"}
  /\ at' = [at EXCEPT !["server"] = "inserting"]
  /\ UNCHANGED <<check_reqs, db_lock_checkreqs, pay, connections_store, active_sock_list, delete_now,
                 xfd, xasked>>

\* The insert is done, the lock is released once more than it was taken.
XInserted ==
  /\ at["server"] = "inserting"
  /\ Insert(pay["server"].key)
  /\ Leave("server")
  /\ delete_now' = 0
  /\ NextActive(pay["server"].xml_sock)
  /\ UNCHANGED <<connections_store, pays, xfd, xasked, xlaunched>>

\* XMLGetNextPay; the server has queue_lock from the queueing of a pay to its insertion.
XTake ==
  /\ at["main"] = "loop" /\ pays # <<>> /\ at["server"] # "inserting"
  /\ pay' = [pay EXCEPT !["main"] = Head(pays)] /\ pays' = Tail(pays)
  /\ at' = [at EXCEPT !["main"] = "ready"]
  /\ UNCHANGED <<check_reqs, db_lock_checkreqs, inside, connections_store, active_sock_list,
                 delete_now, xfd, xasked, xlaunched>>

\* The end of XMLSetState in a worker: the answer is sent and the socket deleted.
XAnswer(w) ==
  /\ at[w] = "answer"
  /\ xfd' = [xfd EXCEPT ![pay[w].xml_sock] = "deleted"]
  /\ Done(w)
  /\ UNCHANGED <<check_reqs, db_lock_checkreqs, inside, connections_store, active_sock_list,
                 delete_now, pays, xasked, xlaunched>>

\* The same in the server, for a request that was seen before: the lock is released once
\* more, and Execute deletes the socket a second time.
XAnswerRepeated ==
  /\ at["server"] = "answer"
  /\ xfd' = [xfd EXCEPT ![pay["server"].xml_sock] = "deleted"]
  /\ db_lock_checkreqs' = db_lock_checkreqs + 1
  /\ delete_now' = -1
  /\ NextActive(pay["server"].xml_sock)
  /\ UNCHANGED <<check_reqs, inside, connections_store, pays, xasked, xlaunched>>

\* A reboot between two pays: the server ends, and what is queued or in main's hands is
\* lost with paycheck_core.
XReboot ==
  /\ at["server"] = "loop" /\ at["main"] \in {"loop", "ready"} /\ \A w \in Workers : at[w] = "loop"
  /\ xfd' = [s \in XSockets |-> IF s \in connections_store THEN "deleted" ELSE xfd[s]]
  /\ connections_store' = {} /\ pays' = <<>>
  /\ at' = [at EXCEPT !["main"] = "loop"] /\ pay' = [pay EXCEPT !["main"] = NULL]
  /\ UNCHANGED <<check_reqs, db_lock_checkreqs, inside, active_sock_list, delete_now, xasked, xlaunched>>

XThread ==
  \/ \E s \in active_sock_list, r \in XRequests :
       XAnswered(s, r) \/ (r.type = "check" /\ XCheck(s, r.key))
  \/ XSelected \/ XQueueFull \/ XQueue \/ XInserted \/ XTake
  \/ XAnswerRepeated
  \/ Enter("server", "select", "selecting") /\ UNCHANGED xmlVars
  \/ \E ready \in SUBSET connections_store : XSelect(ready)
  \/ \E w \in Workers : XAnswer(w)

XNext ==
  \/ \E s \in XSockets : XAccept(s)
  \/ XThread
=============================================================================
