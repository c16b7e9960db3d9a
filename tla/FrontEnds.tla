----------------------------- MODULE FrontEnds ------------------------------
(***************************************************************************)
(* Both front ends of online checks, with main and the workers they share. *)
(* Main asks the XML front end first.                                      *)
(***************************************************************************)
EXTENDS PayCheck, XmlCheck

CONSTANT Traffic        \* bound: pieces of binary data and XML connections in a behaviour

VARIABLES reboots

vars == <<checkVars, pcVars, xmlVars, reboots>>

Init == CheckInit /\ PCInit /\ XmlInit /\ reboots = 0

SharedStep ==
  /\ \/ \E t \in Threads : SetStateEnter(t) \/ SetStateLeave(t)
     \/ \E w \in Workers : Launch(w) \/ \E r \in Results : DBSetState(w, r)
  /\ UNCHANGED <<pcVars, xmlVars, reboots>>

PayCheckStep ==
  /\ PCNext
  /\ at["main"] = "loop" /\ at'["main"] # "loop" => pays = <<>>
  /\ UNCHANGED <<xmlVars, reboots>>

XmlStep == XNext /\ UNCHANGED <<pcVars, reboots>>

Bounded == arrived' + Cardinality({s \in XSockets : xfd'[s] # "none"}) <= Traffic

Reboot == reboots = 0 /\ XReboot /\ reboots' = 1 /\ UNCHANGED pcVars

\* Normal exit of main.
Shutdown ==
  /\ at["main"] \in {"loop", "ready"} /\ at["server"] = "loop"
  /\ PCShutdown /\ UNCHANGED <<xmlVars, reboots>>

Next ==
  \/ SharedStep \/ Reboot \/ Shutdown
  \/ (PayCheckStep \/ XmlStep) /\ Bounded
  \/ at["main"] = "end" /\ UNCHANGED vars

Spec == Init /\ [][Next]_vars

-----------------------------------------------------------------------------
(* Properties.                                                              *)

\* No thread sends on a socket that was deleted under it: a worker in Send holds
\* socklist_delete, a check keeps its XML socket until the answer.
SendAlive ==
  /\ \A t \in Threads : at[t] = "send" => fd[to[t]] # "deleted"
  /\ \A t \in Threads \ {"server"} : pay[t] # NULL /\ pay[t].xml_sock # NULL =>
       xfd[pay[t].xml_sock] = "open"
  /\ \A i \in DOMAIN pays : xfd[pays[i].xml_sock] = "open"

Carried(k) ==
  \/ \E i \in DOMAIN in_cash_list : in_cash_list[i].key = k
  \/ \E i \in DOMAIN pays : pays[i].key = k
  \/ \E t \in Threads : pay[t] # NULL /\ pay[t].key = k

\* A client waits in in_list for a check without a result only as long as somebody still
\* carries that check, unless the same request came through XML: no check is lost on its
\* way from GetData to a module.
WaitingIsCarried ==
  reboots = 0 => \A i \in DOMAIN in_list :
    LET k == in_list[i].key
    IN k \notin xasked \cup {NoId} /\ check_reqs[k] \in {NULL, UNKNOWN} => Carried(k)

\* A front end gives a request to a module once, however often clients repeat it, also
\* while the first check is under way.
CheckedOnce == \A k \in Keys \ {NoId} : launched[k] <= 1 /\ xlaunched[k] <= 1

\* A client gets no more answers to a request than it has asked.
AnswersAsked == \A s \in Clients, k \in Keys : answered[s][k] <= asked[s][k]
=============================================================================
