-------------------------------- MODULE Upgm --------------------------------
(***************************************************************************)
(* The engine of UPGM modules (src/src): performStage runs the sections of *)
(* a scheme, entry by entry, through hooks until the payment has a result. *)
(* The scheme keeps the stage of a payment in a table of its own, so that  *)
(* a later attempt goes on where the last one stopped.                     *)
(*                                                                         *)
(* All payments of a module share one MySQL connection and its lock; each  *)
(* attempt has hooks of its own: the record u of the payment's thread.     *)
(* A text is a name; a template evaluated with its arguments, and a text   *)
(* that was escaped or recoded, is a record that says so.                  *)
(***************************************************************************)
EXTENDS Integers, Sequences

CONSTANTS
  Payments,
  Scheme,       \* section -> sequence of entries [param, value]
  MainConfig,   \* section "main" of the configuration: transport, parser, db
  HookConfig,   \* hook -> its section of the configuration
  UserHooks,    \* hooks that registerUserHooks adds
  Codes,        \* codes.cfg: code -> section
  PayData,      \* payment -> field -> value
  Answers,      \* what the provider may answer, by request: sets of parsed trees
  Faults,       \* bound: failures and crashes in a behaviour
  NULL

\* NULL is no place outside, no result and no row.
ASSUME NullIsNothing ==
  NULL \notin {"connect", "send", "log", "SUCESS"} /\ NULL \notin [stage : Nat, session : Nat]

VARIABLES
  pc, u,        \* where the thread of a payment stands; its UPGM and Payment objects
  reported,     \* the last SPayResult of each payment
  lock, server, \* of the shared connection: its holder; is the MySQL server there
  row, session, \* the scheme's table, and its AUTO_INCREMENT
  accepted, asked, \* by the provider: sessions paid, sessions a payment was requested for
  faults

vars == <<pc, u, reported, lock, server, row, session, accepted, asked, faults>>
shared == <<lock, server, row, session, accepted, asked>>

-----------------------------------------------------------------------------
(* Hooks: a read gives a value or throws, a write gives the changed hooks. *)

Ok(h, v) == [ok |-> TRUE, u |-> h, val |-> v]
Thrown == [ok |-> FALSE]

\* std::map: f[k] = v
Put(f, k, v) == [x \in DOMAIN f \cup {k} |-> IF x = k THEN v ELSE f[x]]

\* DataTree::operator(), Hook::param
Lookup(h, f, k) == IF k \in DOMAIN f THEN Ok(h, f[k]) ELSE Thrown

\* Template::evaluate: the variables that have a value are filled in.
Evaluate(text, args) == [text |-> text, args |-> args]

Hooks == {"var", "common", "stage", "print", "code", "transport", "parser", "request", "pay", "db",
          "config", "log", "template"} \cup UserHooks

\* PaymentSequence: a stage that has no number keeps the number of the last one.
StageName(h, n) == Lookup(h, h.stageNames, n)

\* Variant of SetStageName: any other stage counts as the next one.
SetStageNameNext(h, name) ==
  LET n == {k \in DOMAIN h.stageNames : h.stageNames[k] = name}
  IN [h EXCEPT !.stageName = name, !.stage = IF n = {} THEN @ + 1 ELSE CHOOSE k \in n : TRUE]

SetStageName(h, name) ==
  LET n == {k \in DOMAIN h.stageNames : h.stageNames[k] = name}
  IN [h EXCEPT !.stageName = name, !.stage = IF n = {} THEN @ ELSE CHOOSE k \in n : TRUE]

SetStageNumber(h, n) ==
  IF n \in DOMAIN h.stageNames
  THEN Ok([h EXCEPT !.stage = n, !.stageName = h.stageNames[n]], n) ELSE Thrown

StageRead(h, path) ==
  IF path = <<>> THEN Ok(h, h.stageName)
  ELSE IF path[1] = "next" THEN StageName(h, h.stage + 1) ELSE Thrown

\* stage = name; stage.id.N = name; stage.id = N; anything else is ignored.
StageWrite(h, path, v) ==
  IF path = <<>> THEN Ok(SetStageName(h, v), v)
  ELSE IF Len(path) = 2 /\ path[1] = "id"
  THEN Ok([h EXCEPT !.stageNames = Put(@, path[2], v)], v)
  ELSE IF path = <<"id">> THEN SetStageNumber(h, v) ELSE Ok(h, v)

\* cp1251tokoi8r
Koi8r(v) == [koi8r |-> v]

\* Variant of VarWrite: the first value of a variable stays.
VarWriteOnce(h, path, v) ==
  IF Len(path) = 1 THEN Ok([h EXCEPT !.var = IF path[1] \in DOMAIN @ THEN @ ELSE Put(@, path[1], v)], v)
  ELSE IF Len(path) > 1 /\ path[2] = "cp1251"
  THEN Ok([h EXCEPT !.var = IF path[1] \in DOMAIN @ THEN @ ELSE Put(@, path[1], Koi8r(v))], v) ELSE Thrown

\* var.name = v; var.name.cp1251 = v
VarWrite(h, path, v) ==
  IF Len(path) = 1 THEN Ok([h EXCEPT !.var = Put(@, path[1], v)], v)
  ELSE IF Len(path) > 1 /\ path[2] = "cp1251"
  THEN Ok([h EXCEPT !.var = Put(@, path[1], Koi8r(v))], v) ELSE Thrown

\* The arguments of a template are gone once it has been read.
TemplateRead(h, path) ==
  IF Len(path) # 1 THEN Thrown
  ELSE LET t == IF path[1] \in DOMAIN h.template THEN h.template[path[1]] ELSE Evaluate("", <<>>)
       IN Ok([h EXCEPT !.template = Put(@, path[1], Evaluate(t.text, <<>>))], t)

TemplateWrite(h, path, v) ==
  IF Len(path) \notin {1, 2} THEN Thrown
  ELSE LET t == IF path[1] \in DOMAIN h.template THEN h.template[path[1]] ELSE Evaluate("", <<>>)
       IN Ok([h EXCEPT !.template =
                Put(@, path[1], IF Len(path) = 1 THEN Evaluate(v, t.args)
                                ELSE Evaluate(t.text, Put(t.args, path[2], v)))], v)

ConfigWrite(h, path, v) ==
  IF Len(path) = 2 /\ path[1] \in Hooks
  THEN Ok([h EXCEPT !.params[path[1]] = Put(@, path[2], v)], v) ELSE Thrown

ConfigRead(h, path) ==
  IF Len(path) = 2 /\ path[1] \in Hooks THEN Lookup(h, h.params[path[1]], path[2]) ELSE Thrown

\* A field of the first row; a column that is not there is empty.
DbRead(h, path) ==
  IF Len(path) = 2 /\ path[1] = "field"
  THEN IF h.rows = <<>> THEN Thrown
       ELSE Ok(h, IF path[2] \in DOMAIN h.rows[1] THEN h.rows[1][path[2]] ELSE "")
  ELSE IF path = <<"sql">> THEN Ok(h, Evaluate(h.sql, h.sqlArg)) ELSE Thrown

\* SharedMysqlConnection::escape
Escaped(v) == [escaped |-> v]

\* db.execute and db.sql.N need the connection: see Connect.
DbWrite(h, path, v) ==
  IF path = <<"sql">> THEN Ok([h EXCEPT !.sql = v, !.sqlArg = <<>>], v)
  ELSE IF Len(path) = 2 /\ path[1] = "sql" THEN Ok([h EXCEPT !.sqlArg = Put(@, path[2], Escaped(v))], v)
  ELSE IF Len(path) = 3 /\ path[1] = "sql" /\ path[3] = "raw"
  THEN Ok([h EXCEPT !.sqlArg = Put(@, path[2], v)], v)
  ELSE Thrown

ParserRead(h, path) ==
  IF Len(path) <= 1 THEN Thrown
  ELSE IF path[1] = "get" THEN Lookup(h, h.tree, path[2])
  ELSE IF path[1] = "try_get" THEN Ok(h, IF path[2] \in DOMAIN h.tree THEN h.tree[path[2]] ELSE "")
  ELSE Thrown

PaymentRead(h, p, path) ==
  IF Len(path) = 1 THEN Lookup(h, PayData[p], path[1])
  ELSE IF Len(path) = 2 /\ path[1] = "data" /\ "data_separator" \in DOMAIN h.params["pay"]
  THEN Lookup(h, PayData[p]["data"], path[2])
  ELSE Thrown

\* Payment::completed, failed, sleep: the last one counts.
PaymentWrite(h, path, v) ==
  IF path = <<"result">>
  THEN IF v \in {"completed", "sleep", "failed"} THEN Ok([h EXCEPT !.result = v], v) ELSE Thrown
  ELSE IF path = <<"sleep">> THEN Ok([h EXCEPT !.result = "sleep"], v)
  ELSE IF path = <<"error">> THEN Ok(h, v) ELSE Thrown

\* The section of the code, else the default one.
CodeWrite(h, path, v) ==
  IF path # <<>> \/ {v, "default"} \cap DOMAIN Codes = {} THEN Thrown
  ELSE Ok([h EXCEPT !.code = Codes[IF v \in DOMAIN Codes THEN v ELSE "default"]], v)

RequestWrite(h, path, v) ==
  IF path = <<>> THEN Ok([h EXCEPT !.request = v, !.requestArg = <<>>], v)
  ELSE IF Len(path) = 1 THEN Ok([h EXCEPT !.requestArg = Put(@, path[1], v)], v) ELSE Thrown

\* log.file and log.record start a new template, log.file.N and log.record.N set an
\* argument; log.write opens the file: see Log.
LogWrite(h, path, v) ==
  IF path = <<>> THEN Ok(h, v)
  ELSE IF path[1] \notin {"file", "record"} \/ Len(path) > 2 THEN Thrown
  ELSE Ok([h EXCEPT !.log[path[1]] = IF Len(path) = 1 THEN Evaluate(v, <<>>)
                                     ELSE Evaluate(@.text, Put(@.args, path[2], v))], v)

LogRead(h, path) ==
  IF path # <<>> /\ path[1] = "record"
  THEN Ok([h EXCEPT !.log["record"].args = <<>>], h.log["record"]) ELSE Thrown

\* The user hook of the webmoney module signs what was appended.
SignatureWrite(h, path, v) ==
  IF path = <<"data">> THEN Ok([h EXCEPT !.toSign = <<v>>], v)
  ELSE IF path = <<"append_data">> THEN Ok([h EXCEPT !.toSign = Append(@, v)], v)
  ELSE IF path \in {<<"keyfile">>, <<"login">>, <<"password">>} THEN Ok(h, v) ELSE Thrown

HookRead(h, p, name, path) ==
  CASE name = "var"      -> IF Len(path) = 1 THEN Lookup(h, h.var, path[1]) ELSE Thrown
    [] name = "common"   -> IF Len(path) = 1 THEN Lookup(h, h.params[name], path[1]) ELSE Thrown
    [] name = "stage"    -> StageRead(h, path)
    [] name = "code"     -> IF Len(path) = 1 THEN Lookup(h, h.code, path[1]) ELSE Thrown
    [] name = "transport"-> IF path = <<"read">> THEN Ok(h, h.answer) ELSE Thrown
    [] name = "parser"   -> ParserRead(h, path)
    [] name = "request"  -> IF path = <<>> THEN Ok(h, Evaluate(h.request, h.requestArg)) ELSE Thrown
    [] name = "pay"      -> PaymentRead(h, p, path)
    [] name = "db"       -> DbRead(h, path)
    [] name = "config"   -> ConfigRead(h, path)
    [] name = "log"      -> LogRead(h, path)
    [] name = "template" -> TemplateRead(h, path)
    [] name = "wm_signature" -> Ok(h, h.toSign)
    [] OTHER             -> Thrown

HookWrite(h, name, path, v) ==
  CASE name = "var"      -> VarWrite(h, path, v)
    [] name = "common"   -> Ok(h, v)
    [] name = "stage"    -> StageWrite(h, path, v)
    [] name = "print"    -> IF path = <<>> THEN Ok(h, v) ELSE Thrown
    [] name = "code"     -> CodeWrite(h, path, v)
    [] name = "parser"   -> IF path = <<"parse">> THEN Ok([h EXCEPT !.tree = v], v) ELSE Thrown
    [] name = "request"  -> RequestWrite(h, path, v)
    [] name = "pay"      -> PaymentWrite(h, path, v)
    [] name = "db"       -> DbWrite(h, path, v)
    [] name = "config"   -> ConfigWrite(h, path, v)
    [] name = "log"      -> LogWrite(h, path, v)
    [] name = "template" -> TemplateWrite(h, path, v)
    [] name = "wm_signature" -> SignatureWrite(h, path, v)
    [] OTHER             -> Thrown

\* evaluateConfigValue: $path is read, anything else is the text itself.
EvaluateConfigValue(h, p, value) ==
  IF ~value.var THEN Ok(h, value.text)
  ELSE IF Head(value.path) \in Hooks THEN HookRead(h, p, Head(value.path), Tail(value.path))
  ELSE Thrown

\* evaluateConfigParam; an entry whose parameter is no variable is ignored.
EvaluateConfigParam(h, param, v) ==
  IF param = <<>> THEN Ok(h, v)
  ELSE IF Head(param) \in Hooks THEN HookWrite(h, Head(param), Tail(param), v)
  ELSE Thrown

-----------------------------------------------------------------------------
(* performStage.                                                            *)

\* PayInitExt and registerHook: new hooks, configured.
NewUpgm ==
  [section |-> "main", i |-> 1, arg |-> NULL, result |-> "undef",
   stage |-> 0, stageName |-> "main", stageNames |-> <<>>,
   params |-> [h \in Hooks |-> IF h \in DOMAIN HookConfig THEN HookConfig[h] ELSE <<>>],
   var |-> <<>>, template |-> <<>>, sql |-> "", sqlArg |-> <<>>, rows |-> <<>>,
   answer |-> <<>>, tree |-> <<>>, code |-> <<>>, request |-> "", requestArg |-> <<>>,
   log |-> [t \in {"file", "record"} |-> Evaluate("", <<>>)], toSign |-> <<>>]

Init ==
  /\ pc = [p \in Payments |-> "idle"] /\ u = [p \in Payments |-> NULL]
  /\ reported = [p \in Payments |-> NULL]
  /\ lock = NULL /\ server = TRUE
  /\ row = [p \in Payments |-> NULL] /\ session = 1
  /\ accepted = {} /\ asked = [p \in Payments |-> {}]
  /\ faults = 0

\* getTransport, getParser and getDb know one kind each.
Supported == MainConfig = [transport |-> "http", parser |-> "xml", db |-> "mysql"]

Goto(p, where, h) == pc' = [pc EXCEPT ![p] = where] /\ u' = [u EXCEPT ![p] = h]

\* Variant of Throw: the entry that failed is skipped.
ThrowSkips(p, h) == Goto(p, "entry", [h EXCEPT !.i = @ + 1])

\* A std::exception ends the stage: the payment sleeps, whatever its result was.
Throw(p, h) == Goto(p, "done", [h EXCEPT !.result = "sleep"])

\* The thread is about to use the value it has evaluated; url and port must be known to
\* send.
Reach(p, where, v) ==
  IF where = "send" => {"url", "port"} \subseteq DOMAIN v.u.params["transport"]
  THEN Goto(p, where, [v.u EXCEPT !.arg = v.val]) ELSE Throw(p, u[p])

\* An entry is through, or has thrown.
NextEntry(p, r) ==
  \E x \in {r} :
    IF x.ok THEN Goto(p, "entry", [x.u EXCEPT !.i = @ + 1, !.arg = NULL]) ELSE Throw(p, u[p])

\* SendData of a payment that is new, slept or was cut off.
SendData(p) ==
  /\ pc[p] = "idle" /\ reported[p] \in {NULL, "SAVE_STATE"}
  /\ IF Supported THEN Goto(p, "entry", NewUpgm) ELSE Throw(p, NewUpgm)
  /\ UNCHANGED <<reported, shared, faults>>

Section(p) == Scheme[u[p].section]
Entry(p) == Section(p)[u[p].i]

UsesConnection(param) == param[1] = "db" /\ (Tail(param) = <<"execute">> \/ (Len(param) = 3 /\ param[2] = "sql"))

\* Where an entry reaches for the outside; NULL: it changes only the hooks of its thread.
Outside(param) ==
  IF param = <<>> THEN NULL
  ELSE IF UsesConnection(param) THEN "connect"
  ELSE IF param = <<"transport", "write">> THEN "send"
  ELSE IF param = <<"log", "write">> THEN "log"
  ELSE NULL

\* evalParams, one entry: evaluateConfigParam(it->first, evaluateConfigValue(it->second)); of
\* an entry that reaches for the outside, its value.
EvalParams(p) ==
  /\ pc[p] = "entry" /\ u[p].i <= Len(Section(p))
  /\ \E e \in {Entry(p)} : \E v \in {EvaluateConfigValue(u[p], p, e.value)} :
       IF ~v.ok THEN Throw(p, u[p])
       ELSE IF Outside(e.param) = NULL
       THEN NextEntry(p, EvaluateConfigParam(v.u, e.param, v.val))
       ELSE Reach(p, Outside(e.param), v)
  /\ UNCHANGED <<reported, shared, faults>>

\* Variant of NextStage: the stage is asked for once, before the rounds.
NextStageSame(p) ==
  /\ pc[p] = "entry" /\ u[p].i > Len(Section(p))
  /\ IF u[p].result # "undef" THEN Goto(p, "done", u[p]) ELSE Goto(p, "entry", [u[p] EXCEPT !.i = 1])
  /\ UNCHANGED <<reported, shared, faults>>

\* evalParams is through: another round, of the stage that is set by now, while there is
\* no result.
NextStage(p) ==
  /\ pc[p] = "entry" /\ u[p].i > Len(Section(p))
  /\ IF u[p].result # "undef" THEN Goto(p, "done", u[p])
     ELSE IF u[p].stageName \in DOMAIN Scheme
     THEN Goto(p, "entry", [u[p] EXCEPT !.section = u[p].stageName, !.i = 1])
     ELSE Throw(p, u[p])
  /\ UNCHANGED <<reported, shared, faults>>

\* asSPayResult
Report(p) ==
  /\ pc[p] = "done"
  /\ reported' = [reported EXCEPT ![p] =
       CASE u[p].result = "failed" -> "FAILED" [] u[p].result = "completed" -> "SUCESS"
         [] OTHER -> "SAVE_STATE"]
  /\ Goto(p, "idle", NULL)
  /\ UNCHANGED <<shared, faults>>

-----------------------------------------------------------------------------
(* The shared connection.                                                   *)

Fault == faults < Faults /\ faults' = faults + 1

\* SharedMysqlConnection::connect: a server that answers at once is a critical section of
\* one step.
Connect(p) ==
  /\ pc[p] = "connect" /\ lock = NULL
  /\ lock' = IF server THEN NULL ELSE p
  /\ pc' = [pc EXCEPT ![p] = IF server THEN "query" ELSE "connecting"]
  /\ UNCHANGED <<u, reported, server, row, session, accepted, asked, faults>>

\* Otherwise the loop goes on until it does, with the lock held.
Connected(p) ==
  /\ pc[p] = "connecting" /\ server
  /\ lock' = NULL
  /\ pc' = [pc EXCEPT ![p] = "query"]
  /\ UNCHANGED <<u, reported, server, row, session, accepted, asked, faults>>

\* db.sql.N: escape needs a connection object, not a server.
Escape(p) ==
  /\ pc[p] = "query" /\ lock = NULL /\ Len(Entry(p).param) = 3
  /\ NextEntry(p, EvaluateConfigParam(u[p], Entry(p).param, u[p].arg))
  /\ UNCHANGED <<reported, shared, faults>>

\* The scheme's statements on its table: what they do, whether they are refused, and the
\* rows they return.
Row(stage, s) == [stage |-> stage, session |-> s]
Key(sql) == sql.args["1"].escaped
Refused(sql) == sql.text = "insert" /\ row[Key(sql)] # NULL
Effect(sql) ==
  CASE sql.text = "insert" -> row' = [row EXCEPT ![Key(sql)] = Row(1, session)] /\ session' = session + 1
    [] sql.text = "advance" -> row' = [row EXCEPT ![Key(sql)].stage = @ + 1] /\ UNCHANGED session
    [] sql.text = "complete" -> row' = [row EXCEPT ![Key(sql)].stage = 3] /\ UNCHANGED session
    [] sql.text = "fatal" -> row' = [row EXCEPT ![Key(sql)].stage = 4] /\ UNCHANGED session
    [] OTHER -> UNCHANGED <<row, session>>
Found(sql) ==
  IF sql.text # "select" THEN <<>>
  ELSE IF row[Key(sql)] = NULL THEN <<Row(0, 0)>> ELSE <<row[Key(sql)], Row(0, 0)>>

\* db.execute
Execute(p) ==
  /\ pc[p] = "query" /\ lock = NULL /\ Len(Entry(p).param) = 2 /\ server
  /\ IF Refused(u[p].arg)
     THEN Throw(p, u[p]) /\ UNCHANGED <<row, session>>
     ELSE /\ Effect(u[p].arg)
          /\ NextEntry(p, Ok([u[p] EXCEPT !.rows = Found(u[p].arg)], NULL))
  /\ UNCHANGED <<reported, lock, server, accepted, asked, faults>>

\* The query fails, before or after it was done: mysqlpp throws.
ExecuteFails(p, done) ==
  /\ pc[p] = "query" /\ lock = NULL /\ Len(Entry(p).param) = 2
  /\ IF server THEN Fault ELSE UNCHANGED faults
  /\ done => server
  /\ IF done /\ ~Refused(u[p].arg) THEN Effect(u[p].arg) ELSE UNCHANGED <<row, session>>
  /\ Throw(p, u[p])
  /\ UNCHANGED <<reported, lock, server, accepted, asked>>

-----------------------------------------------------------------------------
(* The provider, and the log file.                                          *)

Ask(p) ==
  asked' = IF u[p].arg.text # "payment" THEN asked
           ELSE [asked EXCEPT ![p] = @ \cup {u[p].arg.args["session"]}]

\* The provider accepts a payment with retval 0, and one it has accepted stays so.
Processed(p, answer) ==
  accepted' = IF u[p].arg.text = "payment" /\ answer["retval"] = "0"
              THEN accepted \cup {u[p].arg.args["session"]} ELSE accepted

\* transport.write: HTTPTransport sends the request and reads the answer.
Send(p, answer) ==
  /\ pc[p] = "send" /\ answer \in Answers[u[p].arg.text]
  /\ Ask(p) /\ Processed(p, answer)
  /\ NextEntry(p, Ok([u[p] EXCEPT !.answer = answer], NULL))
  /\ UNCHANGED <<reported, lock, server, row, session, faults>>

\* No answer, "Network error (empty response)", or part of one: the result of
\* curl_easy_perform is not looked at.
SendFails(p, answer, processed, cut) ==
  /\ pc[p] = "send" /\ answer \in Answers[u[p].arg.text] /\ Fault
  /\ Ask(p)
  /\ IF processed THEN Processed(p, answer) ELSE UNCHANGED accepted
  /\ cut => processed
  /\ IF cut THEN NextEntry(p, Ok([u[p] EXCEPT !.answer = <<>>], NULL)) ELSE Throw(p, u[p])
  /\ UNCHANGED <<reported, lock, server, row, session>>

\* log.write appends to the file, if it can be opened; the arguments of its name are used up.
Log(p, good) ==
  /\ pc[p] = "log"
  /\ IF good THEN NextEntry(p, Ok([u[p] EXCEPT !.log["file"].args = <<>>], NULL)) /\ UNCHANGED faults
     ELSE Throw(p, u[p]) /\ Fault
  /\ UNCHANGED <<reported, shared>>

-----------------------------------------------------------------------------
(* Faults.                                                                  *)

ServerDown == server /\ Fault /\ server' = FALSE /\ UNCHANGED <<pc, u, reported, lock, row, session, accepted, asked>>
ServerUp == ~server /\ server' = TRUE /\ UNCHANGED <<pc, u, reported, lock, row, session, accepted, asked, faults>>

\* The daemon dies and is started again: its rows of pays_main are served anew.
Crash ==
  /\ \E p \in Payments : pc[p] # "idle"
  /\ Fault
  /\ pc' = [p \in Payments |-> "idle"] /\ u' = [p \in Payments |-> NULL] /\ lock' = NULL
  /\ UNCHANGED <<reported, server, row, session, accepted, asked>>

Finished == (\A p \in Payments : reported[p] \in {"SUCESS", "FAILED"}) /\ UNCHANGED vars

Anything == UNION {Answers[r] : r \in DOMAIN Answers}

Step(p) ==
  \/ SendData(p) \/ EvalParams(p) \/ NextStage(p) \/ Report(p)
  \/ Connect(p) \/ Connected(p) \/ Escape(p) \/ Execute(p)
  \/ \E answer \in Anything : Send(p, answer)
  \/ Log(p, TRUE)

Failure(p) ==
  \/ \E done \in BOOLEAN : ExecuteFails(p, done)
  \/ \E answer \in Anything, processed, cut \in BOOLEAN : SendFails(p, answer, processed, cut)
  \/ Log(p, FALSE)

Next ==
  \/ \E p \in Payments : Step(p) \/ Failure(p)
  \/ ServerDown \/ ServerUp \/ Crash \/ Finished

\* Threads are scheduled fairly, and the MySQL server comes back.
Spec == Init /\ [][Next]_vars /\ (\A p \in Payments : WF_vars(Step(p))) /\ WF_vars(ServerUp)

-----------------------------------------------------------------------------
(* Properties.                                                              *)

\* A payment is reported as a success only when the provider has accepted it: however
\* attempts are cut off, no jump between stages skips the payment itself.
CompletedPaid ==
  \A p \in Payments : reported[p] = "SUCESS" => row[p] # NULL /\ row[p].session \in accepted

\* All requests to pay a payment carry the same session, the one in the table: the
\* provider can tell a repeated request from a second payment.
OneSession ==
  \A p \in Payments : asked[p] # {} => row[p] # NULL /\ asked[p] = {row[p].session}

\* Money is requested only when the table says that the check is behind: whatever
\* happens afterwards, the next attempt goes on with the payment or later.
PayRecorded ==
  \A p \in Payments : asked[p] # {} => row[p] # NULL /\ row[p].stage >= 2

\* Every payment gets a final result, although connect retries with the lock held, an
\* exception replaces results, and attempts are cut off.
EveryPaymentReported == \A p \in Payments : <>(reported[p] \in {"SUCESS", "FAILED"})
=============================================================================
