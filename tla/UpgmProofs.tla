----------------------------- MODULE UpgmProofs -----------------------------
(***************************************************************************)
(* Proofs about the engine of UPGM modules running the scheme of the       *)
(* webmoney module, for any number of payments, any answers of the         *)
(* provider and any failures.                                              *)
(*                                                                         *)
(* What a thread knows of its payment depends on the section and on the    *)
(* entry it has come to.  The inductive invariant says it entry by entry,  *)
(* as a predicate on values: the hooks h of the thread, the payment's row  *)
(* r and the set acc of accepted sessions.                                 *)
(***************************************************************************)
EXTENDS Webmoney, TLAPS

\* The fields of the hooks that the scheme's course depends on.
Fields ==
  {"section", "i", "arg", "result", "stage", "stageName", "stageNames", "var", "sql", "sqlArg", "rows",
   "answer", "tree", "code", "request", "requestArg"}

\* The numbers of stages that section main gives.
Named(n, name) == <<n, name>> \in {<<0, "init">>, <<1, "check">>, <<2, "pay">>, <<3, "complete">>, <<4, "fatal">>}

\* Sections with a statement: its text and the entry that sets it.
SqlSections == {"main", "init", "complete", "success", "fatal"}
SqlOf(s) ==
  CASE s = "main" -> "select" [] s = "init" -> "insert" [] s = "complete" -> "complete"
    [] s = "success" -> "advance" [] s = "fatal" -> "fatal"
SqlStart(s) == IF s = "main" THEN 6 ELSE IF s = "init" THEN 1 ELSE 2

\* Sections with a request, and its text.
RequestOf(s) == IF s = "pay" THEN "payment" ELSE "check"

\* What section main finds.
RowOr(r) == IF r = NULL THEN Row(0, 0) ELSE r

\* f has value v for key k.
Holds(f, k, v) == k \in DOMAIN f /\ f[k] = v

\* What must hold where section s begins.
Ready(h, r, acc, s) ==
  /\ s \in {"check", "pay", "success", "complete", "fatal"} => r # NULL
  /\ s \in {"check", "pay", "success"} => Holds(h.var, "session", r.session) /\ h.stage = r.stage
  /\ s = "check" => r.stage = 1
  /\ s = "pay" => r.stage = 2
  /\ s = "complete" => r.stage = 3
  /\ s = "success" => r.stage \in {1, 2} /\ (r.stage = 2 => r.session \in acc)

\* An answer that accepts the payment is true.
Honest(t, s, r, acc) ==
  s = "pay" /\ "retval" \in DOMAIN t /\ t["retval"] = "0" => r.session \in acc

InMain(h, r) ==
  /\ h.i \in {9, 10} => h.rows # <<>> /\ h.rows[1] = RowOr(r)
  /\ h.i \in {10, 11} => h.stage = RowOr(r).stage /\ Named(h.stage, h.stageName)
  /\ h.i = 11 => Holds(h.var, "session", RowOr(r).session)

InInit(h) == h.i = 5 => h.stageName = "main"

InRequest(h, r, acc, s) ==
  /\ h.i \in 1..14 => Ready(h, r, acc, s)
  /\ h.i \in 4..7 => h.request = RequestOf(s)
  /\ h.i \in 5..7 => Holds(h.requestArg, "session", r.session)
  /\ h.i = 8 => Honest(h.answer, s, r, acc)
  /\ h.i = 9 => Honest(h.tree, s, r, acc)
  /\ h.i \in 10..14 => /\ h.code["act"] \in {"success", "fatal"}
                       /\ s = "pay" /\ h.code["act"] = "success" => r.session \in acc
  /\ h.i = 15 => h.stageName \in {"success", "fatal"} /\ Ready(h, r, acc, h.stageName)

InSuccess(h, r, acc) ==
  /\ r # NULL /\ Holds(h.var, "session", r.session)
  /\ h.i = 1 => Ready(h, r, acc, "success")
  /\ h.i \in 2..4 => /\ h.stage = r.stage + 1 /\ r.stage \in {1, 2} /\ Named(h.stage, h.stageName)
                     /\ r.stage = 2 => r.session \in acc
  /\ h.i = 5 => h.stage = r.stage /\ r.stage \in {2, 3} /\ Named(h.stage, h.stageName)

InComplete(h, r) == r # NULL /\ r.stage = 3 /\ (h.i > 1 => h.result = "completed")
InFatal(h, r) == r # NULL /\ (h.i > 1 => h.result = "failed")

InSection(h, r, acc) ==
  /\ h.section = "main" => InMain(h, r)
  /\ h.section = "init" => InInit(h)
  /\ h.section \in {"check", "pay"} => InRequest(h, r, acc, h.section)
  /\ h.section = "success" => InSuccess(h, r, acc)
  /\ h.section = "complete" => InComplete(h, r)
  /\ h.section = "fatal" => InFatal(h, r)

\* The statement that is being put together is about the payment's own row.
InSql(p, h) ==
  h.section \in SqlSections =>
    /\ h.i \in {SqlStart(h.section) + 1, SqlStart(h.section) + 2} => h.sql = SqlOf(h.section)
    /\ h.i = SqlStart(h.section) + 2 => h.sqlArg["1"].escaped = p

\* Waiting for the connection, for an answer or for a file.
Waits == {"connect", "connecting", "query"}
Waiting(p, where, h, r) ==
  /\ where \in Waits =>
       /\ h.section \in SqlSections
       /\ h.i \in {SqlStart(h.section) + 1, SqlStart(h.section) + 2}
       /\ h.i = SqlStart(h.section) + 1 => h.arg = p
       /\ h.i = SqlStart(h.section) + 2 => h.arg.text = SqlOf(h.section) /\ h.arg.args["1"].escaped = p
  /\ where = "send" =>
       /\ h.section \in {"check", "pay"} /\ h.i = 7
       /\ h.arg.text = RequestOf(h.section) /\ h.arg.args["session"] = r.session
  /\ where = "log" => h.section = "complete" /\ h.i = 8

\* A thread stands in an entry of a section, or behind the last one.
InScheme(h) == h.section \in DOMAIN WmScheme /\ h.i \in 1..(Len(WmScheme[h.section]) + 1)

Names(f) == \A n \in DOMAIN f : Named(n, f[n])

Paid(r, acc) == r # NULL /\ r.session \in acc

\* A thread that has not ended its attempt.
Running(p, where, h, r, acc) ==
  /\ where \in Waits \cup {"entry", "send", "log"}
  /\ InScheme(h) /\ Names(h.stageNames)
  /\ InSection(h, r, acc) /\ InSql(p, h) /\ Waiting(p, where, h, r)

Thread(p, where, h, r, acc) ==
  where # "idle" =>
    /\ Fields \subseteq DOMAIN h
    /\ h.result = "completed" => Paid(r, acc)
    /\ where # "done" => Running(p, where, h, r, acc)

\* What the table says, whatever the thread does.
Table(r, acc, ask, rep) ==
  /\ r # NULL => r \in [stage : 1..4, session : Nat]
  /\ r # NULL /\ r.stage = 3 => r.session \in acc
  /\ ask # {} => r # NULL /\ ask = {r.session} /\ r.stage >= 2
  /\ rep = "SUCESS" => Paid(r, acc)

\* The inductive invariant.
WebmoneyInv ==
  /\ session \in Nat
  /\ DOMAIN pc = Payments /\ DOMAIN u = Payments /\ DOMAIN reported = Payments
  /\ DOMAIN row = Payments /\ DOMAIN asked = Payments
  /\ \A p \in Payments :
       Thread(p, pc[p], u[p], row[p], accepted) /\ Table(row[p], accepted, asked[p], reported[p])

-----------------------------------------------------------------------------
(* What the hooks do, as far as the scheme uses them.                       *)

\* g has the fields of h, and the same values in all but those in F.
Keeps(g, h, F) == Fields \subseteq DOMAIN g /\ \A f \in Fields \ F : g[f] = h[f]

\* A result is what was read or written, or an exception.
LEMMA Results ==
  ASSUME NEW h, NEW v
  PROVE  Ok(h, v).ok /\ Ok(h, v).u = h /\ Ok(h, v).val = v /\ ~Thrown.ok
BY DEF Ok, Thrown

\* A write to a std::map changes one key.
LEMMA PutKey ==
  ASSUME NEW f, NEW k, NEW v
  PROVE  Put(f, k, v)[k] = v
BY DEF Put

LEMMA PutDomain ==
  ASSUME NEW f, NEW k, NEW v
  PROVE  DOMAIN Put(f, k, v) = DOMAIN f \cup {k}
BY DEF Put

LEMMA PutOther ==
  ASSUME NEW f, NEW k, NEW v, NEW x \in DOMAIN f, x # k
  PROVE  Put(f, k, v)[x] = f[x]
BY DEF Put

LEMMA PutNames ==
  ASSUME NEW f, Names(f), NEW n, NEW name, Named(n, name)
  PROVE  Names(Put(f, n, name))
BY DEF Names, Put

\* A read changes at most a template or the log record.
LEMMA ReadKeeps ==
  ASSUME NEW h, Fields \subseteq DOMAIN h, NEW p, NEW name, NEW path, HookRead(h, p, name, path).ok
  PROVE  Keeps(HookRead(h, p, name, path).u, h, {})
<1> DEFINE r == HookRead(h, p, name, path)
<1>1. CASE name = "template"
  <2>1. \E t, m : r = Ok([h EXCEPT !.template = m], t)
    BY <1>1, Results DEF HookRead, TemplateRead
  <2> QED BY <2>1, Results DEF Keeps, Fields
<1>2. CASE name = "log"
  <2>1. \E t, m : r = Ok([h EXCEPT !.log = m], t)
    BY <1>2, Results DEF HookRead, LogRead
  <2> QED BY <2>1, Results DEF Keeps, Fields
<1>3. CASE name \notin {"template", "log"}
  <2>1. \E t : r = Ok(h, t)
    BY <1>3, Results DEF HookRead, StageRead, StageName, Lookup, ParserRead, PaymentRead, DbRead, ConfigRead
  <2> QED BY <2>1, Results DEF Keeps
<1> QED BY <1>1, <1>2, <1>3

\* The value of an entry: a text, or what a hook has.
LEMMA ValueKeeps ==
  ASSUME NEW h, Fields \subseteq DOMAIN h, NEW p, NEW value, EvaluateConfigValue(h, p, value).ok
  PROVE  Keeps(EvaluateConfigValue(h, p, value).u, h, {})
BY ReadKeeps, Results DEF EvaluateConfigValue, Keeps

LEMMA SetValue ==
  ASSUME NEW h, NEW p, NEW param, NEW text
  PROVE  EvaluateConfigValue(h, p, Set(param, text).value) = Ok(h, text)
BY DEF EvaluateConfigValue, Set

LEMMA CopyHook ==
  ASSUME NEW h, NEW p, NEW param, NEW a
  PROVE  EvaluateConfigValue(h, p, Copy(param, <<a>>).value) \in {Thrown, HookRead(h, p, a, <<>>)}
<1>1. Copy(param, <<a>>).value.var /\ Copy(param, <<a>>).value.path = <<a>>
  BY DEF Copy
<1>2. Head(<<a>>) = a /\ Tail(<<a>>) = <<>>
  OBVIOUS
<1> QED BY <1>1, <1>2, Zenon DEF EvaluateConfigValue

LEMMA CopyValue ==
  ASSUME NEW h, NEW p, NEW param, NEW a, NEW b
  PROVE  EvaluateConfigValue(h, p, Copy(param, <<a, b>>).value) \in {Thrown, HookRead(h, p, a, <<b>>)}
<1>1. Copy(param, <<a, b>>).value.var /\ Copy(param, <<a, b>>).value.path = <<a, b>>
  BY DEF Copy
<1>2. Head(<<a, b>>) = a /\ Tail(<<a, b>>) = <<b>>
  OBVIOUS
<1> QED BY <1>1, <1>2, Zenon DEF EvaluateConfigValue

LEMMA CopyField ==
  ASSUME NEW h, NEW p, NEW param, NEW a, NEW b, NEW c
  PROVE  EvaluateConfigValue(h, p, Copy(param, <<a, b, c>>).value) \in {Thrown, HookRead(h, p, a, <<b, c>>)}
<1>1. Copy(param, <<a, b, c>>).value.var /\ Copy(param, <<a, b, c>>).value.path = <<a, b, c>>
  BY DEF Copy
<1>2. Head(<<a, b, c>>) = a /\ Tail(<<a, b, c>>) = <<b, c>>
  OBVIOUS
<1> QED BY <1>1, <1>2, Zenon DEF EvaluateConfigValue

LEMMA SetParam ==
  ASSUME NEW param, NEW text
  PROVE  Set(param, text).param = param
BY DEF Set

LEMMA CopyParam ==
  ASSUME NEW param, NEW path
  PROVE  Copy(param, path).param = param
BY DEF Copy

\* What the scheme reads.
LEMMA Reads ==
  ASSUME NEW h, NEW p
  PROVE  /\ HookRead(h, p, "db", <<"sql">>) = Ok(h, Evaluate(h.sql, h.sqlArg))
         /\ HookRead(h, p, "request", <<>>) = Ok(h, Evaluate(h.request, h.requestArg))
         /\ HookRead(h, p, "transport", <<"read">>) = Ok(h, h.answer)
         /\ HookRead(h, p, "var", <<"session">>) \in {Thrown, Ok(h, h.var["session"])}
         /\ HookRead(h, p, "code", <<"act">>) \in {Thrown, Ok(h, h.code["act"])}
         /\ HookRead(h, p, "parser", <<"get", "retval">>) = Lookup(h, h.tree, "retval")
         /\ HookRead(h, p, "stage", <<"next">>) = Lookup(h, h.stageNames, h.stage + 1)
         /\ HookRead(h, p, "pay", <<"id">>) \in {Thrown, Ok(h, PayData[p]["id"])}
<1>1. HookRead(h, p, "db", <<"sql">>) = Ok(h, Evaluate(h.sql, h.sqlArg))
  <2>1. DbRead(h, <<"sql">>) = Ok(h, Evaluate(h.sql, h.sqlArg))
    <3>1. Len(<<"sql">>) # 2
      OBVIOUS
    <3> QED BY <3>1, Zenon DEF DbRead
  <2> QED BY <2>1 DEF HookRead
<1>2. HookRead(h, p, "request", <<>>) = Ok(h, Evaluate(h.request, h.requestArg))
  BY DEF HookRead
<1>3. HookRead(h, p, "transport", <<"read">>) = Ok(h, h.answer)
  BY DEF HookRead
<1>4. HookRead(h, p, "var", <<"session">>) \in {Thrown, Ok(h, h.var["session"])}
  BY DEF HookRead, Lookup
<1>5. HookRead(h, p, "code", <<"act">>) \in {Thrown, Ok(h, h.code["act"])}
  BY DEF HookRead, Lookup
<1>6. HookRead(h, p, "parser", <<"get", "retval">>) = Lookup(h, h.tree, "retval")
  BY DEF HookRead, ParserRead
<1>7. HookRead(h, p, "stage", <<"next">>) = Lookup(h, h.stageNames, h.stage + 1)
  BY DEF HookRead, StageRead, StageName
<1>8. HookRead(h, p, "pay", <<"id">>) \in {Thrown, Ok(h, PayData[p]["id"])}
  BY DEF HookRead, PaymentRead, Lookup
<1> QED BY <1>1, <1>2, <1>3, <1>4, <1>5, <1>6, <1>7, <1>8

\* A field of the first row.
LEMMA FieldRead ==
  ASSUME NEW h, NEW p, NEW f, h.rows # <<>>, f \in DOMAIN h.rows[1]
  PROVE  HookRead(h, p, "db", <<"field", f>>) = Ok(h, h.rows[1][f])
BY DEF HookRead, DbRead

\* What the scheme writes, and the fields it changes.
LEMMA SqlWrite ==
  ASSUME NEW h, NEW v
  PROVE  EvaluateConfigParam(h, <<"db", "sql">>, v) = Ok([h EXCEPT !.sql = v, !.sqlArg = <<>>], v)
BY DEF EvaluateConfigParam, HookWrite, Hooks, DbWrite

LEMMA SqlKeyWrite ==
  ASSUME NEW h, NEW v
  PROVE  EvaluateConfigParam(h, <<"db", "sql", "1">>, v) = Ok([h EXCEPT !.sqlArg = Put(@, "1", Escaped(v))], v)
BY DEF EvaluateConfigParam, HookWrite, Hooks, DbWrite

LEMMA SessionWrite ==
  ASSUME NEW h, NEW v
  PROVE  EvaluateConfigParam(h, <<"var", "session">>, v) = Ok([h EXCEPT !.var = Put(@, "session", v)], v)
BY DEF EvaluateConfigParam, HookWrite, Hooks, VarWrite

LEMMA ErrorWrite ==
  ASSUME NEW h, NEW v
  PROVE  EvaluateConfigParam(h, <<"var", "error", "cp1251">>, v) = Ok([h EXCEPT !.var = Put(@, "error", Koi8r(v))], v)
BY DEF EvaluateConfigParam, HookWrite, Hooks, VarWrite

LEMMA RequestTextWrite ==
  ASSUME NEW h, NEW v
  PROVE  EvaluateConfigParam(h, <<"request">>, v) = Ok([h EXCEPT !.request = v, !.requestArg = <<>>], v)
BY DEF EvaluateConfigParam, HookWrite, Hooks, RequestWrite

LEMMA RequestArgWrite ==
  ASSUME NEW h, NEW v, NEW k
  PROVE  EvaluateConfigParam(h, <<"request", k>>, v) = Ok([h EXCEPT !.requestArg = Put(@, k, v)], v)
BY DEF EvaluateConfigParam, HookWrite, Hooks, RequestWrite

LEMMA ParseWrite ==
  ASSUME NEW h, NEW v
  PROVE  EvaluateConfigParam(h, <<"parser", "parse">>, v) = Ok([h EXCEPT !.tree = v], v)
BY DEF EvaluateConfigParam, HookWrite, Hooks

LEMMA StageNameWrite ==
  ASSUME NEW h, NEW v
  PROVE  EvaluateConfigParam(h, <<"stage">>, v) = Ok(SetStageName(h, v), v)
BY DEF EvaluateConfigParam, HookWrite, Hooks, StageWrite

LEMMA StageIdWrite ==
  ASSUME NEW h, NEW v
  PROVE  EvaluateConfigParam(h, <<"stage", "id">>, v) = SetStageNumber(h, v)
BY DEF EvaluateConfigParam, HookWrite, Hooks, StageWrite

LEMMA StageListWrite ==
  ASSUME NEW h, NEW v, NEW k
  PROVE  EvaluateConfigParam(h, <<"stage", "id", k>>, v) = Ok([h EXCEPT !.stageNames = Put(@, k, v)], v)
BY DEF EvaluateConfigParam, HookWrite, Hooks, StageWrite

LEMMA ResultWrite ==
  ASSUME NEW h, NEW v, v \in {"completed", "failed"}
  PROVE  EvaluateConfigParam(h, <<"pay", "result">>, v) = Ok([h EXCEPT !.result = v], v)
BY DEF EvaluateConfigParam, HookWrite, Hooks, PaymentWrite

LEMMA CodeSetWrite ==
  ASSUME NEW h, NEW v
  PROVE  EvaluateConfigParam(h, <<"code">>, v) = CodeWrite(h, <<>>, v)
BY DEF EvaluateConfigParam, HookWrite, Hooks

\* Entries that change nothing the course depends on.
LEMMA OtherWrites ==
  ASSUME NEW h, Fields \subseteq DOMAIN h, NEW v, NEW param, param # <<>>,
         Head(param) \in {"wm_signature", "template", "config", "log"} \/ param = <<"pay", "error">>,
         EvaluateConfigParam(h, param, v).ok
  PROVE  Keeps(EvaluateConfigParam(h, param, v).u, h, {})
<1> DEFINE w == EvaluateConfigParam(h, param, v)
<1>0. w = HookWrite(h, Head(param), Tail(param), v)
  BY Results DEF EvaluateConfigParam
<1>1. CASE Head(param) = "template"
  <2>1. \E m : w = Ok([h EXCEPT !.template = m], v)
    BY <1>0, <1>1, Results DEF HookWrite, TemplateWrite
  <2> QED BY <2>1, Results DEF Keeps, Fields
<1>2. CASE Head(param) = "log"
  <2>1. w = Ok(h, v) \/ \E m : w = Ok([h EXCEPT !.log = m], v)
    BY <1>0, <1>2, Results DEF HookWrite, LogWrite
  <2>2. CASE w = Ok(h, v)
    BY <2>2, Results DEF Keeps
  <2>3. CASE \E m : w = Ok([h EXCEPT !.log = m], v)
    BY <2>3, Results DEF Keeps, Fields
  <2> QED BY <2>1, <2>2, <2>3
<1>3. CASE Head(param) = "config"
  <2>1. \E m : w = Ok([h EXCEPT !.params = m], v)
    BY <1>0, <1>3, Results DEF HookWrite, ConfigWrite
  <2> QED BY <2>1, Results DEF Keeps, Fields
<1>4. CASE Head(param) = "wm_signature"
  <2>1. w = Ok(h, v) \/ \E m : w = Ok([h EXCEPT !.toSign = m], v)
    BY <1>0, <1>4, Results DEF HookWrite, SignatureWrite
  <2>2. CASE w = Ok(h, v)
    BY <2>2, Results DEF Keeps
  <2>3. CASE \E m : w = Ok([h EXCEPT !.toSign = m], v)
    BY <2>3, Results DEF Keeps, Fields
  <2> QED BY <2>1, <2>2, <2>3
<1>5. CASE param = <<"pay", "error">>
  <2>1. w = Ok(h, v)
    BY <1>0, <1>5 DEF HookWrite, PaymentWrite
  <2> QED BY <2>1, Results DEF Keeps
<1> QED BY <1>1, <1>2, <1>3, <1>4, <1>5

\* stage = name: the number is that of the name; a name without a number keeps the number.
LEMMA StageNameSet ==
  ASSUME NEW h, Fields \subseteq DOMAIN h, Names(h.stageNames), NEW name
  PROVE  /\ Keeps(SetStageName(h, name), h, {"stage", "stageName"})
         /\ SetStageName(h, name).stageName = name
         /\ \A n \in DOMAIN h.stageNames : h.stageNames[n] = name => SetStageName(h, name).stage = n
         /\ name \in {"main", "success"} => SetStageName(h, name).stage = h.stage
<1> DEFINE N == {k \in DOMAIN h.stageNames : h.stageNames[k] = name}
<1>1. SetStageName(h, name) =
        [h EXCEPT !.stageName = name, !.stage = IF N = {} THEN @ ELSE CHOOSE k \in N : TRUE]
  BY DEF SetStageName
<1>2. Keeps(SetStageName(h, name), h, {"stage", "stageName"})
  BY <1>1 DEF Keeps, Fields
<1>3. SetStageName(h, name).stageName = name
  BY <1>1 DEF Fields
<1>4. ASSUME NEW n \in DOMAIN h.stageNames, h.stageNames[n] = name
      PROVE  SetStageName(h, name).stage = n
  <2>1. n \in N
    BY <1>4
  <2>2. \A k \in N : k = n
    BY <1>4 DEF Names, Named
  <2>3. (CHOOSE k \in N : TRUE) = n
    BY <2>1, <2>2
  <2> QED BY <1>1, <2>1, <2>3 DEF Fields
<1>5. ASSUME name \in {"main", "success"}
      PROVE  SetStageName(h, name).stage = h.stage
  <2>1. N = {}
    BY <1>5 DEF Names, Named
  <2> QED BY <1>1, <2>1 DEF Fields
<1> QED BY <1>2, <1>3, <1>4, <1>5

\* stage.id = N: the stage of that number.
LEMMA StageNumberSet ==
  ASSUME NEW h, Fields \subseteq DOMAIN h, Names(h.stageNames), NEW n, SetStageNumber(h, n).ok
  PROVE  /\ Keeps(SetStageNumber(h, n).u, h, {"stage", "stageName"})
         /\ SetStageNumber(h, n).u.stage = n
         /\ Named(n, SetStageNumber(h, n).u.stageName)
<1>1. n \in DOMAIN h.stageNames /\ SetStageNumber(h, n).u = [h EXCEPT !.stage = n, !.stageName = h.stageNames[n]]
  BY Results DEF SetStageNumber
<1>2. Named(n, h.stageNames[n])
  BY <1>1 DEF Names
<1>3. Keeps(SetStageNumber(h, n).u, h, {"stage", "stageName"})
  BY <1>1 DEF Keeps, Fields
<1> QED BY <1>1, <1>2, <1>3 DEF Fields

-----------------------------------------------------------------------------
(* The scheme, entry by entry.                                              *)

\* Sections and how long they are.
LEMMA Sections ==
  /\ DOMAIN WmScheme = {"main", "init", "check", "pay", "complete", "success", "fatal"}
  /\ Len(WmScheme["main"]) = 10 /\ Len(WmScheme["init"]) = 4
  /\ \A s \in {"check", "pay"} : Len(WmScheme[s]) = 14
  /\ Len(WmScheme["complete"]) = 8 /\ Len(WmScheme["success"]) = 4 /\ Len(WmScheme["fatal"]) = 4
BY DEF WmScheme, WmMain, WmInit, WmRequest, WmComplete, WmSuccess, WmFatal

\* The three entries of a statement.
LEMMA SqlEntries ==
  ASSUME NEW s \in SqlSections
  PROVE  /\ SqlStart(s) \in Nat \ {0} /\ SqlStart(s) + 2 <= Len(WmScheme[s])
         /\ WmScheme[s][SqlStart(s)] = SqlText(SqlOf(s))
         /\ WmScheme[s][SqlStart(s) + 1] = SqlKey
         /\ WmScheme[s][SqlStart(s) + 2] = SqlExecute
<1>1. CASE s = "main"
  BY <1>1 DEF SqlStart, SqlOf, WmScheme, WmMain
<1>2. CASE s = "init"
  BY <1>2 DEF SqlStart, SqlOf, WmScheme, WmInit
<1>3. CASE s = "complete"
  BY <1>3 DEF SqlStart, SqlOf, WmScheme, WmComplete
<1>4. CASE s = "success"
  BY <1>4 DEF SqlStart, SqlOf, WmScheme, WmSuccess
<1>5. CASE s = "fatal"
  BY <1>5 DEF SqlStart, SqlOf, WmScheme, WmFatal
<1> QED BY <1>1, <1>2, <1>3, <1>4, <1>5 DEF SqlSections

\* The entries of a request that matter.
LEMMA RequestEntries ==
  ASSUME NEW s \in {"check", "pay"}
  PROVE  /\ \A i \in {1, 2} : WmScheme[s][i].param \in {<<"wm_signature", "data">>, <<"wm_signature", "append_data">>}
         /\ WmScheme[s][3] = Set(<<"request">>, RequestOf(s))
         /\ WmScheme[s][4] = Copy(<<"request", "session">>, <<"var", "session">>)
         /\ WmScheme[s][5] = Copy(<<"request", "sign">>, <<"wm_signature">>)
         /\ WmScheme[s][6] = Copy(<<"config", "transport", "url">>, <<"common", "url">>)
         /\ WmScheme[s][7] = Copy(<<"transport", "write">>, <<"request">>)
         /\ WmScheme[s][8] = Copy(<<"parser", "parse">>, <<"transport", "read">>)
         /\ WmScheme[s][9] = Copy(<<"code">>, <<"parser", "get", "retval">>)
         /\ WmScheme[s][10] = Copy(<<"template", "error">>, <<"code", "message">>)
         /\ WmScheme[s][11] = Copy(<<"var", "error", "cp1251">>, <<"parser", "try_get", "description">>)
         /\ WmScheme[s][12] = Copy(<<"template", "error", "WMERROR">>, <<"var", "error">>)
         /\ WmScheme[s][13] = Copy(<<"pay", "error">>, <<"template", "error">>)
         /\ WmScheme[s][14] = Copy(<<"stage">>, <<"code", "act">>)
<1>1. PICK a, b : WmScheme[s] = WmRequest(a, b, RequestOf(s))
  BY DEF WmScheme, RequestOf
<1> QED BY <1>1 DEF WmRequest, Copy

-----------------------------------------------------------------------------
(* A thread that goes on.                                                   *)

\* The next entry.
After(g) == [g EXCEPT !.i = @ + 1, !.arg = NULL]

LEMMA AfterKeeps ==
  ASSUME NEW h, NEW g, NEW F, Keeps(g, h, F), "i" \notin F
  PROVE  Keeps(After(g), h, F \cup {"i", "arg"}) /\ After(g).i = h.i + 1
<1>1. Keeps(After(g), g, {"i", "arg"}) /\ After(g).i = g.i + 1
  BY DEF Keeps, After, Fields
<1> QED BY <1>1 DEF Keeps, Fields

LEMMA AfterChanges ==
  ASSUME NEW g, Fields \subseteq DOMAIN g
  PROVE  Keeps(After(g), g, {"i", "arg"}) /\ After(g).i = g.i + 1
BY DEF Keeps, After, Fields

LEMMA KeepsChain ==
  ASSUME NEW h, NEW g, NEW k, NEW F, Keeps(g, h, {}), Keeps(k, g, F)
  PROVE  Keeps(k, h, F)
BY DEF Keeps

\* The next entry begins in good order when its section and its statement are.
LEMMA GoesOn ==
  ASSUME NEW p, NEW where, where \notin {"idle", "done"}, NEW h, NEW r, NEW acc,
         Thread(p, where, h, r, acc), h.i <= Len(WmScheme[h.section]), NEW g, NEW F, Keeps(g, h, F), F \cap {"section", "i"} = {}, Names(g.stageNames),
         g.result = "completed" => Paid(r, acc),
         InSection(After(g), r, acc), InSql(p, After(g))
  PROVE  Thread(p, "entry", After(g), r, acc)
<1> DEFINE k == After(g)
<1>1. Keeps(k, g, {"i", "arg"}) /\ k.i = g.i + 1
  BY DEF Keeps, After, Fields
<1>2. Fields \subseteq DOMAIN k /\ k.section = h.section /\ k.i = h.i + 1
  BY <1>1 DEF Keeps, Fields
<1>3. k.result = g.result /\ k.stageNames = g.stageNames
  BY <1>1 DEF Keeps, Fields
<1>4. InScheme(h)
  BY DEF Thread, Running
<1>5. InScheme(k)
  <2>1. Len(WmScheme[h.section]) \in Nat
    BY <1>4, Sections DEF InScheme
  <2> QED BY <1>2, <1>4, <2>1 DEF InScheme
<1>6. Waiting(p, "entry", k, r)
  BY DEF Waiting, Waits
<1> QED BY <1>2, <1>3, <1>5, <1>6 DEF Thread, Running, Waits

\* The place in the section of a statement, without its first two entries.
LEMMA NoSql ==
  ASSUME NEW p, NEW k,
         k.section \in SqlSections => k.i \notin {SqlStart(k.section) + 1, SqlStart(k.section) + 2}
  PROVE  InSql(p, k)
<1>1. k.section \in SqlSections => SqlStart(k.section) \in Nat
  BY DEF SqlStart
<1> QED BY <1>1 DEF InSql

\* While a statement is put together nothing else changes.
LEMMA SqlKeepsSection ==
  ASSUME NEW h, NEW k, NEW r, NEW acc, h.section \in SqlSections, InSection(h, r, acc),
         h.i \in {SqlStart(h.section), SqlStart(h.section) + 1}, k.i = h.i + 1,
         Keeps(k, h, {"i", "arg", "sql", "sqlArg"})
  PROVE  InSection(k, r, acc)
<1>0. /\ k.section = h.section /\ k.stage = h.stage /\ k.stageName = h.stageName
      /\ k.var = h.var /\ k.result = h.result
  BY DEF Keeps, Fields
<1>1. CASE h.section = "main"
  BY <1>0, <1>1 DEF InSection, InMain, SqlStart
<1>2. CASE h.section = "init"
  BY <1>0, <1>2 DEF InSection, InInit, SqlStart
<1>3. CASE h.section = "complete"
  BY <1>0, <1>3 DEF InSection, InComplete, SqlStart
<1>4. CASE h.section = "success"
  BY <1>0, <1>4 DEF InSection, InSuccess, SqlStart, Ready
<1>5. CASE h.section = "fatal"
  BY <1>0, <1>5 DEF InSection, InFatal, SqlStart
<1> QED BY <1>1, <1>2, <1>3, <1>4, <1>5 DEF SqlSections

\* db.sql = text: a statement begins.
LEMMA SqlTextEntry ==
  ASSUME NEW p, NEW h, NEW r, NEW acc, Thread(p, "entry", h, r, acc),
         h.section \in SqlSections, h.i = SqlStart(h.section),
         NEW g, Keeps(g, h, {"sql", "sqlArg"}), g.sql = SqlOf(h.section)
  PROVE  Thread(p, "entry", After(g), r, acc)
<1>0. Fields \subseteq DOMAIN h /\ Running(p, "entry", h, r, acc)
  BY DEF Thread
<1>1. Keeps(After(g), h, {"sql", "sqlArg", "i", "arg"}) /\ After(g).i = h.i + 1
  <2>1. {"sql", "sqlArg"} \cup {"i", "arg"} = {"sql", "sqlArg", "i", "arg"}
    OBVIOUS
  <2> QED BY <2>1, AfterKeeps
<1>2. After(g).sql = SqlOf(h.section) /\ After(g).section = h.section
  BY AfterChanges, <1>1 DEF Keeps, Fields
<1>3. InSection(After(g), r, acc)
  BY <1>0, <1>1, SqlKeepsSection DEF Running, Keeps
<1>4. InSql(p, After(g))
  BY <1>1, <1>2, SqlEntries DEF InSql
<1>5. h.i <= Len(WmScheme[h.section])
  BY SqlEntries, Sections DEF SqlSections, SqlStart
<1>6. g.stageNames = h.stageNames /\ g.result = h.result
  BY DEF Keeps, Fields
<1> QED BY <1>0, <1>3, <1>4, <1>5, <1>6, GoesOn DEF Thread, Running

\* db.sql.1 = $pay.id: the key of the payment is filled in, when there is a connection.
LEMMA SqlKeyEntry ==
  ASSUME NEW p, NEW h, NEW r, NEW acc, Thread(p, "query", h, r, acc),
         h.section \in SqlSections, h.i = SqlStart(h.section) + 1,
         NEW g, Keeps(g, h, {"sqlArg"}), g.sqlArg["1"].escaped = p
  PROVE  Thread(p, "entry", After(g), r, acc)
<1>0. Fields \subseteq DOMAIN h /\ Running(p, "query", h, r, acc)
  BY DEF Thread
<1>1. Keeps(After(g), h, {"sqlArg", "i", "arg"}) /\ After(g).i = h.i + 1
  <2>1. {"sqlArg"} \cup {"i", "arg"} = {"sqlArg", "i", "arg"}
    OBVIOUS
  <2> QED BY <2>1, AfterKeeps
<1>2. /\ After(g).sqlArg = g.sqlArg /\ After(g).section = h.section /\ After(g).sql = h.sql
  BY AfterChanges, <1>1 DEF Keeps, Fields
<1>3. InSection(After(g), r, acc)
  <2>1. Keeps(After(g), h, {"i", "arg", "sql", "sqlArg"})
    BY <1>1 DEF Keeps
  <2> QED BY <1>0, <1>1, <2>1, SqlKeepsSection DEF Running
<1>4. InSql(p, After(g))
  BY <1>0, <1>1, <1>2, SqlEntries DEF InSql, Running
<1>5. h.i <= Len(WmScheme[h.section])
  BY SqlEntries, Sections DEF SqlSections, SqlStart
<1>6. g.stageNames = h.stageNames /\ g.result = h.result
  BY DEF Keeps, Fields
<1> QED BY <1>0, <1>3, <1>4, <1>5, <1>6, GoesOn DEF Thread, Running

\* The entries of section main outside its statement: the numbers of stages, then the
\* stage and the session of the row.
LEMMA MainEntry ==
  ASSUME NEW p, NEW h, NEW r, NEW acc, Thread(p, "entry", h, r, acc), h.section = "main",
         NEW g, Names(g.stageNames),
         \/ h.i \in 1..5 /\ Keeps(g, h, {"stageNames"})
         \/ /\ h.i = 9 /\ Keeps(g, h, {"stage", "stageName"})
            /\ g.stage = RowOr(r).stage /\ Named(g.stage, g.stageName)
         \/ h.i = 10 /\ Keeps(g, h, {"var"}) /\ Holds(g.var, "session", RowOr(r).session)
  PROVE  Thread(p, "entry", After(g), r, acc)
<1> DEFINE k == After(g)
<1>0. InMain(h, r) /\ (h.result = "completed" => Paid(r, acc)) /\ h.i <= Len(WmScheme[h.section])
  BY Sections DEF Thread, Running, InSection
<1>1. PICK F : Keeps(g, h, F) /\ F \in {{"stageNames"}, {"stage", "stageName"}, {"var"}}
  OBVIOUS
<1>2. Keeps(k, g, {"i", "arg"}) /\ k.i = h.i + 1 /\ k.section = "main"
  BY <1>1, AfterChanges DEF Keeps, Fields
<1>3. g.result = h.result
  BY <1>1 DEF Keeps, Fields
<1>4. InMain(k, r)
  <2>1. CASE h.i \in 1..5
    BY <1>2, <2>1 DEF InMain
  <2>2. CASE h.i = 9
    BY <1>0, <1>2, <2>2 DEF InMain, Keeps, Fields
  <2>3. CASE h.i = 10
    BY <1>0, <1>2, <2>3 DEF InMain, Keeps, Fields
  <2> QED BY <2>1, <2>2, <2>3
<1>5. InSection(k, r, acc)
  BY <1>2, <1>4 DEF InSection
<1>6. InSql(p, k)
  BY <1>2, NoSql DEF SqlStart
<1>7. F \cap {"section", "i"} = {}
  BY <1>1
<1> HIDE DEF k
<1> QED BY <1>0, <1>1, <1>3, <1>5, <1>6, <1>7, GoesOn DEF k

\* stage = main ends section init.
LEMMA InitEntry ==
  ASSUME NEW p, NEW h, NEW r, NEW acc, Thread(p, "entry", h, r, acc), h.section = "init", h.i = 4,
         NEW g, Keeps(g, h, {"stage", "stageName"}), g.stageName = "main"
  PROVE  Thread(p, "entry", After(g), r, acc)
<1> DEFINE k == After(g)
<1>0. /\ h.result = "completed" => Paid(r, acc)
      /\ h.i <= Len(WmScheme[h.section]) /\ Names(h.stageNames)
  BY Sections DEF Thread, Running
<1>1. Keeps(k, g, {"i", "arg"}) /\ k.i = 5 /\ k.section = "init" /\ k.stageName = "main"
  BY AfterChanges DEF Keeps, Fields
<1>2. g.result = h.result /\ g.stageNames = h.stageNames
  BY DEF Keeps, Fields
<1>3. InSection(k, r, acc)
  BY <1>1 DEF InSection, InInit
<1>4. InSql(p, k)
  BY <1>1, NoSql DEF SqlStart
<1> QED BY <1>0, <1>2, <1>3, <1>4, GoesOn

\* What an entry of a request changes in the hooks that matter, g after h.
RequestChange(g, h, r, acc, s) ==
  \/ h.i \in {1, 2, 6, 10, 12, 13} /\ Keeps(g, h, {})
  \/ h.i = 3 /\ Keeps(g, h, {"request", "requestArg"}) /\ g.request = RequestOf(s)
  \/ h.i \in {4, 5} /\ Keeps(g, h, {"requestArg"}) /\ Holds(g.requestArg, "session", r.session)
  \/ h.i = 7 /\ Keeps(g, h, {"answer"}) /\ Honest(g.answer, s, r, acc)
  \/ h.i = 8 /\ Keeps(g, h, {"tree"}) /\ g.tree = h.answer
  \/ /\ h.i = 9 /\ Keeps(g, h, {"code"}) /\ g.code["act"] \in {"success", "fatal"}
     /\ s = "pay" /\ g.code["act"] = "success" => r.session \in acc
  \/ h.i = 11 /\ Keeps(g, h, {"var"}) /\ Holds(g.var, "session", r.session)
  \/ /\ h.i = 14 /\ Keeps(g, h, {"stage", "stageName"}) /\ g.stageName = h.code["act"]
     /\ g.stageName = "success" => g.stage = h.stage

\* The entries of sections check and pay.
LEMMA RequestEntry ==
  ASSUME NEW p, NEW where \in {"entry", "send"}, NEW h, NEW r, NEW acc, Thread(p, where, h, r, acc),
         NEW s \in {"check", "pay"}, h.section = s,
         NEW g, RequestChange(g, h, r, acc, s)
  PROVE  Thread(p, "entry", After(g), r, acc)
<1> DEFINE k == After(g)
<1>0. /\ InRequest(h, r, acc, s) /\ (h.result = "completed" => Paid(r, acc)) /\ Names(h.stageNames)
      /\ h.i \in 1..14 /\ Len(WmScheme[h.section]) = 14
  BY Sections DEF Thread, Running, InSection, RequestChange
<1>1. PICK F : Keeps(g, h, F) /\ F \cap {"section", "i", "result", "stageNames"} = {}
  <2>1. h.i \in 1..14
    BY <1>0
  <2>2. CASE h.i \in {1, 2, 6, 10, 12, 13}
    BY <2>2 DEF RequestChange
  <2>3. CASE h.i = 3
    BY <2>3 DEF RequestChange
  <2>4. CASE h.i \in {4, 5}
    BY <2>4 DEF RequestChange
  <2>5. CASE h.i \in {7, 8, 9}
    BY <2>5 DEF RequestChange
  <2>6. CASE h.i \in {11, 14}
    BY <2>6 DEF RequestChange
  <2> QED BY <2>1, <2>2, <2>3, <2>4, <2>5, <2>6
<1>2. Keeps(k, g, {"i", "arg"}) /\ k.i = h.i + 1 /\ k.section = s
  BY <1>1, AfterChanges DEF Keeps, Fields
<1>3. g.result = h.result /\ g.stageNames = h.stageNames
  BY <1>1 DEF Keeps, Fields
<1>4. InRequest(k, r, acc, s)
  <2> USE <1>0, <1>2
  <2> HIDE DEF k
  <2>1. CASE h.i \in {1, 2, 6, 10, 12, 13}
    BY <2>1 DEF RequestChange, InRequest, Ready, Keeps, Fields
  <2>2. CASE h.i = 3
    BY <2>2 DEF RequestChange, InRequest, Ready, Keeps, Fields
  <2>3. CASE h.i = 4
    BY <2>3 DEF RequestChange, InRequest, Ready, Keeps, Fields
  <2>4. CASE h.i = 5
    BY <2>4 DEF RequestChange, InRequest, Ready, Keeps, Fields
  <2>5. CASE h.i = 7
    BY <2>5 DEF RequestChange, InRequest, Ready, Keeps, Fields
  <2>6. CASE h.i = 8
    BY <2>6 DEF RequestChange, InRequest, Ready, Keeps, Fields
  <2>7. CASE h.i = 9
    BY <2>7 DEF RequestChange, InRequest, Ready, Keeps, Fields
  <2>8. CASE h.i = 11
    BY <2>8 DEF RequestChange, InRequest, Ready, Keeps, Fields
  <2>9. CASE h.i = 14
    BY <2>9 DEF RequestChange, InRequest, Ready, Keeps, Fields
  <2> QED BY <2>1, <2>2, <2>3, <2>4, <2>5, <2>6, <2>7, <2>8, <2>9
<1>5. InSection(k, r, acc)
  BY <1>2, <1>4 DEF InSection
<1>6. InSql(p, k)
  BY <1>2, NoSql DEF SqlSections
<1>7. F \cap {"section", "i"} = {} /\ h.i <= Len(WmScheme[h.section]) /\ where \notin {"idle", "done"}
  BY <1>0, <1>1
<1>8. Names(g.stageNames) /\ (g.result = "completed" => Paid(r, acc))
  BY <1>0, <1>3
<1> QED BY <1>1, <1>5, <1>6, <1>7, <1>8, GoesOn

\* The entries of section complete outside its statement.
LEMMA CompleteEntry ==
  ASSUME NEW p, NEW where \in {"entry", "log"}, NEW h, NEW r, NEW acc, Thread(p, where, h, r, acc),
         h.section = "complete", r # NULL /\ r.stage = 3 => r.session \in acc,
         NEW g,
         \/ h.i = 1 /\ Keeps(g, h, {"result"}) /\ g.result = "completed"
         \/ h.i \in 5..8 /\ Keeps(g, h, {})
  PROVE  Thread(p, "entry", After(g), r, acc)
<1> DEFINE k == After(g)
<1>0. InComplete(h, r) /\ Names(h.stageNames) /\ h.i <= Len(WmScheme[h.section])
  BY Sections DEF Thread, Running, InSection
<1>1. Keeps(g, h, {"result"}) /\ g.result = "completed"
  BY <1>0 DEF Keeps, Fields, InComplete
<1>2. Keeps(k, g, {"i", "arg"}) /\ k.i = h.i + 1 /\ k.section = "complete"
  BY <1>1, AfterChanges DEF Keeps, Fields
<1>3. InSection(k, r, acc)
  BY <1>0, <1>1, <1>2 DEF InSection, InComplete, Keeps, Fields
<1>4. InSql(p, k)
  BY <1>2, NoSql DEF SqlStart
<1>5. Paid(r, acc) /\ g.stageNames = h.stageNames
  BY <1>0, <1>1 DEF Paid, InComplete, Keeps, Fields
<1> QED BY <1>0, <1>1, <1>3, <1>4, <1>5, GoesOn

\* stage = $stage.next begins section success.
LEMMA SuccessEntry ==
  ASSUME NEW p, NEW h, NEW r, NEW acc, Thread(p, "entry", h, r, acc), h.section = "success", h.i = 1,
         NEW g, Keeps(g, h, {"stage", "stageName"}), g.stage = h.stage + 1, Named(g.stage, g.stageName)
  PROVE  Thread(p, "entry", After(g), r, acc)
<1> DEFINE k == After(g)
<1>0. /\ InSuccess(h, r, acc) /\ (h.result = "completed" => Paid(r, acc)) /\ Names(h.stageNames)
      /\ h.i <= Len(WmScheme[h.section])
  BY Sections DEF Thread, Running, InSection
<1>1. Keeps(k, g, {"i", "arg"}) /\ k.i = 2 /\ k.section = "success"
  BY AfterChanges DEF Keeps, Fields
<1>2. InSuccess(k, r, acc)
  BY <1>0, <1>1 DEF InSuccess, Ready, Keeps, Fields
<1>3. InSection(k, r, acc)
  BY <1>1, <1>2 DEF InSection
<1>4. InSql(p, k)
  BY <1>1, NoSql DEF SqlStart
<1>5. g.result = h.result /\ g.stageNames = h.stageNames
  BY DEF Keeps, Fields
<1> QED BY <1>0, <1>3, <1>4, <1>5, GoesOn

\* pay.result = failed begins section fatal.
LEMMA FatalEntry ==
  ASSUME NEW p, NEW h, NEW r, NEW acc, Thread(p, "entry", h, r, acc), h.section = "fatal", h.i = 1,
         NEW g, Keeps(g, h, {"result"}), g.result = "failed"
  PROVE  Thread(p, "entry", After(g), r, acc)
<1> DEFINE k == After(g)
<1>0. InFatal(h, r) /\ Names(h.stageNames) /\ h.i <= Len(WmScheme[h.section])
  BY Sections DEF Thread, Running, InSection
<1>1. Keeps(k, g, {"i", "arg"}) /\ k.i = 2 /\ k.section = "fatal"
  BY AfterChanges DEF Keeps, Fields
<1>2. InSection(k, r, acc)
  BY <1>0, <1>1 DEF InSection, InFatal, Keeps, Fields
<1>3. InSql(p, k)
  BY <1>1, NoSql DEF SqlStart
<1>4. g.stageNames = h.stageNames
  BY DEF Keeps, Fields
<1> QED BY <1>0, <1>2, <1>3, <1>4, GoesOn

-----------------------------------------------------------------------------
(* evalParams: the value v of entry e is there; the entry is through, or    *)
(* the thread reaches for the outside.                                      *)

Outcome(p, v, e, r, acc) ==
  IF Outside(e.param) = NULL
  THEN LET w == EvaluateConfigParam(v.u, e.param, v.val)
       IN w.ok => Thread(p, "entry", After(w.u), r, acc)
  ELSE Thread(p, Outside(e.param), [v.u EXCEPT !.arg = v.val], r, acc)

\* Which entries reach for the outside.
LEMMA Outsides ==
  /\ Outside(<<"db", "sql", "1">>) = "connect" /\ Outside(<<"db", "execute">>) = "connect"
  /\ Outside(<<"transport", "write">>) = "send" /\ Outside(<<"log", "write">>) = "log"
  /\ Outside(<<"db", "sql">>) = NULL
  /\ \A x \in {"file", "record"} : Outside(<<"log", x>>) = NULL /\ Outside(<<"log", x, "1">>) = NULL
  /\ \A a \in {"stage", "var", "request", "config", "wm_signature", "parser", "code", "template", "pay"} :
       /\ Outside(<<a>>) = NULL
       /\ \A x : Outside(<<a, x>>) = NULL
       /\ \A x, y : Outside(<<a, x, y>>) = NULL
BY DEF Outside, UsesConnection

\* A thread that waits keeps its place.
LEMMA WaitsInPlace ==
  ASSUME NEW p, NEW where, where \notin {"idle", "done"}, NEW h, NEW r, NEW acc, Thread(p, where, h, r, acc),
         NEW to \in Waits \cup {"send", "log"}, NEW g, Keeps(g, h, {"arg"}), Waiting(p, to, g, r)
  PROVE  Thread(p, to, g, r, acc)
<1>0. Running(p, where, h, r, acc) /\ (h.result = "completed" => Paid(r, acc))
  BY DEF Thread
<1>1. /\ Fields \subseteq DOMAIN g /\ g.section = h.section /\ g.i = h.i /\ g.result = h.result
      /\ g.stage = h.stage /\ g.stageName = h.stageName /\ g.stageNames = h.stageNames /\ g.var = h.var
      /\ g.sql = h.sql /\ g.sqlArg = h.sqlArg /\ g.rows = h.rows /\ g.answer = h.answer /\ g.tree = h.tree
      /\ g.code = h.code /\ g.request = h.request /\ g.requestArg = h.requestArg
  BY DEF Keeps, Fields
<1>2. InScheme(g) /\ Names(g.stageNames) /\ InSql(p, g)
  BY <1>0, <1>1 DEF Running, InScheme, InSql
<1>3. InSection(g, r, acc)
  BY <1>0, <1>1 DEF Running, InSection, InMain, InInit, InRequest, InSuccess, InComplete, InFatal, Ready
<1>4. to # "idle" /\ to # "done"
  BY DEF Waits
<1> QED BY <1>0, <1>1, <1>2, <1>3, <1>4 DEF Thread, Running

LEMMA ArgKeeps ==
  ASSUME NEW h, NEW g, NEW x, Keeps(g, h, {})
  PROVE  Keeps([g EXCEPT !.arg = x], h, {"arg"}) /\ [g EXCEPT !.arg = x].arg = x
BY DEF Keeps, Fields

\* The entries of a statement.
LEMMA SqlOutcome ==
  ASSUME WebmoneyConfigured, NEW p \in Payments, NEW h, NEW r, NEW acc, Thread(p, "entry", h, r, acc),
         h.section \in SqlSections,
         h.i \in {SqlStart(h.section), SqlStart(h.section) + 1, SqlStart(h.section) + 2},
         NEW e, e = WmScheme[h.section][h.i], NEW v, v = EvaluateConfigValue(h, p, e.value), v.ok
  PROVE  Outcome(p, v, e, r, acc)
<1>0. Running(p, "entry", h, r, acc) /\ Fields \subseteq DOMAIN h
  BY DEF Thread
<1>1. CASE h.i = SqlStart(h.section)
  <2>1. e = Set(<<"db", "sql">>, SqlOf(h.section))
    BY <1>1, SqlEntries DEF SqlText
  <2>2. v = Ok(h, SqlOf(h.section)) /\ e.param = <<"db", "sql">>
    BY <2>1, SetValue, SetParam
  <2>3. EvaluateConfigParam(v.u, e.param, v.val) =
          Ok([h EXCEPT !.sql = SqlOf(h.section), !.sqlArg = <<>>], SqlOf(h.section))
    <3>1. v.u = h /\ v.val = SqlOf(h.section)
      BY <2>2, Results
    <3>2. EvaluateConfigParam(v.u, e.param, v.val) = EvaluateConfigParam(h, <<"db", "sql">>, SqlOf(h.section))
      BY <2>2, <3>1
    <3>3. EvaluateConfigParam(h, <<"db", "sql">>, SqlOf(h.section)) =
            Ok([h EXCEPT !.sql = SqlOf(h.section), !.sqlArg = <<>>], SqlOf(h.section))
      BY SqlWrite
    <3> QED BY <3>2, <3>3
  <2> DEFINE g == [h EXCEPT !.sql = SqlOf(h.section), !.sqlArg = <<>>]
  <2>4. Keeps(g, h, {"sql", "sqlArg"}) /\ g.sql = SqlOf(h.section)
    BY <1>0 DEF Keeps, Fields
  <2>5. EvaluateConfigParam(v.u, e.param, v.val).u = g
    BY <2>3, Results
  <2> HIDE DEF g
  <2>6. Thread(p, "entry", After(g), r, acc)
    BY <1>1, <2>4, SqlTextEntry
  <2> QED BY <2>2, <2>5, <2>6, Outsides DEF Outcome
<1>2. CASE h.i = SqlStart(h.section) + 1
  <2>1. e = Copy(<<"db", "sql", "1">>, <<"pay", "id">>)
    BY <1>2, SqlEntries DEF SqlKey
  <2>2. e.param = <<"db", "sql", "1">> /\ v = HookRead(h, p, "pay", <<"id">>)
    BY <2>1, CopyValue, CopyParam, Results
  <2>3. v.u = h /\ v.val = p
    BY <2>2, Reads, Results DEF WebmoneyConfigured
  <2> DEFINE g == [h EXCEPT !.arg = p]
  <2>4. Keeps(g, h, {"arg"}) /\ g.arg = p
    BY <1>0, ArgKeeps DEF Keeps
  <2>5. SqlStart(h.section) \in Nat
    BY SqlEntries
  <2>6. Waiting(p, "connect", g, r)
    BY <1>2, <2>4, <2>5 DEF Waiting, Keeps, Fields
  <2>7. Thread(p, "connect", g, r, acc)
    <3> HIDE DEF g
    <3> QED BY <2>4, <2>6, WaitsInPlace DEF Waits
  <2> QED BY <2>2, <2>3, <2>7, Outsides, NullIsNothing DEF Outcome
<1>3. CASE h.i = SqlStart(h.section) + 2
  <2>1. e = Copy(<<"db", "execute">>, <<"db", "sql">>)
    BY <1>3, SqlEntries DEF SqlExecute
  <2>2. e.param = <<"db", "execute">> /\ v = HookRead(h, p, "db", <<"sql">>)
    BY <2>1, CopyValue, CopyParam, Results
  <2>3. v.u = h /\ v.val = Evaluate(h.sql, h.sqlArg)
    BY <2>2, Reads, Results
  <2> DEFINE g == [h EXCEPT !.arg = Evaluate(h.sql, h.sqlArg)]
  <2>4. Keeps(g, h, {"arg"}) /\ g.arg = Evaluate(h.sql, h.sqlArg)
    BY <1>0, ArgKeeps DEF Keeps
  <2>5. SqlStart(h.section) \in Nat
    BY SqlEntries
  <2>6. h.sql = SqlOf(h.section) /\ h.sqlArg["1"].escaped = p
    BY <1>0, <1>3 DEF Running, InSql
  <2>7. Waiting(p, "connect", g, r)
    BY <1>3, <2>4, <2>5, <2>6 DEF Waiting, Keeps, Fields, Evaluate
  <2>8. Thread(p, "connect", g, r, acc)
    <3> HIDE DEF g
    <3> QED BY <2>4, <2>7, WaitsInPlace DEF Waits
  <2> QED BY <2>2, <2>3, <2>8, Outsides, NullIsNothing DEF Outcome
<1> QED BY <1>1, <1>2, <1>3

\* An entry that changes g into a good next one is through.
LEMMA LocalOutcome ==
  ASSUME NEW p, NEW v, NEW e, NEW r, NEW acc, Outside(e.param) = NULL, NEW w,
         w = EvaluateConfigParam(v.u, e.param, v.val), w.ok => Thread(p, "entry", After(w.u), r, acc)
  PROVE  Outcome(p, v, e, r, acc)
BY DEF Outcome

LEMMA MainNames ==
  ASSUME NEW i \in 1..5
  PROVE  \E n, name : WmScheme["main"][i] = Set(<<"stage", "id", n>>, name) /\ Named(n, name)
<1>0. WmScheme["main"] = WmMain
  BY DEF WmScheme
<1>1. CASE i = 1
  <2>1. WmMain[1] = Set(<<"stage", "id", 0>>, "init") /\ Named(0, "init")
    BY DEF WmMain, Named
  <2> QED BY <1>0, <1>1, <2>1
<1>2. CASE i = 2
  <2>1. WmMain[2] = Set(<<"stage", "id", 1>>, "check") /\ Named(1, "check")
    BY DEF WmMain, Named
  <2> QED BY <1>0, <1>2, <2>1
<1>3. CASE i = 3
  <2>1. WmMain[3] = Set(<<"stage", "id", 2>>, "pay") /\ Named(2, "pay")
    BY DEF WmMain, Named
  <2> QED BY <1>0, <1>3, <2>1
<1>4. CASE i = 4
  <2>1. WmMain[4] = Set(<<"stage", "id", 3>>, "complete") /\ Named(3, "complete")
    BY DEF WmMain, Named
  <2> QED BY <1>0, <1>4, <2>1
<1>5. CASE i = 5
  <2>1. WmMain[5] = Set(<<"stage", "id", 4>>, "fatal") /\ Named(4, "fatal")
    BY DEF WmMain, Named
  <2> QED BY <1>0, <1>5, <2>1
<1> QED BY <1>1, <1>2, <1>3, <1>4, <1>5

\* Section main.
LEMMA MainOutcome ==
  ASSUME NEW p, NEW h, NEW r, NEW acc, Thread(p, "entry", h, r, acc),
         r # NULL => r \in [stage : 1..4, session : Nat],
         h.section = "main", h.i \in 1..5 \cup {9, 10},
         NEW e, e = WmScheme[h.section][h.i], NEW v, v = EvaluateConfigValue(h, p, e.value), v.ok
  PROVE  Outcome(p, v, e, r, acc)
<1>0. /\ Running(p, "entry", h, r, acc) /\ Fields \subseteq DOMAIN h /\ Names(h.stageNames)
      /\ InMain(h, r)
  BY DEF Thread, Running, InSection
<1> DEFINE w == EvaluateConfigParam(v.u, e.param, v.val)
<1>1. CASE h.i \in 1..5
  <2>1. PICK n, name : e = Set(<<"stage", "id", n>>, name) /\ Named(n, name)
    BY <1>1, MainNames
  <2>2. v = Ok(h, name) /\ e.param = <<"stage", "id", n>>
    BY <2>1, SetValue, SetParam
  <2>3. v.u = h /\ v.val = name
    BY <2>2, Results
  <2>4. w = Ok([h EXCEPT !.stageNames = Put(@, n, name)], name)
    BY <2>2, <2>3, StageListWrite
  <2>5. w.u = [h EXCEPT !.stageNames = Put(h.stageNames, n, name)]
    BY <2>4, Results
  <2>6. Keeps(w.u, h, {"stageNames"}) /\ w.u.stageNames = Put(h.stageNames, n, name)
    BY <1>0, <2>5 DEF Keeps, Fields
  <2>7. Names(Put(h.stageNames, n, name))
    BY <1>0, <2>1, PutNames
  <2> HIDE DEF w
  <2>8. Thread(p, "entry", After(w.u), r, acc)
    BY <1>1, <2>6, <2>7, MainEntry
  <2>9. Outside(e.param) = NULL
    BY <2>2, Outsides
  <2> QED BY <2>8, <2>9, LocalOutcome DEF w
<1>2. CASE h.i = 9
  <2>1. e = Copy(<<"stage", "id">>, <<"db", "field", "stage">>)
    BY <1>2 DEF WmScheme, WmMain
  <2>2. v = HookRead(h, p, "db", <<"field", "stage">>) /\ e.param = <<"stage", "id">>
    BY <2>1, CopyField, CopyParam, Results
  <2>3. h.rows # <<>> /\ h.rows[1] = RowOr(r) /\ "stage" \in DOMAIN RowOr(r)
    BY <1>0, <1>2 DEF InMain, RowOr, Row
  <2>4. v = Ok(h, RowOr(r)["stage"])
    BY <2>2, <2>3, FieldRead
  <2>5. v.u = h /\ v.val = RowOr(r).stage
    BY <2>4, Results
  <2>6. w = SetStageNumber(h, RowOr(r).stage)
    BY <2>2, <2>5, StageIdWrite
  <2> HIDE DEF w
  <2>7. w.ok => Thread(p, "entry", After(w.u), r, acc)
    <3> SUFFICES ASSUME w.ok PROVE Thread(p, "entry", After(w.u), r, acc)
      OBVIOUS
    <3>1. /\ Keeps(w.u, h, {"stage", "stageName"}) /\ w.u.stage = RowOr(r).stage
          /\ Named(RowOr(r).stage, w.u.stageName)
      BY <1>0, <2>6, StageNumberSet
    <3>2. w.u.stageNames = h.stageNames
      BY <3>1 DEF Keeps, Fields
    <3> QED BY <1>0, <1>2, <3>1, <3>2, MainEntry
  <2>8. Outside(e.param) = NULL
    BY <2>2, Outsides
  <2> QED BY <2>7, <2>8, LocalOutcome DEF w
<1>3. CASE h.i = 10
  <2>1. e = Copy(<<"var", "session">>, <<"db", "field", "session">>)
    BY <1>3 DEF WmScheme, WmMain
  <2>2. v = HookRead(h, p, "db", <<"field", "session">>) /\ e.param = <<"var", "session">>
    BY <2>1, CopyField, CopyParam, Results
  <2>3. h.rows # <<>> /\ h.rows[1] = RowOr(r) /\ "session" \in DOMAIN RowOr(r)
    BY <1>0, <1>3 DEF InMain, RowOr, Row
  <2>4. v = Ok(h, RowOr(r)["session"])
    BY <2>2, <2>3, FieldRead
  <2>5. v.u = h /\ v.val = RowOr(r).session
    BY <2>4, Results
  <2>6. w = Ok([h EXCEPT !.var = Put(@, "session", RowOr(r).session)], RowOr(r).session)
    BY <2>2, <2>5, SessionWrite
  <2>7. w.u = [h EXCEPT !.var = Put(h.var, "session", RowOr(r).session)]
    BY <2>6, Results
  <2>8. /\ Keeps(w.u, h, {"var"}) /\ w.u.var = Put(h.var, "session", RowOr(r).session)
        /\ w.u.stageNames = h.stageNames
    BY <1>0, <2>7 DEF Keeps, Fields
  <2>9. Holds(w.u.var, "session", RowOr(r).session)
    BY ONLY <2>8 DEF Put, Holds
  <2> HIDE DEF w
  <2>10. Thread(p, "entry", After(w.u), r, acc)
    BY <1>0, <1>3, <2>8, <2>9, MainEntry
  <2>11. Outside(e.param) = NULL
    BY <2>2, Outsides
  <2> QED BY <2>10, <2>11, LocalOutcome DEF w
<1> QED BY <1>1, <1>2, <1>3

\* The last entry of section init.
LEMMA InitOutcome ==
  ASSUME NEW p, NEW h, NEW r, NEW acc, Thread(p, "entry", h, r, acc), h.section = "init", h.i = 4,
         NEW e, e = WmScheme[h.section][h.i], NEW v, v = EvaluateConfigValue(h, p, e.value), v.ok
  PROVE  Outcome(p, v, e, r, acc)
<1> DEFINE w == EvaluateConfigParam(v.u, e.param, v.val)
<1>0. Fields \subseteq DOMAIN h /\ Names(h.stageNames)
  BY DEF Thread, Running
<1>1. e = Set(<<"stage">>, "main")
  BY DEF WmScheme, WmInit
<1>2. v = Ok(h, "main") /\ e.param = <<"stage">>
  BY <1>1, SetValue, SetParam
<1>3. v.u = h /\ v.val = "main"
  BY <1>2, Results
<1>4. w.u = SetStageName(h, "main")
  BY <1>2, <1>3, StageNameWrite, Results
<1>5. Keeps(w.u, h, {"stage", "stageName"}) /\ w.u.stageName = "main"
  BY <1>0, <1>4, StageNameSet
<1> HIDE DEF w
<1>6. Thread(p, "entry", After(w.u), r, acc)
  BY <1>5, InitEntry
<1>7. Outside(e.param) = NULL
  BY <1>2, Outsides
<1> QED BY <1>6, <1>7, LocalOutcome DEF w

\* The first entry of section success.
LEMMA SuccessOutcome ==
  ASSUME NEW p, NEW h, NEW r, NEW acc, Thread(p, "entry", h, r, acc), h.section = "success", h.i = 1,
         NEW e, e = WmScheme[h.section][h.i], NEW v, v = EvaluateConfigValue(h, p, e.value), v.ok
  PROVE  Outcome(p, v, e, r, acc)
<1> DEFINE w == EvaluateConfigParam(v.u, e.param, v.val)
<1>0. Fields \subseteq DOMAIN h /\ Names(h.stageNames)
  BY DEF Thread, Running
<1>1. e = Copy(<<"stage">>, <<"stage", "next">>)
  BY DEF WmScheme, WmSuccess
<1>2. v = HookRead(h, p, "stage", <<"next">>) /\ e.param = <<"stage">>
  BY <1>1, CopyValue, CopyParam, Results
<1>3. v = Lookup(h, h.stageNames, h.stage + 1)
  BY <1>2, Reads
<1>4. h.stage + 1 \in DOMAIN h.stageNames /\ v.u = h /\ v.val = h.stageNames[h.stage + 1]
  BY <1>3, Results DEF Lookup
<1>5. w.u = SetStageName(h, h.stageNames[h.stage + 1])
  BY <1>2, <1>4, StageNameWrite, Results
<1>6. /\ Keeps(w.u, h, {"stage", "stageName"}) /\ w.u.stageName = h.stageNames[h.stage + 1]
      /\ w.u.stage = h.stage + 1
  BY <1>0, <1>4, <1>5, StageNameSet
<1>7. Named(w.u.stage, w.u.stageName)
  BY <1>0, <1>4, <1>6 DEF Names
<1> HIDE DEF w
<1>8. Thread(p, "entry", After(w.u), r, acc)
  BY <1>6, <1>7, SuccessEntry
<1>9. Outside(e.param) = NULL
  BY <1>2, Outsides
<1> QED BY <1>8, <1>9, LocalOutcome DEF w

\* The first entry of section fatal.
LEMMA FatalOutcome ==
  ASSUME NEW p, NEW h, NEW r, NEW acc, Thread(p, "entry", h, r, acc), h.section = "fatal", h.i = 1,
         NEW e, e = WmScheme[h.section][h.i], NEW v, v = EvaluateConfigValue(h, p, e.value), v.ok
  PROVE  Outcome(p, v, e, r, acc)
<1> DEFINE w == EvaluateConfigParam(v.u, e.param, v.val)
<1>0. Fields \subseteq DOMAIN h
  BY DEF Thread
<1>1. e = Set(<<"pay", "result">>, "failed")
  BY DEF WmScheme, WmFatal
<1>2. v = Ok(h, "failed") /\ e.param = <<"pay", "result">>
  BY <1>1, SetValue, SetParam
<1>3. v.u = h /\ v.val = "failed"
  BY <1>2, Results
<1>4. w.u = [h EXCEPT !.result = "failed"]
  BY <1>2, <1>3, ResultWrite, Results
<1>5. Keeps(w.u, h, {"result"}) /\ w.u.result = "failed"
  BY <1>0, <1>4 DEF Keeps, Fields
<1> HIDE DEF w
<1>6. Thread(p, "entry", After(w.u), r, acc)
  BY <1>5, FatalEntry
<1>7. Outside(e.param) = NULL
  BY <1>2, Outsides
<1> QED BY <1>6, <1>7, LocalOutcome DEF w

\* Entries that change nothing the course depends on.
LEMMA OtherOutcome ==
  ASSUME NEW h, Fields \subseteq DOMAIN h, NEW p, NEW e, NEW v, v = EvaluateConfigValue(h, p, e.value), v.ok,
         e.param # <<>>,
         Head(e.param) \in {"wm_signature", "template", "config", "log"} \/ e.param = <<"pay", "error">>,
         NEW w, w = EvaluateConfigParam(v.u, e.param, v.val), w.ok
  PROVE  Keeps(w.u, h, {})
<1>1. Keeps(v.u, h, {})
  BY ValueKeeps
<1>2. Keeps(w.u, v.u, {})
  <2>1. Fields \subseteq DOMAIN v.u
    BY <1>1 DEF Keeps
  <2> QED BY <2>1, OtherWrites
<1> QED BY <1>1, <1>2, KeepsChain

\* code = $parser.get.retval: only code "0" goes on.
LEMMA CodeSet ==
  ASSUME WebmoneyConfigured, NEW h, Fields \subseteq DOMAIN h, NEW v, CodeWrite(h, <<>>, v).ok
  PROVE  /\ Keeps(CodeWrite(h, <<>>, v).u, h, {"code"})
         /\ CodeWrite(h, <<>>, v).u.code["act"] \in {"success", "fatal"}
         /\ CodeWrite(h, <<>>, v).u.code["act"] = "success" => v = "0"
<1> DEFINE c == IF v \in DOMAIN Codes THEN v ELSE "default"
<1>1. CodeWrite(h, <<>>, v).u = [h EXCEPT !.code = Codes[c]] /\ c \in DOMAIN Codes
  BY Results DEF CodeWrite
<1>2. Codes = WmCodes
  BY DEF WebmoneyConfigured
<1>3. Codes[c]["act"] = IF c = "0" THEN "success" ELSE "fatal"
  BY <1>1, <1>2 DEF WmCodes
<1>4. c = "0" => v = "0"
  OBVIOUS
<1> HIDE DEF c
<1>5. Keeps(CodeWrite(h, <<>>, v).u, h, {"code"}) /\ CodeWrite(h, <<>>, v).u.code = Codes[c]
  BY <1>1 DEF Keeps, Fields
<1> QED BY <1>3, <1>4, <1>5

LEMMA RequestOutside ==
  ASSUME NEW s \in {"check", "pay"}, NEW i \in 1..14, i # 7
  PROVE  Outside(WmScheme[s][i].param) = NULL
<1>1. CASE i \in {1, 2}
  BY <1>1, RequestEntries, Outsides
<1>2. CASE i \in {3, 4, 5}
  BY <1>2, RequestEntries, SetParam, CopyParam, Outsides
<1>3. CASE i \in {6, 8, 9}
  BY <1>3, RequestEntries, CopyParam, Outsides
<1>4. CASE i \in {10, 11}
  BY <1>4, RequestEntries, CopyParam, Outsides
<1>5. CASE i \in {12, 13, 14}
  BY <1>5, RequestEntries, CopyParam, Outsides
<1>6. i \in {1, 2} \cup {3, 4, 5} \cup {6, 8, 9} \cup {10, 11} \cup {12, 13, 14}
  OBVIOUS
<1> QED BY <1>1, <1>2, <1>3, <1>4, <1>5, <1>6

\* Sections check and pay, without the request itself.
LEMMA RequestOutcome ==
  ASSUME WebmoneyConfigured, NEW p, NEW h, NEW r, NEW acc, Thread(p, "entry", h, r, acc),
         NEW s \in {"check", "pay"}, h.section = s, h.i \in 1..14, h.i # 7,
         NEW e, e = WmScheme[h.section][h.i], NEW v, v = EvaluateConfigValue(h, p, e.value), v.ok,
         NEW w, w = EvaluateConfigParam(v.u, e.param, v.val), w.ok
  PROVE  RequestChange(w.u, h, r, acc, s) /\ Outside(e.param) = NULL
<1>0. /\ Fields \subseteq DOMAIN h /\ Names(h.stageNames) /\ InRequest(h, r, acc, s)
      /\ Keeps(v.u, h, {}) /\ Fields \subseteq DOMAIN v.u
  <2>1. Fields \subseteq DOMAIN h /\ Names(h.stageNames) /\ InRequest(h, r, acc, s)
    BY DEF Thread, Running, InSection
  <2>2. Keeps(v.u, h, {})
    BY <2>1, ValueKeeps
  <2> QED BY <2>1, <2>2 DEF Keeps
<1>1. CASE h.i \in {1, 2, 6, 10, 12, 13}
  <2>1. e.param \in {<<"wm_signature", "data">>, <<"wm_signature", "append_data">>, <<"config", "transport", "url">>,
                     <<"template", "error">>, <<"template", "error", "WMERROR">>, <<"pay", "error">>}
    <3>1. CASE h.i \in {1, 2}
      BY <3>1, RequestEntries
    <3>2. CASE h.i = 6
      BY <3>2, RequestEntries, CopyParam
    <3>3. CASE h.i = 10
      BY <3>3, RequestEntries, CopyParam
    <3>4. CASE h.i = 12
      BY <3>4, RequestEntries, CopyParam
    <3>5. CASE h.i = 13
      BY <3>5, RequestEntries, CopyParam
    <3> QED BY <1>1, <3>1, <3>2, <3>3, <3>4, <3>5
  <2>2. /\ e.param # <<>> /\ Outside(e.param) = NULL
        /\ Head(e.param) \in {"wm_signature", "template", "config", "log"} \/ e.param = <<"pay", "error">>
    <3>1. CASE e.param = <<"wm_signature", "data">>
      BY <3>1, Outsides
    <3>2. CASE e.param = <<"wm_signature", "append_data">>
      BY <3>2, Outsides
    <3>3. CASE e.param = <<"config", "transport", "url">>
      BY <3>3, Outsides
    <3>4. CASE e.param = <<"template", "error">>
      BY <3>4, Outsides
    <3>5. CASE e.param = <<"template", "error", "WMERROR">>
      BY <3>5, Outsides
    <3>6. CASE e.param = <<"pay", "error">>
      BY <3>6, Outsides
    <3> QED BY <2>1, <3>1, <3>2, <3>3, <3>4, <3>5, <3>6
  <2>3. Keeps(w.u, h, {})
    BY <1>0, <2>2, OtherOutcome
  <2> QED BY <1>1, <2>2, <2>3 DEF RequestChange
<1>2. CASE h.i = 3
  <2>1. e.param = <<"request">> /\ v.u = h /\ v.val = RequestOf(s)
    <3>1. e = Set(<<"request">>, RequestOf(s))
      BY <1>2, RequestEntries
    <3> QED BY <3>1, SetValue, SetParam, Results
  <2>2. w.u = [h EXCEPT !.request = RequestOf(s), !.requestArg = <<>>]
    <3>1. w = Ok([h EXCEPT !.request = RequestOf(s), !.requestArg = <<>>], RequestOf(s))
      <4>1. w = EvaluateConfigParam(h, <<"request">>, RequestOf(s))
        BY <2>1
      <4>2. EvaluateConfigParam(h, <<"request">>, RequestOf(s)) =
              Ok([h EXCEPT !.request = RequestOf(s), !.requestArg = <<>>], RequestOf(s))
        BY RequestTextWrite
      <4> QED BY <4>1, <4>2
    <3> QED BY <3>1, Results
  <2>3. Keeps(w.u, h, {"request", "requestArg"}) /\ w.u.request = RequestOf(s)
    BY <1>0, <2>2 DEF Keeps, Fields
  <2> QED BY <1>2, <2>1, <2>3, Outsides DEF RequestChange
<1>3. CASE h.i = 4
  <2>1. e = Copy(<<"request", "session">>, <<"var", "session">>)
    BY <1>3, RequestEntries
  <2>2. e.param = <<"request", "session">> /\ v = HookRead(h, p, "var", <<"session">>)
    BY <2>1, CopyValue, CopyParam, Results
  <2>3. v.u = h /\ v.val = h.var["session"]
    BY <2>2, Reads, Results
  <2>4. h.var["session"] = r.session
    BY <1>0, <1>3 DEF InRequest, Ready, Holds
  <2>5. w.u = [h EXCEPT !.requestArg = Put(h.requestArg, "session", r.session)]
    BY <2>2, <2>3, <2>4, RequestArgWrite, Results
  <2>6. Keeps(w.u, h, {"requestArg"}) /\ w.u.requestArg = Put(h.requestArg, "session", r.session)
    BY <1>0, <2>5 DEF Keeps, Fields
  <2>7. Holds(w.u.requestArg, "session", r.session)
    BY ONLY <2>6 DEF Put, Holds
  <2> QED BY <1>3, <2>2, <2>6, <2>7, Outsides DEF RequestChange
<1>4. CASE h.i = 5
  <2>1. e.param = <<"request", "sign">>
    BY <1>4, RequestEntries, CopyParam
  <2>2. w.u = [v.u EXCEPT !.requestArg = Put(v.u.requestArg, "sign", v.val)]
    <3> DEFINE g == v.u
    <3> DEFINE x == v.val
    <3> DEFINE k == [g EXCEPT !.requestArg = Put(g.requestArg, "sign", x)]
    <3> HIDE DEF g, x
    <3>1. w = EvaluateConfigParam(g, <<"request", "sign">>, x)
      BY <2>1 DEF g, x
    <3>2. w = Ok(k, x)
      BY ONLY <3>1, RequestArgWrite
    <3>3. w.u = k
      <4> HIDE DEF k
      <4> QED BY ONLY <3>2, Results
    <3> QED BY ONLY <3>3 DEF g, x
  <2>3. Keeps(w.u, v.u, {"requestArg"}) /\ w.u.requestArg = Put(v.u.requestArg, "sign", v.val)
    BY <1>0, <2>2 DEF Keeps, Fields
  <2>4. Keeps(w.u, h, {"requestArg"})
    BY <1>0, <2>3, KeepsChain
  <2>5. v.u.requestArg = h.requestArg /\ Holds(h.requestArg, "session", r.session)
    <3>1. v.u.requestArg = h.requestArg
      BY <1>0 DEF Keeps, Fields
    <3>2. Holds(h.requestArg, "session", r.session)
      BY <1>0, <1>4 DEF InRequest
    <3> QED BY <3>1, <3>2
  <2>6. Holds(w.u.requestArg, "session", r.session)
    BY ONLY <2>3, <2>5 DEF Put, Holds
  <2> QED BY <1>4, <2>1, <2>4, <2>6, Outsides DEF RequestChange
<1>5. CASE h.i = 8
  <2>1. e = Copy(<<"parser", "parse">>, <<"transport", "read">>)
    BY <1>5, RequestEntries
  <2>2. e.param = <<"parser", "parse">> /\ v = HookRead(h, p, "transport", <<"read">>)
    BY <2>1, CopyValue, CopyParam, Results
  <2>3. v.u = h /\ v.val = h.answer
    BY <2>2, Reads, Results
  <2>4. w.u = [h EXCEPT !.tree = h.answer]
    BY <2>2, <2>3, ParseWrite, Results
  <2>5. Keeps(w.u, h, {"tree"}) /\ w.u.tree = h.answer
    BY <1>0, <2>4 DEF Keeps, Fields
  <2> QED BY <1>5, <2>2, <2>5, Outsides DEF RequestChange
<1>6. CASE h.i = 9
  <2>1. e = Copy(<<"code">>, <<"parser", "get", "retval">>)
    BY <1>6, RequestEntries
  <2>2. e.param = <<"code">> /\ v = HookRead(h, p, "parser", <<"get", "retval">>)
    BY <2>1, CopyField, CopyParam, Results
  <2>3. v.u = h /\ v.val = h.tree["retval"] /\ "retval" \in DOMAIN h.tree
    BY <2>2, Reads, Results DEF Lookup
  <2>4. w = CodeWrite(h, <<>>, h.tree["retval"])
    BY <2>2, <2>3, CodeSetWrite
  <2>5. /\ Keeps(w.u, h, {"code"}) /\ w.u.code["act"] \in {"success", "fatal"}
        /\ w.u.code["act"] = "success" => h.tree["retval"] = "0"
    BY <1>0, <2>4, CodeSet
  <2>6. Honest(h.tree, s, r, acc)
    BY <1>0, <1>6 DEF InRequest
  <2>7. s = "pay" /\ w.u.code["act"] = "success" => r.session \in acc
    BY <2>3, <2>5, <2>6 DEF Honest
  <2> QED BY <1>6, <2>2, <2>5, <2>7, Outsides DEF RequestChange
<1>7. CASE h.i = 11
  <2>1. e.param = <<"var", "error", "cp1251">>
    BY <1>7, RequestEntries, CopyParam
  <2>2. w.u = [v.u EXCEPT !.var = Put(v.u.var, "error", Koi8r(v.val))]
    <3> DEFINE g == v.u
    <3> DEFINE x == v.val
    <3> DEFINE k == [g EXCEPT !.var = Put(g.var, "error", Koi8r(x))]
    <3> HIDE DEF g, x
    <3>1. w = EvaluateConfigParam(g, <<"var", "error", "cp1251">>, x)
      BY <2>1 DEF g, x
    <3>2. w = Ok(k, x)
      BY ONLY <3>1, ErrorWrite
    <3>3. w.u = k
      <4> HIDE DEF k
      <4> QED BY ONLY <3>2, Results
    <3> QED BY ONLY <3>3 DEF g, x
  <2>3. Keeps(w.u, v.u, {"var"}) /\ w.u.var = Put(v.u.var, "error", Koi8r(v.val))
    BY <1>0, <2>2 DEF Keeps, Fields
  <2>4. Keeps(w.u, h, {"var"})
    BY <1>0, <2>3, KeepsChain
  <2>5. v.u.var = h.var /\ Holds(h.var, "session", r.session)
    <3>1. v.u.var = h.var
      BY <1>0 DEF Keeps, Fields
    <3>2. Holds(h.var, "session", r.session)
      BY <1>0, <1>7 DEF InRequest, Ready
    <3> QED BY <3>1, <3>2
  <2>6. Holds(w.u.var, "session", r.session)
    BY ONLY <2>3, <2>5 DEF Put, Holds
  <2>7. Outside(e.param) = NULL
    BY <2>1, Outsides
  <2> QED BY <1>7, <2>4, <2>6, <2>7 DEF RequestChange
<1>8. CASE h.i = 14
  <2>1. e = Copy(<<"stage">>, <<"code", "act">>)
    BY <1>8, RequestEntries
  <2>2. e.param = <<"stage">> /\ v = HookRead(h, p, "code", <<"act">>)
    BY <2>1, CopyValue, CopyParam, Results
  <2>3. v.u = h /\ v.val = h.code["act"]
    BY <2>2, Reads, Results
  <2>4. w.u = SetStageName(h, h.code["act"])
    BY <2>2, <2>3, StageNameWrite, Results
  <2>5. /\ Keeps(w.u, h, {"stage", "stageName"}) /\ w.u.stageName = h.code["act"]
        /\ h.code["act"] = "success" => w.u.stage = h.stage
    <3> DEFINE name == h.code["act"]
    <3> HIDE DEF name
    <3>1. w.u = SetStageName(h, name)
      BY <2>4 DEF name
    <3>2. /\ Keeps(w.u, h, {"stage", "stageName"}) /\ w.u.stageName = name
          /\ name = "success" => w.u.stage = h.stage
      BY ONLY <1>0, <3>1, StageNameSet
    <3> QED BY <3>2 DEF name
  <2> QED BY <1>8, <2>2, <2>5, Outsides DEF RequestChange
<1>9. h.i \in {1, 2, 6, 10, 12, 13} \cup {3, 4, 5, 8, 9, 11, 14}
  OBVIOUS
<1> QED BY <1>1, <1>2, <1>3, <1>4, <1>5, <1>6, <1>7, <1>8, <1>9

\* transport.write = $request: the thread is about to send what it has put together.
LEMMA SendOutcome ==
  ASSUME NEW p, NEW h, NEW r, NEW acc, Thread(p, "entry", h, r, acc),
         NEW s \in {"check", "pay"}, h.section = s, h.i = 7,
         NEW e, e = WmScheme[h.section][h.i], NEW v, v = EvaluateConfigValue(h, p, e.value), v.ok
  PROVE  Outside(e.param) = "send" /\ Thread(p, "send", [v.u EXCEPT !.arg = v.val], r, acc)
<1>0. Fields \subseteq DOMAIN h /\ InRequest(h, r, acc, s)
  BY DEF Thread, Running, InSection
<1>1. e = Copy(<<"transport", "write">>, <<"request">>)
  BY RequestEntries
<1>2. e.param = <<"transport", "write">> /\ v = HookRead(h, p, "request", <<>>)
  BY <1>1, CopyHook, CopyParam, Results
<1>3. v.u = h /\ v.val = Evaluate(h.request, h.requestArg)
  BY <1>2, Reads, Results
<1>4. h.request = RequestOf(s) /\ h.requestArg["session"] = r.session
  BY <1>0 DEF InRequest, Holds
<1> DEFINE g == [v.u EXCEPT !.arg = v.val]
<1>5. Keeps(g, h, {"arg"}) /\ g.arg = v.val
  BY <1>0, <1>3, ArgKeeps DEF Keeps
<1>6. Waiting(p, "send", g, r)
  BY <1>3, <1>4, <1>5 DEF Waiting, Waits, Keeps, Fields, Evaluate
<1> HIDE DEF g
<1>7. Thread(p, "send", g, r, acc)
  BY <1>5, <1>6, WaitsInPlace
<1> QED BY <1>2, <1>7, Outsides DEF g

\* Section complete, outside its statement.
LEMMA CompleteOutcome ==
  ASSUME NEW p, NEW h, NEW r, NEW acc, Thread(p, "entry", h, r, acc), h.section = "complete",
         r # NULL /\ r.stage = 3 => r.session \in acc, h.i \in {1} \cup 5..8,
         NEW e, e = WmScheme[h.section][h.i], NEW v, v = EvaluateConfigValue(h, p, e.value), v.ok
  PROVE  Outcome(p, v, e, r, acc)
<1> DEFINE w == EvaluateConfigParam(v.u, e.param, v.val)
<1>0. Fields \subseteq DOMAIN h /\ Keeps(v.u, h, {}) /\ WmScheme[h.section] = WmComplete
  BY ValueKeeps DEF Thread, WmScheme
<1>1. CASE h.i = 1
  <2>1. e = Set(<<"pay", "result">>, "completed")
    BY <1>0, <1>1 DEF WmComplete
  <2>2. v.u = h /\ v.val = "completed" /\ e.param = <<"pay", "result">>
    BY <2>1, SetValue, SetParam, Results
  <2>3. w.u = [h EXCEPT !.result = "completed"]
    BY <2>2, ResultWrite, Results
  <2> HIDE DEF w
  <2>4. Keeps(w.u, h, {"result"}) /\ w.u.result = "completed"
    BY ONLY <1>0, <2>3 DEF Keeps, Fields
  <2>5. Thread(p, "entry", After(w.u), r, acc)
    BY <1>1, <2>4, CompleteEntry
  <2>6. Outside(e.param) = NULL
    BY <2>2, Outsides
  <2> QED BY <2>5, <2>6, LocalOutcome DEF w
<1>2. CASE h.i \in 5..7
  <2>1. e.param \in {<<"log", "file">>, <<"log", "record">>, <<"log", "record", "1">>}
    <3>1. CASE h.i = 5
      BY <1>0, <3>1, SetParam DEF WmComplete
    <3>2. CASE h.i = 6
      BY <1>0, <3>2, SetParam DEF WmComplete
    <3>3. CASE h.i = 7
      BY <1>0, <3>3, CopyParam DEF WmComplete
    <3> QED BY <1>2, <3>1, <3>2, <3>3
  <2>2. e.param # <<>> /\ Outside(e.param) = NULL /\ Head(e.param) = "log"
    <3>1. CASE e.param = <<"log", "file">>
      BY <3>1, Outsides
    <3>2. CASE e.param = <<"log", "record">>
      BY <3>2, Outsides
    <3>3. CASE e.param = <<"log", "record", "1">>
      BY <3>3, Outsides
    <3> QED BY <2>1, <3>1, <3>2, <3>3
  <2>3. w.ok => Keeps(w.u, h, {})
    BY <1>0, <2>2, OtherOutcome
  <2> HIDE DEF w
  <2>4. w.ok => Thread(p, "entry", After(w.u), r, acc)
    BY <1>2, <2>3, CompleteEntry
  <2> QED BY <2>2, <2>4, LocalOutcome DEF w
<1>3. CASE h.i = 8
  <2>1. e.param = <<"log", "write">>
    BY <1>0, <1>3, CopyParam DEF WmComplete
  <2> DEFINE g == [v.u EXCEPT !.arg = v.val]
  <2>2. Keeps(g, h, {"arg"})
    BY <1>0, ArgKeeps
  <2>3. Waiting(p, "log", g, r)
    BY <1>3, <2>2 DEF Waiting, Waits, Keeps, Fields
  <2>4. Thread(p, "log", g, r, acc)
    <3> HIDE DEF g
    <3> QED BY <2>2, <2>3, WaitsInPlace
  <2> QED BY <2>1, <2>4, Outsides, NullIsNothing DEF Outcome
<1> QED BY <1>1, <1>2, <1>3

\* Every entry of the scheme.
LEMMA EntryOutcome ==
  ASSUME WebmoneyConfigured, NEW p \in Payments, NEW h, NEW r, NEW acc, NEW ask, NEW rep,
         Thread(p, "entry", h, r, acc), Table(r, acc, ask, rep), h.i <= Len(WmScheme[h.section]),
         NEW e, e = WmScheme[h.section][h.i], NEW v, v = EvaluateConfigValue(h, p, e.value), v.ok
  PROVE  Outcome(p, v, e, r, acc)
<1>0. /\ h.section \in DOMAIN WmScheme /\ h.i \in 1..Len(WmScheme[h.section])
      /\ r # NULL => r \in [stage : 1..4, session : Nat]
      /\ r # NULL /\ r.stage = 3 => r.session \in acc
  <2>1. h.section \in DOMAIN WmScheme /\ h.i \in 1..(Len(WmScheme[h.section]) + 1)
    BY DEF Thread, Running, InScheme
  <2>2. Len(WmScheme[h.section]) \in Nat
    BY <2>1, Sections
  <2> QED BY <2>1, <2>2 DEF Table
<1>1. CASE h.section \in SqlSections /\ h.i \in {SqlStart(h.section), SqlStart(h.section) + 1, SqlStart(h.section) + 2}
  BY <1>1, SqlOutcome
<1>2. CASE h.section = "main" /\ h.i \in 1..5 \cup {9, 10}
  BY <1>0, <1>2, MainOutcome
<1>3. CASE h.section = "init" /\ h.i = 4
  BY <1>3, InitOutcome
<1>4. CASE h.section \in {"check", "pay"} /\ h.i # 7
  <2> DEFINE w == EvaluateConfigParam(v.u, e.param, v.val)
  <2>1. h.i \in 1..14
    BY <1>0, <1>4, Sections
  <2>2. CASE w.ok
    <3>1. RequestChange(w.u, h, r, acc, h.section) /\ Outside(e.param) = NULL
      BY <1>4, <2>1, <2>2, RequestOutcome
    <3> HIDE DEF w
    <3>2. Thread(p, "entry", After(w.u), r, acc)
      BY <1>4, <3>1, RequestEntry
    <3> QED BY <3>1, <3>2, LocalOutcome DEF w
  <2>3. CASE ~w.ok
    <3>1. Outside(e.param) = NULL
      BY <1>4, <2>1, RequestOutside
    <3> QED BY <2>3, <3>1 DEF Outcome
  <2> QED BY <2>2, <2>3
<1>5. CASE h.section \in {"check", "pay"} /\ h.i = 7
  BY <1>5, SendOutcome, NullIsNothing DEF Outcome
<1>6. CASE h.section = "complete" /\ h.i \in {1} \cup 5..8
  BY <1>0, <1>6, CompleteOutcome
<1>7. CASE h.section = "success" /\ h.i = 1
  BY <1>7, SuccessOutcome
<1>8. CASE h.section = "fatal" /\ h.i = 1
  BY <1>8, FatalOutcome
<1>9. CASE h.section = "main" /\ h.i \in {6, 7, 8}
  BY <1>1, <1>9 DEF SqlSections, SqlStart
<1>10. CASE h.section = "init" /\ h.i \in {1, 2, 3}
  BY <1>1, <1>10 DEF SqlSections, SqlStart
<1>11. CASE h.section \in {"complete", "success", "fatal"} /\ h.i \in {2, 3, 4}
  BY <1>1, <1>11 DEF SqlSections, SqlStart
<1>12. \/ h.section = "main" /\ h.i \in 1..10
       \/ h.section \in {"init", "success", "fatal"} /\ h.i \in 1..4
       \/ h.section = "complete" /\ h.i \in 1..8
       \/ h.section \in {"check", "pay"}
  BY <1>0, Sections
<1> QED BY <1>2, <1>3, <1>4, <1>5, <1>6, <1>7, <1>8, <1>9, <1>10, <1>11, <1>12

-----------------------------------------------------------------------------
(* The other steps of a thread, on values.                                  *)

\* A session that is accepted stays so: a thread keeps what it knows.
LEMMA ThreadGrows ==
  ASSUME NEW p, NEW where, NEW h, NEW r, NEW acc, NEW acc2, acc \subseteq acc2, Thread(p, where, h, r, acc)
  PROVE  Thread(p, where, h, r, acc2)
<1> SUFFICES ASSUME where # "idle" PROVE Thread(p, where, h, r, acc2)
  BY DEF Thread
<1>1. Fields \subseteq DOMAIN h /\ (h.result = "completed" => Paid(r, acc2))
  BY DEF Thread, Paid
<1>2. ASSUME where # "done" PROVE Running(p, where, h, r, acc2)
  <2>1. Running(p, where, h, r, acc)
    BY <1>2 DEF Thread
  <2>2. \A s : Ready(h, r, acc, s) => Ready(h, r, acc2, s)
    BY DEF Ready
  <2>3. \A s : InRequest(h, r, acc, s) => InRequest(h, r, acc2, s)
    BY <2>2 DEF InRequest, Honest
  <2>4. InSuccess(h, r, acc) => InSuccess(h, r, acc2)
    BY <2>2 DEF InSuccess
  <2>5. InSection(h, r, acc2)
    BY <2>1, <2>3, <2>4 DEF Running, InSection
  <2> QED BY <2>1, <2>5 DEF Running
<1> QED BY <1>1, <1>2 DEF Thread

LEMMA TableGrows ==
  ASSUME NEW r, NEW acc, NEW acc2, acc \subseteq acc2, NEW ask, NEW rep, Table(r, acc, ask, rep)
  PROVE  Table(r, acc2, ask, rep)
BY DEF Table, Paid

\* A thread that ends with an exception claims nothing.
LEMMA ThrownThread ==
  ASSUME NEW p, NEW h, Fields \subseteq DOMAIN h, NEW r, NEW acc
  PROVE  Thread(p, "done", [h EXCEPT !.result = "sleep"], r, acc)
BY DEF Thread, Fields

\* A new attempt begins with section main.
LEMMA NewThread ==
  ASSUME NEW p, NEW r, NEW acc
  PROVE  Fields \subseteq DOMAIN NewUpgm /\ Thread(p, "entry", NewUpgm, r, acc)
<1>1. Fields \subseteq DOMAIN NewUpgm
  BY DEF NewUpgm, Fields
<1>2. /\ NewUpgm.section = "main" /\ NewUpgm.i = 1 /\ NewUpgm.result = "undef"
      /\ NewUpgm.stageNames = <<>>
  BY DEF NewUpgm
<1>3. InScheme(NewUpgm)
  BY <1>2, Sections DEF InScheme
<1>4. Names(NewUpgm.stageNames)
  BY <1>2 DEF Names
<1>5. InSection(NewUpgm, r, acc)
  BY <1>2 DEF InSection, InMain
<1>6. InSql(p, NewUpgm)
  BY <1>2, NoSql DEF SqlStart
<1> QED BY <1>1, <1>2, <1>3, <1>4, <1>5, <1>6 DEF Thread, Running, Waiting, Waits

\* A section that is through leaves the next one ready, unless there is a result.
LEMMA SectionThrough ==
  ASSUME NEW p, NEW h, NEW r, NEW acc, NEW ask, NEW rep, Thread(p, "entry", h, r, acc), Table(r, acc, ask, rep),
         h.i > Len(WmScheme[h.section]), h.result = "undef", h.stageName \in DOMAIN WmScheme
  PROVE  Ready(h, r, acc, h.stageName)
<1>0. /\ InScheme(h) /\ InSection(h, r, acc)
      /\ r # NULL => r.stage \in 1..4
  BY DEF Thread, Running, Table
<1>1. CASE h.section = "main"
  <2>1. h.i = 11
    BY <1>0, <1>1, Sections DEF InScheme
  <2>2. /\ h.stage = RowOr(r).stage /\ Named(h.stage, h.stageName)
        /\ Holds(h.var, "session", RowOr(r).session)
    BY <1>0, <1>1, <2>1 DEF InSection, InMain
  <2>3. CASE r = NULL
    <3>1. h.stageName = "init"
      BY <2>2, <2>3 DEF RowOr, Row, Named
    <3> QED BY <3>1 DEF Ready
  <2>4. CASE r # NULL
    <3>1. RowOr(r) = r
      BY <2>4 DEF RowOr
    <3>2. /\ Named(r.stage, h.stageName) /\ h.stage = r.stage /\ Holds(h.var, "session", r.session)
      BY <2>2, <3>1
    <3> QED BY <2>4, <3>2 DEF Ready, Named
  <2> QED BY <2>3, <2>4
<1>2. CASE h.section = "init"
  <2>1. h.i = 5
    BY <1>0, <1>2, Sections DEF InScheme
  <2> QED BY <1>0, <1>2, <2>1 DEF InSection, InInit, Ready
<1>3. CASE h.section \in {"check", "pay"}
  <2>1. h.i = 15
    <3>1. Len(WmScheme[h.section]) = 14
      BY <1>3, Sections
    <3> QED BY <1>0, <3>1 DEF InScheme
  <2> QED BY <1>0, <1>3, <2>1 DEF InSection, InRequest
<1>4. CASE h.section = "success"
  <2>1. h.i = 5
    BY <1>0, <1>4, Sections DEF InScheme
  <2>2. /\ r # NULL /\ h.stage = r.stage /\ r.stage \in {2, 3} /\ Named(h.stage, h.stageName)
        /\ Holds(h.var, "session", r.session)
    BY <1>0, <1>4, <2>1 DEF InSection, InSuccess
  <2> QED BY <2>2 DEF Ready, Named
<1>5. CASE h.section \in {"complete", "fatal"}
  <2>1. h.i > 1
    <3>1. Len(WmScheme[h.section]) = 4 \/ Len(WmScheme[h.section]) = 8
      BY <1>5, Sections
    <3>2. h.i \in 1..(Len(WmScheme[h.section]) + 1)
      BY <1>0 DEF InScheme
    <3>3. CASE Len(WmScheme[h.section]) = 4
      BY <3>2, <3>3
    <3>4. CASE Len(WmScheme[h.section]) = 8
      BY <3>2, <3>4
    <3> QED BY <3>1, <3>3, <3>4
  <2> QED BY <1>0, <1>5, <2>1 DEF InSection, InComplete, InFatal
<1> QED BY <1>0, <1>1, <1>2, <1>3, <1>4, <1>5, Sections DEF InScheme

\* A section begins in good order when it is ready.
LEMMA SectionBegins ==
  ASSUME NEW p, NEW h, NEW r, NEW acc, Thread(p, "entry", h, r, acc),
         h.stageName \in DOMAIN WmScheme, Ready(h, r, acc, h.stageName),
         NEW g, g = [h EXCEPT !.section = h.stageName, !.i = 1]
  PROVE  Thread(p, "entry", g, r, acc)
<1>1. Keeps(g, h, {"section", "i"}) /\ g.section = h.stageName /\ g.i = 1
  BY DEF Thread, Keeps, Fields
<1>2. /\ Fields \subseteq DOMAIN g /\ g.result = h.result /\ g.stageNames = h.stageNames
      /\ g.stage = h.stage /\ g.var = h.var
  BY <1>1 DEF Keeps, Fields
<1>3. InScheme(g)
  BY <1>1, Sections DEF InScheme
<1>4. InSection(g, r, acc)
  BY <1>1, <1>2, Sections DEF InSection, InMain, InInit, InRequest, InSuccess, InComplete, InFatal, Ready
<1>5. InSql(p, g)
  <2>1. g.section \in SqlSections => SqlStart(g.section) \in Nat \ {0}
    BY SqlEntries
  <2>2. g.section \in SqlSections => g.i \notin {SqlStart(g.section) + 1, SqlStart(g.section) + 2}
    BY <1>1, <2>1
  <2> QED BY <2>2, NoSql
<1> QED BY <1>1, <1>2, <1>3, <1>4, <1>5 DEF Thread, Running, Waiting, Waits

\* The payment's row after a statement, with n as the next session.
RowAfter(r, text, n) ==
  CASE text = "insert" -> Row(1, n) [] text = "advance" -> [r EXCEPT !.stage = @ + 1]
    [] text = "complete" -> [r EXCEPT !.stage = 3] [] text = "fatal" -> [r EXCEPT !.stage = 4] [] OTHER -> r

\* A thread that has the connection, at the execution of its statement.
Executing(p, h, r, acc) == Thread(p, "query", h, r, acc) /\ h.i = SqlStart(h.section) + 2

LEMMA ExecutingSection ==
  ASSUME NEW p, NEW h, NEW r, NEW acc, Executing(p, h, r, acc)
  PROVE  /\ h.section \in SqlSections /\ Fields \subseteq DOMAIN h /\ Names(h.stageNames)
         /\ h.arg.text = SqlOf(h.section) /\ h.arg.args["1"].escaped = p
         /\ InSection(h, r, acc) /\ (h.result = "completed" => Paid(r, acc))
         /\ h.i <= Len(WmScheme[h.section])
<1>1. /\ h.section \in SqlSections /\ h.i = SqlStart(h.section) + 2
      /\ Fields \subseteq DOMAIN h /\ Names(h.stageNames) /\ InSection(h, r, acc)
      /\ h.result = "completed" => Paid(r, acc)
      /\ h.arg.text = SqlOf(h.section) /\ h.arg.args["1"].escaped = p
  BY DEF Executing, Thread, Running, Waiting, Waits
<1>2. h.i <= Len(WmScheme[h.section])
  BY <1>1, SqlEntries
<1> QED BY <1>1, <1>2

\* A statement that is not refused keeps the table in order ...
LEMMA ExecuteTable ==
  ASSUME NEW p, NEW h, NEW r, NEW acc, NEW ask, NEW rep, Executing(p, h, r, acc), Table(r, acc, ask, rep),
         NEW n \in Nat, SqlOf(h.section) = "insert" => r = NULL
  PROVE  Table(RowAfter(r, SqlOf(h.section), n), acc, ask, rep)
<1>0. /\ h.section \in SqlSections /\ InSection(h, r, acc) /\ h.i = SqlStart(h.section) + 2
  BY ExecutingSection DEF Executing
<1>1. CASE h.section = "main"
  BY <1>1 DEF RowAfter, SqlOf
<1>2. CASE h.section = "init"
  <2>1. RowAfter(r, SqlOf(h.section), n) = Row(1, n) /\ r = NULL
    BY <1>2 DEF RowAfter, SqlOf
  <2>2. Row(1, n) \in [stage : 1..4, session : Nat] /\ Row(1, n).stage = 1
    BY DEF Row
  <2>3. ask = {} /\ rep # "SUCESS"
    BY <2>1 DEF Table, Paid
  <2> QED BY <2>1, <2>2, <2>3 DEF Table
<1>3. CASE h.section = "complete"
  <2>1. RowAfter(r, SqlOf(h.section), n) = [r EXCEPT !.stage = 3]
    BY <1>3 DEF RowAfter, SqlOf
  <2>2. r # NULL /\ r.stage = 3 /\ r \in [stage : 1..4, session : Nat]
    BY <1>0, <1>3 DEF InSection, InComplete, Table
  <2>3. [r EXCEPT !.stage = 3] = r
    BY <2>2
  <2> QED BY <2>1, <2>3
<1>4. CASE h.section = "success"
  <2>1. RowAfter(r, SqlOf(h.section), n) = [r EXCEPT !.stage = @ + 1]
    BY <1>4 DEF RowAfter, SqlOf
  <2>2. /\ r # NULL /\ r.stage \in {1, 2} /\ r \in [stage : 1..4, session : Nat]
        /\ r.stage = 2 => r.session \in acc
    BY <1>0, <1>4 DEF InSection, InSuccess, SqlStart, Table
  <2> DEFINE k == [r EXCEPT !.stage = @ + 1]
  <2>3. k \in [stage : 1..4, session : Nat] /\ k.stage = r.stage + 1 /\ k.session = r.session
    BY <2>2
  <2>4. k # NULL
    <3>1. k \in [stage : Nat, session : Nat]
      BY <2>3
    <3> QED BY <3>1, NullIsNothing
  <2> HIDE DEF k
  <2> QED BY <2>1, <2>2, <2>3, <2>4 DEF Table, Paid, k
<1>5. CASE h.section = "fatal"
  <2>1. RowAfter(r, SqlOf(h.section), n) = [r EXCEPT !.stage = 4]
    BY <1>5 DEF RowAfter, SqlOf
  <2>2. r # NULL /\ r \in [stage : 1..4, session : Nat]
    BY <1>0, <1>5 DEF InSection, InFatal, Table
  <2> DEFINE k == [r EXCEPT !.stage = 4]
  <2>3. k \in [stage : 1..4, session : Nat] /\ k.stage = 4 /\ k.session = r.session
    BY <2>2
  <2>4. k # NULL
    <3>1. k \in [stage : Nat, session : Nat]
      BY <2>3
    <3> QED BY <3>1, NullIsNothing
  <2> HIDE DEF k
  <2> QED BY <2>1, <2>2, <2>3, <2>4 DEF Table, Paid, k
<1> QED BY <1>0, <1>1, <1>2, <1>3, <1>4, <1>5 DEF SqlSections

\* ... and the thread goes on behind it.
LEMMA ExecuteThread ==
  ASSUME NEW p, NEW h, NEW r, NEW acc, NEW ask, NEW rep, Executing(p, h, r, acc), Table(r, acc, ask, rep),
         NEW n \in Nat, SqlOf(h.section) = "insert" => r = NULL,
         NEW g, Keeps(g, h, {"rows"}),
         SqlOf(h.section) = "select" => g.rows # <<>> /\ g.rows[1] = RowOr(r)
  PROVE  Thread(p, "entry", After(g), RowAfter(r, SqlOf(h.section), n), acc)
<1> DEFINE k == After(g)
           r2 == RowAfter(r, SqlOf(h.section), n)
<1>0. /\ h.section \in SqlSections /\ InSection(h, r, acc) /\ h.i = SqlStart(h.section) + 2
      /\ Names(h.stageNames) /\ Fields \subseteq DOMAIN h /\ (h.result = "completed" => Paid(r, acc))
      /\ h.i <= Len(WmScheme[h.section]) /\ InScheme(h)
  BY ExecutingSection DEF Executing, Thread, Running
<1>1. /\ Keeps(k, h, {"rows", "i", "arg"}) /\ k.i = h.i + 1 /\ k.rows = g.rows
  <2>1. {"rows"} \cup {"i", "arg"} = {"rows", "i", "arg"}
    OBVIOUS
  <2>2. Keeps(k, g, {"i", "arg"})
    BY AfterChanges DEF Keeps
  <2> QED BY <2>1, <2>2, AfterKeeps DEF Keeps, Fields
<1> HIDE DEF k
<1>2. /\ Fields \subseteq DOMAIN k /\ k.section = h.section /\ k.result = h.result /\ k.stage = h.stage
      /\ k.stageName = h.stageName /\ k.stageNames = h.stageNames /\ k.var = h.var
  BY <1>1 DEF Keeps, Fields
<1>3. InScheme(k)
  <2>1. Len(WmScheme[h.section]) \in Nat
    BY <1>0, Sections DEF InScheme
  <2> QED BY <1>0, <1>1, <1>2, <2>1 DEF InScheme
<1>4. InSql(p, k)
  <2>1. SqlStart(h.section) \in Nat
    BY <1>0, SqlEntries
  <2>2. k.i \notin {SqlStart(k.section) + 1, SqlStart(k.section) + 2}
    BY <1>0, <1>1, <1>2, <2>1
  <2> QED BY <2>2, NoSql
<1>5. Table(r2, acc, ask, rep)
  BY ExecuteTable
<1>6. InSection(k, r2, acc) /\ (k.result = "completed" => Paid(r2, acc))
  <2>1. CASE h.section = "main"
    <3>1. r2 = r /\ k.i = 9 /\ g.rows # <<>> /\ g.rows[1] = RowOr(r)
      BY <1>0, <1>1, <2>1 DEF RowAfter, SqlOf, SqlStart
    <3> HIDE DEF r2
    <3> QED BY <1>0, <1>1, <1>2, <2>1, <3>1 DEF InSection, InMain
  <2>2. CASE h.section = "init"
    <3>1. r = NULL /\ k.i = 4
      BY <1>0, <1>1, <2>2 DEF SqlOf, SqlStart
    <3> HIDE DEF r2
    <3> QED BY <1>0, <1>2, <2>2, <3>1 DEF InSection, InInit, Paid
  <2>3. CASE h.section = "complete"
    <3>1. r # NULL /\ r.stage = 3 /\ r \in [stage : 1..4, session : Nat] /\ k.i = 5 /\ h.result = "completed"
      BY <1>0, <1>1, <2>3 DEF InSection, InComplete, Table, SqlStart
    <3>2. r2 = r
      BY <2>3, <3>1 DEF RowAfter, SqlOf
    <3> HIDE DEF r2
    <3> QED BY <1>0, <1>2, <2>3, <3>1, <3>2 DEF InSection, InComplete
  <2>4. CASE h.section = "success"
    <3>1. /\ r # NULL /\ r.stage \in {1, 2} /\ r \in [stage : 1..4, session : Nat] /\ k.i = 5
          /\ Holds(h.var, "session", r.session) /\ h.stage = r.stage + 1 /\ Named(h.stage, h.stageName)
      BY <1>0, <1>1, <2>4 DEF InSection, InSuccess, Table, SqlStart
    <3>2. r2 = [r EXCEPT !.stage = @ + 1]
      BY <2>4 DEF RowAfter, SqlOf
    <3>3. r2 \in [stage : Nat, session : Nat] /\ r2.stage = r.stage + 1 /\ r2.session = r.session
      BY <3>1, <3>2
    <3>4. r2 # NULL
      BY <3>3, NullIsNothing
    <3> HIDE DEF r2
    <3>5. InSuccess(k, r2, acc)
      BY <1>2, <3>1, <3>3, <3>4 DEF InSuccess
    <3> QED BY <1>0, <1>2, <2>4, <3>3, <3>4, <3>5 DEF InSection, Paid
  <2>5. CASE h.section = "fatal"
    <3>1. r # NULL /\ r \in [stage : 1..4, session : Nat] /\ k.i = 5 /\ h.result = "failed"
      BY <1>0, <1>1, <2>5 DEF InSection, InFatal, Table, SqlStart
    <3>2. r2 = [r EXCEPT !.stage = 4]
      BY <2>5 DEF RowAfter, SqlOf
    <3>3. r2 \in [stage : Nat, session : Nat]
      BY <3>1, <3>2
    <3>4. r2 # NULL
      BY <3>3, NullIsNothing
    <3> HIDE DEF r2
    <3> QED BY <1>2, <2>5, <3>1, <3>4 DEF InSection, InFatal
  <2> QED BY <1>0, <2>1, <2>2, <2>3, <2>4, <2>5 DEF SqlSections
<1> HIDE DEF r2
<1>7. Thread(p, "entry", k, r2, acc)
  BY <1>0, <1>2, <1>3, <1>4, <1>6 DEF Thread, Running, Waiting, Waits
<1> QED BY <1>7 DEF k, r2

\* A request, answered or not: what the provider may have done, the thread may know.
LEMMA SendTable ==
  ASSUME NEW p, NEW h, NEW r, NEW acc, NEW ask, NEW rep, Thread(p, "send", h, r, acc), Table(r, acc, ask, rep)
  PROVE  Table(r, acc, IF h.arg.text # "payment" THEN ask ELSE ask \cup {h.arg.args["session"]}, rep)
<1>1. CASE h.arg.text # "payment"
  BY <1>1
<1>2. CASE h.arg.text = "payment"
  <2>1. /\ h.section \in {"check", "pay"} /\ h.i = 7 /\ h.arg.text = RequestOf(h.section)
        /\ h.arg.args["session"] = r.session /\ InRequest(h, r, acc, h.section)
    BY DEF Thread, Running, Waiting, InSection
  <2>2. h.section = "pay"
    BY <1>2, <2>1 DEF RequestOf
  <2>3. r # NULL /\ r.stage = 2
    BY <2>1, <2>2 DEF InRequest, Ready
  <2>4. ask \cup {h.arg.args["session"]} = {r.session}
    BY <2>1 DEF Table
  <2> QED BY <1>2, <2>3, <2>4 DEF Table
<1> QED BY <1>1, <1>2

LEMMA SendThread ==
  ASSUME NEW p, NEW h, NEW r, NEW acc, Thread(p, "send", h, r, acc),
         NEW answer, NEW g, g = [h EXCEPT !.answer = answer],
         h.arg.text = "payment" /\ "retval" \in DOMAIN answer /\ answer["retval"] = "0" =>
           h.arg.args["session"] \in acc
  PROVE  Thread(p, "entry", After(g), r, acc)
<1>1. /\ h.section \in {"check", "pay"} /\ h.i = 7 /\ h.arg.text = RequestOf(h.section)
      /\ h.arg.args["session"] = r.session /\ Fields \subseteq DOMAIN h
  BY DEF Thread, Running, Waiting
<1>2. Keeps(g, h, {"answer"}) /\ g.answer = answer
  BY <1>1 DEF Keeps, Fields
<1>3. Honest(answer, h.section, r, acc)
  BY <1>1 DEF Honest, RequestOf
<1>4. RequestChange(g, h, r, acc, h.section)
  BY <1>1, <1>2, <1>3 DEF RequestChange
<1> QED BY <1>1, <1>4, RequestEntry

-----------------------------------------------------------------------------
(* The invariant.                                                           *)

\* g differs from f at most at p.
OneChanged(f, g, p) == DOMAIN g = DOMAIN f /\ \A q \in DOMAIN f \ {p} : g[q] = f[q]

LEMMA OneSame ==
  ASSUME NEW f, NEW p
  PROVE  OneChanged(f, f, p)
BY DEF OneChanged

LEMMA OneExcept ==
  ASSUME NEW f, NEW p, NEW x
  PROVE  OneChanged(f, [f EXCEPT ![p] = x], p)
BY DEF OneChanged

\* A step of one thread: the others keep what they know.
LEMMA OneThread ==
  ASSUME WebmoneyInv, NEW p \in Payments, session' \in Nat, accepted \subseteq accepted',
         OneChanged(pc, pc', p), OneChanged(u, u', p), OneChanged(row, row', p),
         OneChanged(asked, asked', p), OneChanged(reported, reported', p),
         Thread(p, pc'[p], u'[p], row'[p], accepted'), Table(row'[p], accepted', asked'[p], reported'[p])
  PROVE  WebmoneyInv'
<1>1. /\ DOMAIN pc' = Payments /\ DOMAIN u' = Payments /\ DOMAIN reported' = Payments
      /\ DOMAIN row' = Payments /\ DOMAIN asked' = Payments
  BY DEF WebmoneyInv, OneChanged
<1>2. ASSUME NEW q \in Payments
      PROVE  Thread(q, pc'[q], u'[q], row'[q], accepted') /\ Table(row'[q], accepted', asked'[q], reported'[q])
  <2>1. CASE q = p
    BY <2>1
  <2>2. CASE q # p
    <3>1. /\ pc'[q] = pc[q] /\ u'[q] = u[q] /\ row'[q] = row[q] /\ asked'[q] = asked[q]
          /\ reported'[q] = reported[q]
      BY <2>2 DEF WebmoneyInv, OneChanged
    <3>2. Thread(q, pc[q], u[q], row[q], accepted) /\ Table(row[q], accepted, asked[q], reported[q])
      BY DEF WebmoneyInv
    <3>3. Thread(q, pc[q], u[q], row[q], accepted')
      BY <3>2, ThreadGrows
    <3>4. Table(row[q], accepted', asked[q], reported[q])
      BY <3>2, TableGrows
    <3> QED BY <3>1, <3>3, <3>4
  <2> QED BY <2>1, <2>2
<1> QED BY <1>1, <1>2 DEF WebmoneyInv

\* The same when only the place and the hooks of the thread change.
LEMMA OneGoes ==
  ASSUME WebmoneyInv, NEW p \in Payments, NEW where, NEW h, Goto(p, where, h),
         UNCHANGED <<reported, row, session, asked, accepted>>, Thread(p, where, h, row[p], accepted)
  PROVE  WebmoneyInv'
<1>1. pc' = [pc EXCEPT ![p] = where] /\ u' = [u EXCEPT ![p] = h]
  BY DEF Goto
<1>2. p \in DOMAIN pc /\ p \in DOMAIN u /\ session \in Nat /\ Table(row[p], accepted, asked[p], reported[p])
  BY DEF WebmoneyInv
<1>3. pc'[p] = where /\ u'[p] = h
  BY <1>1, <1>2
<1>4. OneChanged(pc, pc', p) /\ OneChanged(u, u', p)
  BY <1>1, OneExcept
<1>5. OneChanged(row, row', p) /\ OneChanged(asked, asked', p) /\ OneChanged(reported, reported', p)
  BY OneSame
<1>6. Thread(p, pc'[p], u'[p], row'[p], accepted') /\ Table(row'[p], accepted', asked'[p], reported'[p])
  BY <1>2, <1>3
<1>7. session' \in Nat /\ accepted \subseteq accepted'
  BY <1>2
<1> QED BY <1>4, <1>5, <1>6, <1>7, OneThread

LEMMA NextEntryGoes ==
  ASSUME NEW p, NEW g, NEW v, NextEntry(p, Ok(g, v))
  PROVE  Goto(p, "entry", After(g))
<1>1. PICK x \in {Ok(g, v)} :
        IF x.ok THEN Goto(p, "entry", [x.u EXCEPT !.i = @ + 1, !.arg = NULL]) ELSE Throw(p, u[p])
  BY DEF NextEntry
<1>2. x.ok /\ x.u = g
  BY <1>1, Results
<1> QED BY <1>1, <1>2 DEF After

\* EvalParams: an entry of the scheme, or an exception in it.
LEMMA EvalParamsInv ==
  ASSUME WebmoneyConfigured, WebmoneyInv, NEW p \in Payments, EvalParams(p)
  PROVE  WebmoneyInv'
<1> DEFINE h == u[p]
           e == Entry(p)
<1>0. /\ pc[p] = "entry" /\ h.i <= Len(WmScheme[h.section]) /\ e = WmScheme[h.section][h.i]
      /\ UNCHANGED <<reported, row, session, asked, accepted>>
  BY DEF EvalParams, Section, Entry, WebmoneyConfigured, shared
<1>1. Thread(p, "entry", h, row[p], accepted) /\ Table(row[p], accepted, asked[p], reported[p])
  BY <1>0 DEF WebmoneyInv
<1>2. Fields \subseteq DOMAIN h
  BY <1>1 DEF Thread
<1>3. ASSUME Throw(p, h) PROVE WebmoneyInv'
  BY <1>0, <1>2, <1>3, ThrownThread, OneGoes DEF Throw
<1>4. PICK v \in {EvaluateConfigValue(h, p, e.value)} :
        IF ~v.ok THEN Throw(p, h)
        ELSE IF Outside(e.param) = NULL THEN NextEntry(p, EvaluateConfigParam(v.u, e.param, v.val))
        ELSE Reach(p, Outside(e.param), v)
  BY DEF EvalParams
<1>5. CASE ~v.ok
  BY <1>3, <1>4, <1>5
<1>6. CASE v.ok /\ Outside(e.param) = NULL
  <2> DEFINE w == EvaluateConfigParam(v.u, e.param, v.val)
  <2>1. w.ok => Thread(p, "entry", After(w.u), row[p], accepted)
    BY <1>0, <1>1, <1>4, <1>6, EntryOutcome DEF Outcome
  <2>2. IF w.ok THEN Goto(p, "entry", After(w.u)) ELSE Throw(p, h)
    BY <1>4, <1>6 DEF NextEntry, After
  <2> HIDE DEF w
  <2>3. CASE w.ok
    BY <1>0, <2>1, <2>2, <2>3, OneGoes
  <2>4. CASE ~w.ok
    BY <1>3, <2>2, <2>4
  <2> QED BY <2>3, <2>4
<1>7. CASE v.ok /\ Outside(e.param) # NULL
  <2> DEFINE g == [v.u EXCEPT !.arg = v.val]
  <2>1. Thread(p, Outside(e.param), g, row[p], accepted)
    BY <1>0, <1>1, <1>4, <1>7, EntryOutcome DEF Outcome
  <2>2. Goto(p, Outside(e.param), g) \/ Throw(p, h)
    BY <1>4, <1>7 DEF Reach
  <2> HIDE DEF g
  <2> QED BY <1>0, <1>3, <2>1, <2>2, OneGoes
<1> QED BY <1>5, <1>6, <1>7

\* NextStage: the section of the stage that is set by now, or the end.
LEMMA NextStageInv ==
  ASSUME WebmoneyConfigured, WebmoneyInv, NEW p \in Payments, NextStage(p)
  PROVE  WebmoneyInv'
<1> DEFINE h == u[p]
<1>0. /\ pc[p] = "entry" /\ h.i > Len(WmScheme[h.section]) /\ DOMAIN Scheme = DOMAIN WmScheme
      /\ UNCHANGED <<reported, row, session, asked, accepted>>
  BY DEF NextStage, Section, WebmoneyConfigured, shared
<1>1. Thread(p, "entry", h, row[p], accepted) /\ Table(row[p], accepted, asked[p], reported[p])
  BY <1>0 DEF WebmoneyInv
<1>2. CASE h.result # "undef"
  <2>1. Goto(p, "done", h)
    BY <1>2 DEF NextStage
  <2>2. Thread(p, "done", h, row[p], accepted)
    BY <1>1 DEF Thread
  <2> QED BY <1>0, <2>1, <2>2, OneGoes
<1>3. CASE h.result = "undef" /\ h.stageName \in DOMAIN WmScheme
  <2> DEFINE g == [h EXCEPT !.section = h.stageName, !.i = 1]
  <2>1. Goto(p, "entry", g)
    BY <1>0, <1>3 DEF NextStage
  <2>2. Ready(h, row[p], accepted, h.stageName)
    BY <1>0, <1>1, <1>3, SectionThrough
  <2>3. Thread(p, "entry", g, row[p], accepted)
    BY <1>1, <1>3, <2>2, SectionBegins
  <2> QED BY <1>0, <2>1, <2>3, OneGoes
<1>4. CASE h.result = "undef" /\ h.stageName \notin DOMAIN WmScheme
  <2>1. Throw(p, h)
    BY <1>0, <1>4 DEF NextStage
  <2>2. Fields \subseteq DOMAIN h
    BY <1>1 DEF Thread
  <2> QED BY <1>0, <2>1, <2>2, ThrownThread, OneGoes DEF Throw
<1> QED BY <1>2, <1>3, <1>4

\* SendData: a new attempt.
LEMMA SendDataInv ==
  ASSUME WebmoneyInv, NEW p \in Payments, SendData(p)
  PROVE  WebmoneyInv'
<1>0. UNCHANGED <<reported, row, session, asked, accepted>>
  BY DEF SendData, shared
<1>1. CASE Supported
  BY <1>0, <1>1, NewThread, OneGoes DEF SendData
<1>2. CASE ~Supported
  BY <1>0, <1>2, NewThread, ThrownThread, OneGoes DEF SendData, Throw
<1> QED BY <1>1, <1>2

\* Report: a success is reported only with the result "completed".
LEMMA ReportInv ==
  ASSUME WebmoneyInv, NEW p \in Payments, Report(p)
  PROVE  WebmoneyInv'
<1> DEFINE rep == CASE u[p].result = "failed" -> "FAILED" [] u[p].result = "completed" -> "SUCESS"
                    [] OTHER -> "SAVE_STATE"
<1>0. /\ pc[p] = "done" /\ reported' = [reported EXCEPT ![p] = rep]
      /\ pc' = [pc EXCEPT ![p] = "idle"] /\ u' = [u EXCEPT ![p] = NULL]
      /\ UNCHANGED <<row, session, asked, accepted>>
  BY DEF Report, Goto, shared
<1>1. /\ Thread(p, "done", u[p], row[p], accepted) /\ Table(row[p], accepted, asked[p], reported[p])
      /\ session \in Nat /\ DOMAIN pc = Payments /\ DOMAIN u = Payments /\ DOMAIN reported = Payments
  BY <1>0 DEF WebmoneyInv
<1>2. rep = "SUCESS" => Paid(row[p], accepted)
  BY <1>1 DEF Thread
<1> HIDE DEF rep
<1>3. pc'[p] = "idle" /\ reported'[p] = rep
  BY <1>0, <1>1
<1>4. Thread(p, pc'[p], u'[p], row'[p], accepted')
  BY <1>3 DEF Thread
<1>5. Table(row[p], accepted, asked[p], rep)
  BY <1>1, <1>2 DEF Table
<1>6. Table(row'[p], accepted', asked'[p], reported'[p])
  BY <1>0, <1>3, <1>5
<1>7. OneChanged(pc, pc', p) /\ OneChanged(u, u', p) /\ OneChanged(reported, reported', p)
  BY <1>0, OneExcept
<1>8. OneChanged(row, row', p) /\ OneChanged(asked, asked', p)
  BY <1>0, OneSame
<1>9. session' \in Nat /\ accepted \subseteq accepted'
  BY <1>0, <1>1
<1> QED BY <1>4, <1>6, <1>7, <1>8, <1>9, OneThread

\* Connect and Connected: the thread gets the connection, or waits for the server.
LEMMA ConnectInv ==
  ASSUME WebmoneyInv, NEW p \in Payments, Connect(p) \/ Connected(p)
  PROVE  WebmoneyInv'
<1>0. /\ UNCHANGED <<u, reported, row, session, asked, accepted>> /\ pc[p] \in Waits
      /\ pc' = [pc EXCEPT ![p] = "query"] \/ pc' = [pc EXCEPT ![p] = "connecting"]
  BY DEF Connect, Connected, Waits
<1>1. /\ Thread(p, pc[p], u[p], row[p], accepted) /\ Table(row[p], accepted, asked[p], reported[p])
      /\ session \in Nat /\ DOMAIN pc = Payments
  BY DEF WebmoneyInv
<1>2. pc'[p] \in Waits
  BY <1>0, <1>1 DEF Waits
<1>3. Fields \subseteq DOMAIN u[p] /\ Waiting(p, pc[p], u[p], row[p])
  BY <1>0, <1>1 DEF Thread, Running, Waits
<1>4. Waiting(p, pc'[p], u[p], row[p]) /\ Keeps(u[p], u[p], {"arg"}) /\ pc[p] \notin {"idle", "done"}
  BY <1>0, <1>2, <1>3 DEF Waiting, Waits, Keeps
<1>5. Thread(p, pc'[p], u[p], row[p], accepted)
  BY <1>1, <1>2, <1>4, WaitsInPlace
<1>6. OneChanged(pc, pc', p)
  BY <1>0, OneExcept
<1>7. /\ OneChanged(u, u', p) /\ OneChanged(reported, reported', p) /\ OneChanged(row, row', p)
      /\ OneChanged(asked, asked', p)
  BY <1>0, OneSame
<1>8. /\ session' \in Nat /\ accepted \subseteq accepted'
      /\ Thread(p, pc'[p], u'[p], row'[p], accepted') /\ Table(row'[p], accepted', asked'[p], reported'[p])
  BY <1>0, <1>1, <1>5
<1> QED BY <1>6, <1>7, <1>8, OneThread

\* Which entry a thread with the connection stands at.
LEMMA QueryEntry ==
  ASSUME WebmoneyConfigured, WebmoneyInv, NEW p \in Payments, pc[p] = "query"
  PROVE  /\ Thread(p, "query", u[p], row[p], accepted) /\ Table(row[p], accepted, asked[p], reported[p])
         /\ u[p].section \in SqlSections /\ Fields \subseteq DOMAIN u[p]
         /\ Len(Entry(p).param) = 3 =>
              /\ u[p].i = SqlStart(u[p].section) + 1 /\ u[p].arg = p
              /\ Entry(p).param = <<"db", "sql", "1">>
         /\ Len(Entry(p).param) = 2 => Executing(p, u[p], row[p], accepted)
<1> DEFINE h == u[p]
<1>1. Thread(p, "query", h, row[p], accepted) /\ Table(row[p], accepted, asked[p], reported[p])
  BY DEF WebmoneyInv
<1>2. /\ h.section \in SqlSections /\ h.i \in {SqlStart(h.section) + 1, SqlStart(h.section) + 2}
      /\ h.i = SqlStart(h.section) + 1 => h.arg = p
      /\ Fields \subseteq DOMAIN h
  BY <1>1 DEF Thread, Running, Waiting, Waits
<1>3. Entry(p) = WmScheme[h.section][h.i]
  BY DEF Entry, Section, WebmoneyConfigured
<1>4. CASE h.i = SqlStart(h.section) + 1
  <2>1. Entry(p) = Copy(<<"db", "sql", "1">>, <<"pay", "id">>)
    BY <1>2, <1>3, <1>4, SqlEntries DEF SqlKey
  <2>2. Entry(p).param = <<"db", "sql", "1">> /\ Len(<<"db", "sql", "1">>) = 3
    BY <2>1, CopyParam
  <2> QED BY <1>1, <1>2, <1>4, <2>2
<1>5. CASE h.i = SqlStart(h.section) + 2
  <2>1. Entry(p) = Copy(<<"db", "execute">>, <<"db", "sql">>)
    BY <1>2, <1>3, <1>5, SqlEntries DEF SqlExecute
  <2>2. Entry(p).param = <<"db", "execute">> /\ Len(<<"db", "execute">>) = 2
    BY <2>1, CopyParam
  <2> QED BY <1>1, <1>2, <1>5, <2>2 DEF Executing
<1> QED BY <1>2, <1>4, <1>5

\* Escape: the key of the statement.
LEMMA EscapeInv ==
  ASSUME WebmoneyConfigured, WebmoneyInv, NEW p \in Payments, Escape(p)
  PROVE  WebmoneyInv'
<1> DEFINE h == u[p]
           w == EvaluateConfigParam(h, Entry(p).param, h.arg)
<1>0. /\ pc[p] = "query" /\ Len(Entry(p).param) = 3 /\ NextEntry(p, w)
      /\ UNCHANGED <<reported, row, session, asked, accepted>>
  BY DEF Escape, shared
<1>1. /\ Thread(p, "query", h, row[p], accepted) /\ h.section \in SqlSections /\ Fields \subseteq DOMAIN h
      /\ h.i = SqlStart(h.section) + 1 /\ h.arg = p /\ Entry(p).param = <<"db", "sql", "1">>
  BY <1>0, QueryEntry
<1>2. w = Ok([h EXCEPT !.sqlArg = Put(h.sqlArg, "1", Escaped(p))], p)
  BY <1>1, SqlKeyWrite
<1>3. w.ok /\ w.u = [h EXCEPT !.sqlArg = Put(h.sqlArg, "1", Escaped(p))]
  BY <1>2, Results
<1> HIDE DEF w
<1>4. Goto(p, "entry", After(w.u))
  BY <1>0, <1>3 DEF NextEntry, After
<1>5. Keeps(w.u, h, {"sqlArg"}) /\ w.u.sqlArg = Put(h.sqlArg, "1", Escaped(p))
  BY <1>1, <1>3 DEF Keeps, Fields
<1>6. w.u.sqlArg["1"].escaped = p
  BY ONLY <1>5 DEF Put, Escaped
<1>7. Thread(p, "entry", After(w.u), row[p], accepted)
  BY <1>1, <1>5, <1>6, SqlKeyEntry
<1> QED BY <1>0, <1>4, <1>7, OneGoes

\* A statement changes the row of its own payment.
LEMMA EffectOnRow ==
  ASSUME WebmoneyInv, NEW p \in Payments, NEW sql, sql.args["1"].escaped = p, Effect(sql)
  PROVE  OneChanged(row, row', p) /\ row'[p] = RowAfter(row[p], sql.text, session) /\ session' \in Nat
<1>0. Key(sql) = p /\ session \in Nat /\ p \in DOMAIN row
  BY DEF Key, WebmoneyInv
<1>1. ASSUME NEW x, row' = [row EXCEPT ![p] = x]
      PROVE  OneChanged(row, row', p) /\ row'[p] = x
  BY <1>0, <1>1, OneExcept
<1>2. CASE sql.text = "insert"
  BY <1>0, <1>1, <1>2 DEF Effect, RowAfter
<1>3. CASE sql.text = "advance"
  BY <1>0, <1>1, <1>3 DEF Effect, RowAfter
<1>4. CASE sql.text = "complete"
  BY <1>0, <1>1, <1>4 DEF Effect, RowAfter
<1>5. CASE sql.text = "fatal"
  BY <1>0, <1>1, <1>5 DEF Effect, RowAfter
<1>6. CASE sql.text \notin {"insert", "advance", "complete", "fatal"}
  <2>1. RowAfter(row[p], sql.text, session) = row[p]
    BY <1>6 DEF RowAfter
  <2>2. row' = row /\ session' = session
    BY <1>6 DEF Effect
  <2> QED BY <1>0, <2>1, <2>2, OneSame
<1> QED BY <1>2, <1>3, <1>4, <1>5, <1>6

\* The invariant after a statement that was done.
LEMMA AfterEffect ==
  ASSUME WebmoneyInv, NEW p \in Payments, Executing(p, u[p], row[p], accepted),
         ~Refused(u[p].arg), Effect(u[p].arg), NEW where, NEW h, Goto(p, where, h),
         UNCHANGED <<reported, asked, accepted>>,
         Thread(p, where, h, RowAfter(row[p], SqlOf(u[p].section), session), accepted)
  PROVE  WebmoneyInv'
<1> DEFINE r2 == RowAfter(row[p], SqlOf(u[p].section), session)
<1>0. /\ session \in Nat /\ p \in DOMAIN row /\ p \in DOMAIN pc /\ p \in DOMAIN u
      /\ Table(row[p], accepted, asked[p], reported[p])
  BY DEF WebmoneyInv
<1>1. u[p].arg.text = SqlOf(u[p].section) /\ u[p].arg.args["1"].escaped = p
  BY ExecutingSection
<1>2. OneChanged(row, row', p) /\ row'[p] = r2 /\ session' \in Nat
  BY <1>1, EffectOnRow
<1>3. SqlOf(u[p].section) = "insert" => row[p] = NULL
  BY <1>1 DEF Refused, Key
<1>4. Table(r2, accepted, asked[p], reported[p])
  BY <1>0, <1>3, ExecuteTable
<1> HIDE DEF r2
<1>5. pc'[p] = where /\ u'[p] = h
  BY <1>0 DEF Goto
<1>6. OneChanged(pc, pc', p) /\ OneChanged(u, u', p)
  BY OneExcept DEF Goto
<1>7. OneChanged(asked, asked', p) /\ OneChanged(reported, reported', p)
  BY OneSame
<1>8. Thread(p, pc'[p], u'[p], row'[p], accepted') /\ Table(row'[p], accepted', asked'[p], reported'[p])
  BY <1>2, <1>4, <1>5 DEF r2
<1>9. accepted \subseteq accepted'
  OBVIOUS
<1> QED BY <1>2, <1>6, <1>7, <1>8, <1>9, OneThread

\* Execute: the statement is done and its rows are there, or it is refused.
LEMMA ExecuteInv ==
  ASSUME WebmoneyConfigured, WebmoneyInv, NEW p \in Payments, Execute(p)
  PROVE  WebmoneyInv'
<1> DEFINE h == u[p]
           g == [h EXCEPT !.rows = Found(h.arg)]
<1>0. pc[p] = "query" /\ Len(Entry(p).param) = 2 /\ UNCHANGED <<reported, asked, accepted>>
  BY DEF Execute
<1>1. Executing(p, h, row[p], accepted) /\ Fields \subseteq DOMAIN h /\ Table(row[p], accepted, asked[p], reported[p])
  BY <1>0, QueryEntry
<1>2. CASE Refused(h.arg)
  <2>1. Throw(p, h) /\ UNCHANGED <<reported, row, session, asked, accepted>>
    BY <1>0, <1>2 DEF Execute
  <2> QED BY <1>1, <2>1, ThrownThread, OneGoes DEF Throw
<1>3. CASE ~Refused(h.arg)
  <2>1. Effect(h.arg) /\ NextEntry(p, Ok(g, NULL))
    BY <1>3 DEF Execute
  <2>2. h.arg.text = SqlOf(h.section) /\ h.arg.args["1"].escaped = p
    BY <1>1, ExecutingSection
  <2>3. Key(h.arg) = p
    BY <2>2 DEF Key
  <2>4. SqlOf(h.section) = "insert" => row[p] = NULL
    BY <1>3, <2>2, <2>3 DEF Refused
  <2>5. Keeps(g, h, {"rows"}) /\ g.rows = Found(h.arg)
    BY <1>1 DEF Keeps, Fields
  <2>6. SqlOf(h.section) = "select" => Found(h.arg) # <<>> /\ Found(h.arg)[1] = RowOr(row[p])
    BY <2>2, <2>3 DEF Found, RowOr
  <2>7. Goto(p, "entry", After(g))
    BY <2>1, NextEntryGoes
  <2> HIDE DEF g
  <2>8. session \in Nat
    BY DEF WebmoneyInv
  <2>9. Thread(p, "entry", After(g), RowAfter(row[p], SqlOf(h.section), session), accepted)
    BY <1>1, <2>4, <2>5, <2>6, <2>8, ExecuteThread
  <2> QED BY <1>0, <1>1, <1>3, <2>1, <2>7, <2>9, AfterEffect
<1> QED BY <1>2, <1>3

\* ExecuteFails: an exception, whether or not the statement was done.
LEMMA ExecuteFailsInv ==
  ASSUME WebmoneyConfigured, WebmoneyInv, NEW p \in Payments, NEW done, ExecuteFails(p, done)
  PROVE  WebmoneyInv'
<1> DEFINE h == u[p]
<1>0. /\ pc[p] = "query" /\ Len(Entry(p).param) = 2 /\ UNCHANGED <<reported, asked, accepted>>
      /\ Throw(p, h)
  BY DEF ExecuteFails
<1>1. Executing(p, h, row[p], accepted) /\ Fields \subseteq DOMAIN h
  BY <1>0, QueryEntry
<1>2. CASE done /\ ~Refused(h.arg)
  <2>1. Effect(h.arg)
    BY <1>2 DEF ExecuteFails
  <2> QED BY <1>0, <1>1, <1>2, <2>1, ThrownThread, AfterEffect DEF Throw
<1>3. CASE ~(done /\ ~Refused(h.arg))
  <2>1. UNCHANGED <<row, session>>
    BY <1>3 DEF ExecuteFails
  <2> QED BY <1>0, <1>1, <2>1, ThrownThread, OneGoes DEF Throw
<1> QED BY <1>2, <1>3

\* Send and SendFails: the provider has seen the request, and may have accepted the
\* payment, whatever the thread learns of it.
LEMMA SendInv ==
  ASSUME WebmoneyInv, NEW p \in Payments, pc[p] = "send", Ask(p),
         UNCHANGED <<reported, row, session>>, accepted \subseteq accepted', NEW where, NEW g, Goto(p, where, g),
         Thread(p, where, g, row[p], accepted')
  PROVE  WebmoneyInv'
<1> DEFINE h == u[p]
           ask == IF h.arg.text # "payment" THEN asked[p] ELSE asked[p] \cup {h.arg.args["session"]}
<1>0. /\ Thread(p, "send", h, row[p], accepted) /\ Table(row[p], accepted, asked[p], reported[p])
      /\ session \in Nat /\ p \in DOMAIN asked /\ p \in DOMAIN pc /\ p \in DOMAIN u
  BY DEF WebmoneyInv
<1>1. OneChanged(asked, asked', p) /\ asked'[p] = ask
  <2>1. CASE h.arg.text # "payment"
    BY <2>1, OneSame DEF Ask
  <2>2. CASE h.arg.text = "payment"
    BY <1>0, <2>2, OneExcept DEF Ask
  <2> QED BY <2>1, <2>2
<1>2. Table(row[p], accepted, ask, reported[p])
  BY <1>0, SendTable
<1> HIDE DEF ask
<1>3. Table(row[p], accepted', ask, reported[p])
  BY <1>2, TableGrows
<1>4. pc'[p] = where /\ u'[p] = g
  BY <1>0 DEF Goto
<1>5. OneChanged(pc, pc', p) /\ OneChanged(u, u', p)
  BY OneExcept DEF Goto
<1>6. OneChanged(row, row', p) /\ OneChanged(reported, reported', p)
  BY OneSame
<1>7. /\ Thread(p, pc'[p], u'[p], row'[p], accepted') /\ Table(row'[p], accepted', asked'[p], reported'[p])
      /\ session' \in Nat
  BY <1>0, <1>1, <1>3, <1>4
<1> QED BY <1>1, <1>5, <1>6, <1>7, OneThread

\* Send: the answer is what the provider has done.
LEMMA SendAnswerInv ==
  ASSUME WebmoneyInv, NEW p \in Payments, NEW answer, Send(p, answer)
  PROVE  WebmoneyInv'
<1> DEFINE h == u[p]
           g == [h EXCEPT !.answer = answer]
<1>0. /\ pc[p] = "send" /\ Ask(p) /\ Processed(p, answer) /\ NextEntry(p, Ok(g, NULL))
      /\ UNCHANGED <<reported, row, session>>
  BY DEF Send
<1>1. /\ accepted \subseteq accepted'
      /\ h.arg.text = "payment" /\ answer["retval"] = "0" => h.arg.args["session"] \in accepted'
  BY <1>0 DEF Processed
<1>2. Thread(p, "send", h, row[p], accepted)
  BY <1>0 DEF WebmoneyInv
<1>3. Thread(p, "send", h, row[p], accepted')
  BY <1>1, <1>2, ThreadGrows
<1>4. Thread(p, "entry", After(g), row[p], accepted')
  BY <1>1, <1>3, SendThread
<1>5. Goto(p, "entry", After(g))
  BY <1>0, NextEntryGoes
<1> QED BY <1>0, <1>1, <1>4, <1>5, SendInv

\* SendFails: no answer or an empty one.
LEMMA SendFailsInv ==
  ASSUME WebmoneyInv, NEW p \in Payments, NEW answer, NEW processed, NEW cut, SendFails(p, answer, processed, cut)
  PROVE  WebmoneyInv'
<1> DEFINE h == u[p]
           g == [h EXCEPT !.answer = <<>>]
<1>0. /\ pc[p] = "send" /\ Ask(p) /\ UNCHANGED <<reported, row, session>>
      /\ accepted \subseteq accepted'
  BY DEF SendFails, Processed
<1>1. Thread(p, "send", h, row[p], accepted)
  BY <1>0 DEF WebmoneyInv
<1>2. Thread(p, "send", h, row[p], accepted')
  BY <1>0, <1>1, ThreadGrows
<1>3. CASE cut
  <2>1. NextEntry(p, Ok(g, NULL))
    BY <1>3 DEF SendFails
  <2>2. Goto(p, "entry", After(g))
    BY <2>1, NextEntryGoes
  <2>3. "retval" \notin DOMAIN <<>>
    OBVIOUS
  <2>4. Thread(p, "entry", After(g), row[p], accepted')
    BY <1>2, <2>3, SendThread
  <2> QED BY <1>0, <2>2, <2>4, SendInv
<1>4. CASE ~cut
  <2>1. Throw(p, h)
    BY <1>4 DEF SendFails
  <2>2. Fields \subseteq DOMAIN h
    BY <1>1 DEF Thread
  <2> QED BY <1>0, <2>1, <2>2, ThrownThread, SendInv DEF Throw
<1> QED BY <1>3, <1>4

\* Log: the last entry of section complete.
LEMMA LogInv ==
  ASSUME WebmoneyInv, NEW p \in Payments, NEW good, Log(p, good)
  PROVE  WebmoneyInv'
<1> DEFINE h == u[p]
           g == [h EXCEPT !.log["file"].args = <<>>]
<1>0. pc[p] = "log" /\ UNCHANGED <<reported, row, session, asked, accepted>>
  BY DEF Log, shared
<1>1. Thread(p, "log", h, row[p], accepted) /\ Table(row[p], accepted, asked[p], reported[p])
  BY <1>0 DEF WebmoneyInv
<1>2. h.section = "complete" /\ h.i = 8 /\ Fields \subseteq DOMAIN h
  BY <1>1 DEF Thread, Running, Waiting
<1>3. CASE good
  <2>1. NextEntry(p, Ok(g, NULL))
    BY <1>3 DEF Log
  <2>2. Goto(p, "entry", After(g))
    BY <2>1, NextEntryGoes
  <2>3. Keeps(g, h, {})
    BY <1>2 DEF Keeps, Fields
  <2> HIDE DEF g
  <2>4. row[p] # NULL /\ row[p].stage = 3 => row[p].session \in accepted
    BY <1>1 DEF Table
  <2>5. Thread(p, "entry", After(g), row[p], accepted)
    BY <1>1, <1>2, <2>3, <2>4, CompleteEntry
  <2> QED BY <1>0, <2>2, <2>5, OneGoes
<1>4. CASE ~good
  <2>1. Throw(p, h)
    BY <1>4 DEF Log
  <2> QED BY <1>0, <1>2, <2>1, ThrownThread, OneGoes DEF Throw
<1> QED BY <1>3, <1>4

\* Crash: all hooks are gone, the table and the provider are not.
LEMMA CrashInv ==
  ASSUME WebmoneyInv, Crash
  PROVE  WebmoneyInv'
<1>1. /\ pc' = [p \in Payments |-> "idle"] /\ u' = [p \in Payments |-> NULL]
      /\ UNCHANGED <<reported, row, session, asked, accepted>>
  BY DEF Crash
<1>2. \A p \in Payments : Thread(p, pc'[p], u'[p], row'[p], accepted')
  BY <1>1 DEF Thread
<1> QED BY <1>1, <1>2 DEF WebmoneyInv

LEMMA InitInv == Init => WebmoneyInv
<1> SUFFICES ASSUME Init PROVE WebmoneyInv
  OBVIOUS
<1>1. \A p \in Payments : pc[p] = "idle" /\ row[p] = NULL /\ asked[p] = {} /\ reported[p] = NULL
  BY DEF Init
<1>2. \A p \in Payments : Thread(p, pc[p], u[p], row[p], accepted)
  BY <1>1 DEF Thread
<1>3. \A p \in Payments : Table(row[p], accepted, asked[p], reported[p])
  BY <1>1, NullIsNothing DEF Table
<1> QED BY <1>2, <1>3 DEF Init, WebmoneyInv

LEMMA StepInv ==
  ASSUME WebmoneyConfigured, WebmoneyInv, [Next]_vars
  PROVE  WebmoneyInv'
<1>1. ASSUME NEW p \in Payments, Step(p) PROVE WebmoneyInv'
  BY <1>1, SendDataInv, EvalParamsInv, NextStageInv, ReportInv, ConnectInv, EscapeInv, ExecuteInv,
     SendAnswerInv, LogInv DEF Step
<1>2. ASSUME NEW p \in Payments, Failure(p) PROVE WebmoneyInv'
  BY <1>2, ExecuteFailsInv, SendFailsInv, LogInv DEF Failure
<1>3. CASE Crash
  BY <1>3, CrashInv
<1>4. CASE ServerDown \/ ServerUp \/ Finished \/ UNCHANGED vars
  BY <1>4 DEF ServerDown, ServerUp, Finished, vars, WebmoneyInv
<1> QED BY <1>1, <1>2, <1>3, <1>4 DEF Next

\* What a thread of the webmoney module knows at each entry of the scheme agrees with its
\* row of the table and with the provider, whatever fails and whenever the process dies.
THEOREM WebmoneyCorrect ==
  ASSUME WebmoneyConfigured
  PROVE  Spec => []WebmoneyInv
<1>1. WebmoneyInv /\ [Next]_vars => WebmoneyInv'
  BY StepInv
<1> QED BY <1>1, InitInv, PTL DEF Spec

\* A success that asSPayResult reports is a payment that the provider has accepted.
THEOREM CompletedPaidCorrect ==
  ASSUME WebmoneyConfigured
  PROVE  Spec => []CompletedPaid
<1>1. WebmoneyInv => CompletedPaid
  BY DEF WebmoneyInv, Table, Paid, CompletedPaid
<1> QED BY <1>1, WebmoneyCorrect, PTL

\* All requests to pay a payment carry the session of its row.
THEOREM OneSessionCorrect ==
  ASSUME WebmoneyConfigured
  PROVE  Spec => []OneSession
<1>1. WebmoneyInv => OneSession
  BY DEF WebmoneyInv, Table, OneSession
<1> QED BY <1>1, WebmoneyCorrect, PTL

\* Money is requested only for a payment whose row says that the check is behind.
THEOREM PayRecordedCorrect ==
  ASSUME WebmoneyConfigured
  PROVE  Spec => []PayRecorded
<1>1. WebmoneyInv => PayRecorded
  BY DEF WebmoneyInv, Table, PayRecorded
<1> QED BY <1>1, WebmoneyCorrect, PTL

-----------------------------------------------------------------------------
(* The table of the scheme.                                                 *)

\* A row stays, with its session, and its stage never goes back.
TableForward ==
  \A p \in Payments :
    row[p] # NULL => row'[p] # NULL /\ row'[p].session = row[p].session /\ row'[p].stage >= row[p].stage

LEMMA RowForward ==
  ASSUME NEW p, NEW h, NEW r, NEW acc, NEW ask, NEW rep, Executing(p, h, r, acc), Table(r, acc, ask, rep),
         NEW n \in Nat, SqlOf(h.section) # "insert", r # NULL
  PROVE  /\ RowAfter(r, SqlOf(h.section), n) # NULL
         /\ RowAfter(r, SqlOf(h.section), n).session = r.session
         /\ RowAfter(r, SqlOf(h.section), n).stage >= r.stage
<1>0. /\ h.section \in SqlSections /\ InSection(h, r, acc) /\ r \in [stage : 1..4, session : Nat]
  BY ExecutingSection DEF Table
<1>1. Table(RowAfter(r, SqlOf(h.section), n), acc, ask, rep)
  BY ExecuteTable
<1>2. CASE h.section = "main"
  BY <1>0, <1>2 DEF RowAfter, SqlOf
<1>3. CASE h.section = "complete"
  <2>1. RowAfter(r, SqlOf(h.section), n) = [r EXCEPT !.stage = 3] /\ r.stage = 3
    BY <1>0, <1>3 DEF RowAfter, SqlOf, InSection, InComplete
  <2>2. [r EXCEPT !.stage = 3] = r
    BY <1>0, <2>1
  <2> QED BY <1>0, <2>1, <2>2
<1>4. CASE h.section = "success"
  <2> DEFINE k == [r EXCEPT !.stage = @ + 1]
  <2>1. RowAfter(r, SqlOf(h.section), n) = k
    BY <1>4 DEF RowAfter, SqlOf
  <2>2. k \in [stage : Nat, session : Nat] /\ k.stage = r.stage + 1 /\ k.session = r.session
    BY <1>0
  <2> HIDE DEF k
  <2> QED BY <1>0, <2>1, <2>2, NullIsNothing
<1>5. CASE h.section = "fatal"
  <2> DEFINE k == [r EXCEPT !.stage = 4]
  <2>1. RowAfter(r, SqlOf(h.section), n) = k
    BY <1>5 DEF RowAfter, SqlOf
  <2>2. k \in [stage : Nat, session : Nat] /\ k.stage = 4 /\ k.session = r.session
    BY <1>0
  <2> HIDE DEF k
  <2> QED BY <1>0, <2>1, <2>2, NullIsNothing
<1>6. h.section # "init"
  BY DEF SqlOf
<1> QED BY <1>0, <1>2, <1>3, <1>4, <1>5, <1>6 DEF SqlSections

LEMMA EffectForward ==
  ASSUME WebmoneyConfigured, WebmoneyInv, NEW p \in Payments, pc[p] = "query", Len(Entry(p).param) = 2,
         ~Refused(u[p].arg), Effect(u[p].arg)
  PROVE  TableForward
<1> DEFINE h == u[p]
<1>1. Executing(p, h, row[p], accepted) /\ Table(row[p], accepted, asked[p], reported[p]) /\ session \in Nat
  BY QueryEntry DEF WebmoneyInv
<1>2. h.arg.text = SqlOf(h.section) /\ h.arg.args["1"].escaped = p
  BY <1>1, ExecutingSection
<1>3. OneChanged(row, row', p) /\ row'[p] = RowAfter(row[p], SqlOf(h.section), session)
  BY <1>2, EffectOnRow
<1>4. SqlOf(h.section) = "insert" => row[p] = NULL
  BY <1>2 DEF Refused, Key
<1>5. row[p] # NULL => row'[p] # NULL /\ row'[p].session = row[p].session /\ row'[p].stage >= row[p].stage
  BY <1>1, <1>3, <1>4, RowForward
<1>6. ASSUME NEW q \in Payments, q # p, row[q] # NULL
      PROVE  row'[q] # NULL /\ row'[q].session = row[q].session /\ row'[q].stage >= row[q].stage
  <2>1. row'[q] = row[q]
    BY <1>3, <1>6 DEF OneChanged, WebmoneyInv
  <2>2. row[q] \in [stage : 1..4, session : Nat]
    BY <1>6 DEF WebmoneyInv, Table
  <2> QED BY <1>6, <2>1, <2>2
<1> QED BY <1>5, <1>6 DEF TableForward

\* Whatever fails, an attempt never loses what an earlier one has stored about a payment.
THEOREM TableForwardCorrect ==
  ASSUME WebmoneyConfigured
  PROVE  Spec => [][TableForward]_vars
<1>1. ASSUME WebmoneyInv, Next PROVE TableForward
  <2>1. CASE row' = row
    BY <1>1, <2>1 DEF TableForward, WebmoneyInv, Table
  <2>2. ASSUME NEW p \in Payments, Execute(p) PROVE TableForward
    <3>1. CASE Refused(u[p].arg)
      BY <2>1, <2>2, <3>1 DEF Execute
    <3>2. CASE ~Refused(u[p].arg)
      BY <1>1, <2>2, <3>2, EffectForward DEF Execute
    <3> QED BY <3>1, <3>2
  <2>3. ASSUME NEW p \in Payments, NEW done, ExecuteFails(p, done) PROVE TableForward
    <3>1. CASE done /\ ~Refused(u[p].arg)
      BY <1>1, <2>3, <3>1, EffectForward DEF ExecuteFails
    <3>2. CASE ~(done /\ ~Refused(u[p].arg))
      BY <2>1, <2>3, <3>2 DEF ExecuteFails
    <3> QED BY <3>1, <3>2
  <2>4. ASSUME NEW p \in Payments, Step(p), ~Execute(p) PROVE row' = row
    BY <2>4 DEF Step, SendData, EvalParams, NextStage, Report, Connect, Connected, Escape, Send, Log, shared
  <2>5. ASSUME NEW p \in Payments, Failure(p), ~\E done \in BOOLEAN : ExecuteFails(p, done) PROVE row' = row
    BY <2>5 DEF Failure, SendFails, Log, shared
  <2>6. CASE ServerDown \/ ServerUp \/ Crash \/ Finished
    BY <2>1, <2>6 DEF ServerDown, ServerUp, Crash, Finished, vars
  <2> QED BY <1>1, <2>1, <2>2, <2>3, <2>4, <2>5, <2>6 DEF Next
<1> QED BY <1>1, WebmoneyCorrect, PTL DEF Spec
=============================================================================
