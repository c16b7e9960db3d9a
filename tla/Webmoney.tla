------------------------------ MODULE Webmoney ------------------------------
(***************************************************************************)
(* The webmoney module: its scheme and codes as values for the constants   *)
(* of Upgm.  Entries that only copy one more field of the pay, of the      *)
(* configuration or of the answer, or that concern the table of rests, are *)
(* left out: they leave stage, session and result alone, and an exception  *)
(* of theirs ends the attempt where a failed request ends it anyway.  The  *)
(* last stage ends with the log record of the centrtelecom module, which   *)
(* webmoney has as a comment.                                              *)
(***************************************************************************)
EXTENDS Upgm

\* param=text and param=$path
Set(param, text) == [param |-> param, value |-> [var |-> FALSE, text |-> text]]
Copy(param, path) == [param |-> param, value |-> [var |-> TRUE, path |-> path]]

\* A statement about the payment's row: its text, its key, its execution.
SqlText(text) == Set(<<"db", "sql">>, text)
SqlKey == Copy(<<"db", "sql", "1">>, <<"pay", "id">>)
SqlExecute == Copy(<<"db", "execute">>, <<"db", "sql">>)

WmMain ==
  <<Set(<<"stage", "id", 0>>, "init"), Set(<<"stage", "id", 1>>, "check"), Set(<<"stage", "id", 2>>, "pay"),
    Set(<<"stage", "id", 3>>, "complete"), Set(<<"stage", "id", 4>>, "fatal"),
    SqlText("select"), SqlKey, SqlExecute,
    Copy(<<"stage", "id">>, <<"db", "field", "stage">>), Copy(<<"var", "session">>, <<"db", "field", "session">>)>>

WmInit == <<SqlText("insert"), SqlKey, SqlExecute, Set(<<"stage">>, "main")>>

\* Both requests: what is signed, what is asked, and what becomes of the answer.
WmRequest(first, second, text) ==
  <<Copy(<<"wm_signature", "data">>, first), Copy(<<"wm_signature", "append_data">>, second),
    Set(<<"request">>, text), Copy(<<"request", "session">>, <<"var", "session">>),
    Copy(<<"request", "sign">>, <<"wm_signature">>),
    Copy(<<"config", "transport", "url">>, <<"common", "url">>),
    Copy(<<"transport", "write">>, <<"request">>), Copy(<<"parser", "parse">>, <<"transport", "read">>),
    Copy(<<"code">>, <<"parser", "get", "retval">>), Copy(<<"template", "error">>, <<"code", "message">>),
    Copy(<<"var", "error", "cp1251">>, <<"parser", "try_get", "description">>),
    Copy(<<"template", "error", "WMERROR">>, <<"var", "error">>),
    Copy(<<"pay", "error">>, <<"template", "error">>), Copy(<<"stage">>, <<"code", "act">>)>>

WmComplete ==
  <<Set(<<"pay", "result">>, "completed"), SqlText("complete"), SqlKey, SqlExecute,
    Set(<<"log", "file">>, "itog"), Set(<<"log", "record">>, "paid"),
    Copy(<<"log", "record", "1">>, <<"pay", "summ">>), Copy(<<"log", "write">>, <<"log", "record">>)>>

WmSuccess == <<Copy(<<"stage">>, <<"stage", "next">>), SqlText("advance"), SqlKey, SqlExecute>>

WmFatal == <<Set(<<"pay", "result">>, "failed"), SqlText("fatal"), SqlKey, SqlExecute>>

WmScheme ==
  [s \in {"main", "init", "check", "pay", "complete", "success", "fatal"} |->
     CASE s = "main" -> WmMain [] s = "init" -> WmInit
       [] s = "check" -> WmRequest(<<"pay", "summ">>, <<"pay", "data", 1>>, "check")
       [] s = "pay" -> WmRequest(<<"var", "session">>, <<"pay", "summ">>, "payment")
       [] s = "complete" -> WmComplete [] s = "success" -> WmSuccess [] s = "fatal" -> WmFatal]

\* codes.cfg: only "0" goes on with the next stage.
WmCodes ==
  [c \in {"0", "-3", "-10", "-15", "-12", "default"} |->
     [message |-> c, act |-> IF c = "0" THEN "success" ELSE "fatal"]]

\* config.cfg
WmMainConfig == [transport |-> "http", parser |-> "xml", db |-> "mysql"]
WmHookConfig == [common |-> [url |-> "w3s"], transport |-> [port |-> "443"], pay |-> [data_separator |-> "dollar"]]

\* The module is configured with these files; pay.id is the key of a pay.
WebmoneyConfigured ==
  Scheme = WmScheme /\ Codes = WmCodes /\ \A p \in Payments : PayData[p]["id"] = p
=============================================================================
