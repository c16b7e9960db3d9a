---------------------------- MODULE MCAlgorithms ----------------------------
(***************************************************************************)
(* The list as a state machine and, from its initial state, one step for   *)
(* each input of the encodings, the readers of texts and the commands that *)
(* edit the ignore lists.                                                  *)
(***************************************************************************)
EXTENDS Ulist, Codecs, ConfigText, UpgmText, IgnoreLists, TLC

CONSTANTS e1, e2, e3

VARIABLE input   \* [kind, arg] or NoInput

NoInput == [kind |-> "none", arg |-> <<>>]

SeqsUpTo(S, n) == UNION {[1..k -> S] : k \in 0..n}
Join(parts, sep) == IF parts = <<>> THEN <<>> ELSE
  Tail(FlattenSeq([i \in 1..Len(parts) |-> <<sep>> \o parts[i]]))

-----------------------------------------------------------------------------
(* Inputs of the encodings.                                                 *)

Messages == SeqsUpTo({0, 1, 63, 128, 255}, 4) \cup {<<a, b>> : a \in 1..255, b \in {37, 200}}
Numbers == 0..1999 \cup {5152, 51051, 99999, 100000, 515253, 1234567, 2000000000}
Words == {<<>>, <<"a">>, <<"a", "o">>}
FieldLists == SeqsUpTo(Words, 3) \ {<<>>}

PadZero(m) == m \o [i \in 1..((2 * Len(m)) % 3) |-> 0]
Undigit(code) == FlattenSeq([i \in 1..Len(code) |->
  IF "digit" \in DOMAIN code[i] THEN <<code[i].digit>> ELSE <<code[i].letter \div 10, code[i].letter % 10>>])

\* What a reader of a URL makes of it: a code is the byte it names.
RECURSIVE UrlRead(_)
UrlRead(url) ==
  IF url = <<>> THEN <<>>
  ELSE IF url[1] = 37 THEN <<url[2][1] * 16 + url[2][2]>> \o UrlRead(Tail(Tail(url)))
  ELSE <<url[1]>> \o UrlRead(Tail(url))

\* Every encoding of core.cpp can be undone: what a provider or the other side of the wire
\* decodes is the message, up to the zero bytes that B64decode adds to fill a group, and no
\* two messages or numbers look the same after it.
CodecsInvert ==
  LET m == input.arg
  IN CASE input.kind = "message" ->
            /\ B64decode(B64encode(m), Len(m)) = PadZero(m)
            /\ WIN1251TOKOI8R(KOI8RTOWIN1251(m)) = m
            /\ \* letters arrive as Windows-1251, the rest as it was
               LET koi == SelectSeq(m, LAMBDA c : c \notin {163, 179})
               IN UrlRead(ConvertToUrlCode(koi)) = KOI8RTOWIN1251(koi)
       [] input.kind = "number" ->
            /\ iso8583_decode(iso8583_code(m, 5)) = m
            /\ Undigit(NumberToHashCode(m)) = Digits(m)
       [] input.kind = "fields" ->
            /\ \A n \in 0..3 : ParseXParams(Join(m, "$"), n) = IF n < Len(m) THEN m[n + 1] ELSE <<>>
            /\ LET keys == <<<<"o", "=">>, <<"d", "=">>, <<"s", "=">>>>
                   request == FlattenSeq([i \in 1..Len(m) |-> keys[i] \o m[i] \o <<NL>>])
               IN \A n \in 1..3 : XMLSimpleParse(request, keys[n], <<NL>>) = IF n <= Len(m) THEN m[n] ELSE <<>>
       [] OTHER -> TRUE

-----------------------------------------------------------------------------
(* Texts, as somebody writes them.                                          *)

p == <<"p">>
q == <<"q">>
s == <<"s">>
Section(name) == [kind |-> "section", name |-> name]
Param(name, v) == [kind |-> "param", name |-> name, v |-> v]
Comment == [kind |-> "comment"]
Blank == [kind |-> "blank"]

\* The section in force at line i; "end" closes one.
SectionAt(lines, i) ==
  LET before == {j \in 1..i : lines[j].kind = "section"}
  IN IF before = {} THEN <<>> ELSE lines[CHOOSE j \in before : \A k \in before : k <= j].name

LegacyLines(values) ==
  {Section(s), Section(<<"e", "n", "d">>), Comment, Blank, Param(q, <<"#">>)} \cup {Param(p, v) : v \in values}
LegacyText(lines, sep) ==
  Join([i \in 1..Len(lines) |->
          CASE lines[i].kind = "section" -> <<"[">> \o lines[i].name \o <<"]">>
            [] lines[i].kind = "param" -> lines[i].name \o <<"=">> \o lines[i].v
            [] lines[i].kind = "comment" -> <<"#", "p", "=", "c">>
            [] OTHER -> <<>>], NL) \o sep

\* The value that the first line of that name in that section gives.
LegacyMeaning(lines, name, section) ==
  LET at == {i \in 1..Len(lines) :
               /\ lines[i].kind = "param" /\ lines[i].name = name
               /\ section = IF SectionAt(lines, i) = <<"e", "n", "d">> THEN NoSection ELSE SectionAt(lines, i)}
  IN IF at = {} THEN Missing ELSE lines[Min(at)].v

LegacyReads(node, lines) ==
  \A name \in {p, q}, section \in {NoSection, s} :
    LET meaning == LegacyMeaning(lines, name, section)
        set == SetValue(node, name, section, <<"n">>)
    IN /\ GetValue(node, name, section) = meaning
       /\ GetValue(set, name, section) = IF meaning = Missing THEN Missing ELSE <<"n">>
       /\ \A other \in {p, q} \ {name} : GetValue(set, other, section) = GetValue(node, other, section)

Escaped(text, special) ==
  FlattenSeq([i \in 1..Len(text) |-> IF text[i] \in special THEN <<"\\", text[i]>> ELSE <<text[i]>>])

UpgmLines ==
  {Section(s), Comment, Blank}
    \cup {Param(p, [text |-> v, quoted |-> FALSE]) : v \in {<<>>, <<"a">>, <<"a", " ", "=">>, <<"\"", "a", "\\">>}}
    \cup {Param(q, [text |-> v, quoted |-> TRUE]) : v \in {<<>>, <<" ", "a", "\n">>, <<"\"">>, <<"\\", "]">>}}

\* A parameter on the very first line loses its name: the file begins with a comment.
UpgmFile(lines) ==
  <<"#", "=", "\n">> \o FlattenSeq([i \in 1..Len(lines) |->
     CASE lines[i].kind = "section" -> <<"[">> \o lines[i].name \o <<"]", "\n">>
       [] lines[i].kind = "param" /\ ~lines[i].v.quoted ->
            lines[i].name \o <<"=">> \o Escaped(lines[i].v.text, {"\\", "\""}) \o <<" ", "\n">>
       [] lines[i].kind = "param" /\ lines[i].v.quoted ->
            <<" ">> \o lines[i].name \o <<" ", "=", " ", "\"">> \o Escaped(lines[i].v.text, {"\\", "\""}) \o <<"\"", "\n">>
       [] lines[i].kind = "comment" -> <<"#", "p", "=", "c", "\\", "\n">>
       [] OTHER -> <<"\t", "\n">>])

UpgmMeaning(lines) ==
  LET params == SelectSeq([i \in 1..Len(lines) |-> i], LAMBDA i : lines[i].kind = "param")
  IN [n \in 1..Len(params) |->
        [section |-> SectionAt(lines, params[n]), param |-> lines[params[n]].name,
         value |-> lines[params[n]].v.text, quoted |-> lines[params[n]].v.quoted]]

Paths == SeqsUpTo({<<>>, <<"a">>, <<".">>, <<"\\">>, <<"a", "\\", ".">>}, 3) \ {<<>>, <<<<>>>>}
PathText(path) == Join([i \in 1..Len(path) |-> Escaped(path[i], {".", "\\"})], ".")

\* Two variables side by side have one place and the first is lost; a text of one character,
\* and an escape at the very beginning, are not read either.
TemplateParts == [var : {<<"v">>, <<"w">>, <<"u">>}] \cup [lit : {<<"t">>, <<"t", "(">>, <<"$", "t">>, <<"\\">>}]
IsVar(part) == "var" \in DOMAIN part
TemplateText(parts) ==
  FlattenSeq([i \in 1..Len(parts) |->
    IF IsVar(parts[i]) THEN <<"$", "(">> \o parts[i].var \o <<")">> ELSE Escaped(parts[i].lit, {"$", "\\"})])
Templates ==
  {t \in SeqsUpTo(TemplateParts, 4) :
     /\ \A i \in 1..(Len(t) - 1) : ~(IsVar(t[i]) /\ IsVar(t[i + 1]))
     /\ Len(TemplateText(t)) # 1
     /\ t # <<>> => IsVar(t[1]) \/ t[1].lit[1] = "t"}
TemplateData == [n \in {<<"v">>, <<"w">>} |-> IF n = <<"v">> THEN <<"1", "2">> ELSE <<>>]
TemplateMeaning(parts) ==
  FlattenSeq([i \in 1..Len(parts) |->
    IF ~IsVar(parts[i]) THEN parts[i].lit
    ELSE IF parts[i].var \in DOMAIN TemplateData THEN TemplateData[parts[i].var] ELSE <<>>])

\* The commands an administrator may give, one after the other.
IgnoreCommands ==
  [cmd : {"ADD_IGNORE_OP", "REMOVE_IGNORE_OP"}, id : {"1", "2"}]
    \cup [cmd : {"ADD_IGNORE_EG", "REMOVE_IGNORE_EG"}, id : {"1"}]
    \cup [cmd : {"CLEAR_IGNORE_OP", "CLEAR_IGNORE_EG", "CLEAR_IGNORE_ALL"}, id : {"0"}]
IgnoreAfter(commands) == FoldLeft(ExecIgnoreCmd, NoLists, commands)

\* What MySQL leaves out for one column of the condition.
RECURSIVE LeftOut(_, _)
LeftOut(tokens, column) ==
  IF tokens = <<>> THEN <<>>
  ELSE LET end == SelectInSeq(tokens, LAMBDA t : t = ")")
           ids == SelectSeq(SubSeq(tokens, 4, end), LAMBDA t : t \notin {",", ")"})
       IN IF tokens[2] = column THEN ids ELSE LeftOut(SubSeq(tokens, end + 1, Len(tokens)), column)

\* What the commands say is left out, when no id is on a list twice and a list is cleared
\* with at most one id on it: beyond that the walks leave ids behind.
RECURSIVE ToIgnore(_, _)
ToIgnore(commands, kind) ==
  IF commands = <<>> THEN {}
  ELSE LET c == Last(commands)
           before == ToIgnore(Front(commands), kind)
       IN CASE c.cmd = "ADD_IGNORE_" \o kind -> before \cup {c.id}
            [] c.cmd = "REMOVE_IGNORE_" \o kind -> before \ {c.id}
            [] c.cmd \in {"CLEAR_IGNORE_" \o kind, "CLEAR_IGNORE_ALL"} -> {}
            [] OTHER -> before
Orderly(commands) ==
  \A i \in 1..Len(commands) :
    LET lists == IgnoreAfter(SubSeq(commands, 1, i - 1))
    IN /\ commands[i].cmd = "ADD_IGNORE_OP" => commands[i].id \notin ToSet(lists.operators)
       /\ commands[i].cmd = "ADD_IGNORE_EG" => commands[i].id \notin ToSet(lists.engines)
       /\ commands[i].cmd \in {"CLEAR_IGNORE_OP", "CLEAR_IGNORE_EG", "CLEAR_IGNORE_ALL"} =>
            Len(lists.operators) <= 1 /\ Len(lists.engines) <= 1

IgnoreListsSelect(commands) ==
  LET lists == IgnoreAfter(commands)
      condition == CompileAdditionalSelectCase(lists)
  IN /\ ToSet(LeftOut(condition, "provider_id")) = ToIgnore(commands, "OP")
     /\ ToSet(LeftOut(condition, "pay_engine")) = ToIgnore(commands, "EG")
     /\ GetIgnoreList(lists.operators, 1022) = [len |-> Len(lists.operators), ids |-> lists.operators]

\* A configuration file, a path or a template means what its lines and escapes say, whatever
\* comes before and after: values with "=", "#" and quotes, empty ones, comments, "[end]",
\* the last line with and without its line break, escapes at the end of a name.  And the
\* condition that CompileAdditionalSelectCase writes leaves out the operators and engines that
\* the commands before it have named.
TextsReadAsWritten ==
  CASE input.kind = "config" -> LegacyReads(ReadFile(LegacyText(input.arg.lines, input.arg.sep)), input.arg.lines)
    [] input.kind = "paycheck" -> LegacyReads(ParseText(LegacyText(input.arg.lines, input.arg.sep)), input.arg.lines)
    [] input.kind = "upgm" -> Config_parse(UpgmFile(input.arg)) = UpgmMeaning(input.arg)
    [] input.kind = "path" -> pathFromString(PathText(input.arg)) = input.arg
    [] input.kind = "template" ->
         Template_evaluate(Template_parse(TemplateText(input.arg)), TemplateData) = TemplateMeaning(input.arg)
    [] input.kind = "ignore" -> IgnoreListsSelect(input.arg)
    [] OTHER -> TRUE

-----------------------------------------------------------------------------
Legacy(values) == [lines : SeqsUpTo(LegacyLines(values), 4), sep : {<<>>, <<NL>>}]
Given(kind, args) == \E arg \in args : input' = [kind |-> kind, arg |-> arg]

MCInit == Init /\ input = NoInput
Operate == input.kind = "none" /\ Next /\ UNCHANGED input
Read ==
  /\ input.kind = "none" /\ Init
  /\ \/ Given("message", Messages)
     \/ Given("number", Numbers)
     \/ Given("fields", FieldLists)
     \/ Given("config", Legacy({<<>>, <<"x">>, <<"x", "=", "y">>}))
     \/ Given("paycheck", Legacy({<<>>, <<"x">>}))
     \/ Given("upgm", SeqsUpTo(UpgmLines, 3))
     \/ Given("path", Paths)
     \/ Given("template", Templates)
     \/ Given("ignore", {c \in SeqsUpTo(IgnoreCommands, 4) : Orderly(c)})
  /\ UNCHANGED vars
MCSpec == MCInit /\ [][Operate \/ Read]_<<vars, input>>

=============================================================================
