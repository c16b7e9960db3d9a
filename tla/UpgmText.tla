------------------------------ MODULE UpgmText ------------------------------
(***************************************************************************)
(* The texts of UPGM: its configuration files (config.cpp), the paths of   *)
(* its data (path.cpp) and the templates of requests (template.cpp).  A    *)
(* text is a sequence of characters; offsets are from 0.                   *)
(***************************************************************************)
EXTENDS Integers, Sequences, SequencesExt, Functions

escape == "\\"
quote == "\""
linebreak == "\n"

\* std::string(data, begin, length): what there is of it
Sub(data, begin, length) == SubSeq(data, begin + 1, begin + length)

\* One state after another, over the offsets of data.
Over(data, Op(_, _), start) == FoldLeft(Op, start, [i \in 1..Len(data) |-> i - 1])

-----------------------------------------------------------------------------
(* Config.                                                                  *)

isSkippable(chr) == chr \in {" ", "\t", "\n", "\r"}

ConfigEntry(s) == [section |-> s.section, param |-> s.param, value |-> s.value, quoted |-> s.inQuote]

\* _root, for the empty section, and _data in one sequence.
flush(s) == [s EXCEPT !.entries = Append(@, ConfigEntry(s)), !.param = <<>>, !.value = <<>>, !.inQuote = FALSE]

\* What saveTmp appends: a block that begins at offset 0 is not there.
Block(s, data) ==
  IF s.blockStart > 0 /\ s.blockEnd >= s.blockStart
  THEN Sub(data, s.blockStart, s.blockEnd - s.blockStart) ELSE <<>>

NoBlock(s) == [s EXCEPT !.blockStart = -1, !.blockEnd = -1]

\* The case VALUE.
ReadValue(data, s, i) ==
  LET chr == data[i + 1]
      lastChar == i + 1 = Len(data)
      isEndMark == \/ ~s.escaped /\ s.endMark = chr
                   \/ s.endMark = "" /\ chr = linebreak
      t == IF lastChar /\ ~isEndMark THEN [s EXCEPT !.blockEnd = @ + 1] ELSE s
  IN CASE s.endMark = "" /\ chr = quote /\ ~s.escaped ->
            [s EXCEPT !.endMark = quote, !.inQuote = TRUE, !.skipOneChar = TRUE]
       [] s.endMark = "" /\ ~isSkippable(chr) /\ (chr = quote => s.escaped) -> [s EXCEPT !.endMark = linebreak]
       [] (s.endMark # "" \/ isSkippable(chr)) /\ (isEndMark \/ lastChar) ->
            [NoBlock(flush([t EXCEPT !.value = @ \o Block(t, data)])) EXCEPT !.readMode = "UNDEF", !.endMark = ""]
       [] OTHER -> s

\* The switch on readMode.
ReadChar(data, s, i) ==
  LET chr == data[i + 1]
  IN CASE s.readMode = "UNDEF" /\ chr = "[" -> [s EXCEPT !.readMode = "SECTION", !.skipOneChar = TRUE]
       [] s.readMode = "UNDEF" /\ chr = "#" -> [s EXCEPT !.readMode = "COMMENT"]
       [] s.readMode = "UNDEF" /\ chr \notin {"[", "#"} /\ ~isSkippable(chr) ->
            [s EXCEPT !.readMode = "PARAM", !.blockStart = i]
       [] s.readMode = "COMMENT" /\ chr = linebreak -> [NoBlock(s) EXCEPT !.readMode = "UNDEF"]
       [] s.readMode = "SECTION" /\ chr = "]" ->
            [NoBlock(s) EXCEPT !.readMode = "UNDEF", !.section = Block(s, data)]
       [] s.readMode = "PARAM" /\ chr = "=" ->
            [NoBlock(s) EXCEPT !.readMode = "VALUE", !.endMark = "", !.skipOneChar = TRUE,
                               !.param = @ \o Block(s, data)]
       [] s.readMode = "VALUE" -> ReadValue(data, s, i)
       [] OTHER -> s

\* The end of the loop's body: the block grows.
Grow(data, s, i) ==
  IF ~s.skipOneChar /\ s.readMode # "UNDEF" /\ (~isSkippable(data[i + 1]) \/ s.inQuote)
  THEN [s EXCEPT !.blockEnd = i + 1, !.blockStart = IF @ = -1 THEN i ELSE @]
  ELSE s

\* An escape character ends the block (appendTmp) and the next one begins behind it.
Escape(data, s, i) ==
  LET escaped == ~s.escaped /\ data[i + 1] = escape
      t == [s EXCEPT !.skipOneChar = FALSE, !.escaped = escaped]
      part == Sub(data, s.blockStart, s.blockEnd - 1 - s.blockStart)
  IN IF ~escaped THEN t
     ELSE [t EXCEPT !.blockStart = s.blockEnd,
                    !.section = IF s.readMode = "SECTION" THEN @ \o part ELSE @,
                    !.param = IF s.readMode = "PARAM" THEN @ \o part ELSE @,
                    !.value = IF s.readMode = "VALUE" THEN @ \o part ELSE @]

Config_parse(data) ==
  Over(data, LAMBDA s, i : Escape(data, Grow(data, ReadChar(data, s, i), i), i),
       [readMode |-> "UNDEF", blockStart |-> -1, blockEnd |-> -1, endMark |-> "", escaped |-> FALSE,
        skipOneChar |-> FALSE, inQuote |-> FALSE, section |-> <<>>, param |-> <<>>, value |-> <<>>,
        entries |-> <<>>]).entries

-----------------------------------------------------------------------------
(* Paths.                                                                   *)

separator == "."

pathFromString(string) ==
  LET step(s, i) ==
        LET chr == string[i + 1]
            lastChar == i + 1 = Len(string)
            isSeparator == ~s.escaped /\ chr = separator
            end == IF lastChar /\ ~isSeparator THEN i + 1 ELSE i
            part == Append(s.result, s.buff \o Sub(string, s.begin, end - s.begin))
        IN CASE chr = escape /\ ~s.escaped ->
                  [s EXCEPT !.escaped = TRUE, !.buff = @ \o Sub(string, s.begin, i - s.begin), !.begin = i + 1]
             [] (chr = escape => s.escaped) /\ (isSeparator \/ lastChar) ->
                  [escaped |-> FALSE, buff |-> <<>>, begin |-> end + 1,
                   result |-> IF lastChar /\ isSeparator THEN Append(part, <<>>) ELSE part]
             [] OTHER -> [s EXCEPT !.escaped = FALSE]
  IN Over(string, step, [escaped |-> FALSE, buff |-> <<>>, begin |-> 0, result |-> <<>>]).result

-----------------------------------------------------------------------------
(* Template.                                                                *)

\* The switch on readMode: text is copied up to a variable or the end, a variable is saved at
\* the length of the text before it.
Template_read(request, s, i) ==
  LET chr == request[i + 1]
      lastChr == i + 1 = Len(request)
      text == Sub(request, s.blockStart, s.blockEnd - s.blockStart + (IF lastChr THEN 2 ELSE 1))
      buff == IF i = 0 THEN s.buff ELSE s.buff \o text
      name == Sub(request, s.blockStart, s.blockEnd - s.blockStart + 1)
  IN CASE s.readMode = "DATA" /\ ((chr = "$" /\ ~s.escaped) \/ lastChr) ->
            [s EXCEPT !.readMode = "VAR", !.buff = buff, !.blockStart = s.blockEnd, !.varBegin = Len(buff)]
       [] s.readMode = "VAR" /\ chr = "(" -> [s EXCEPT !.blockStart = i + 1]
       [] s.readMode = "VAR" /\ chr # "(" /\ (chr = ")" \/ lastChr) ->
            [s EXCEPT !.readMode = "DATA", !.blockStart = i + 1,
                      !.location = [p \in DOMAIN @ \cup {s.varBegin} |-> IF p = s.varBegin THEN name ELSE @[p]]]
       [] OTHER -> s

\* The end of the loop's body.
Template_escape(request, s, i) ==
  LET escaped == ~s.escaped /\ request[i + 1] = escape
      t == [s EXCEPT !.escaped = escaped, !.blockEnd = i]
  IN IF ~(escaped /\ s.readMode = "DATA") THEN t
     ELSE [t EXCEPT !.buff = @ \o Sub(request, s.blockStart, s.blockEnd - s.blockStart + 1),
                    !.blockStart = i + 1]

\* _request and _location
Template_parse(request) ==
  Over(request, LAMBDA s, i : Template_escape(request, Template_read(request, s, i), i),
       [readMode |-> "DATA", escaped |-> FALSE, blockStart |-> 0, blockEnd |-> 0, varBegin |-> 0,
        buff |-> <<>>, location |-> <<>>])

\* The values go in from left to right, each shifted by those before it; a variable without a
\* value leaves nothing.
Template_evaluate(tmpl, data) ==
  LET insert(s, p) ==
        LET var == tmpl.location[p]
            at == p + s.offset
        IN IF var \notin DOMAIN data THEN s
           ELSE [result |-> SubSeq(s.result, 1, at) \o data[var] \o SubSeq(s.result, at + 1, Len(s.result)),
                 offset |-> s.offset + Len(data[var])]
  IN FoldLeft(insert, [result |-> tmpl.buff, offset |-> 0],
              SetToSortSeq(DOMAIN tmpl.location, <)).result

=============================================================================
