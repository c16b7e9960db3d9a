----------------------------- MODULE ConfigText -----------------------------
(***************************************************************************)
(* The configuration files of the daemon: CConfig (parser.cpp) and its     *)
(* copy paycheck::CConfig (xmlpaycheck/cconfig.cc).  A text is a sequence  *)
(* of characters, a pointer its offset from the buffer, from 0.            *)
(***************************************************************************)
EXTENDS Integers, Sequences, SequencesExt

NL == "\n"
NoSection == <<>>         \* section == NULL
Missing == <<"NULL">>     \* what GetValue returns for a parameter that is not there

CConfigElement(section, param, value) == [section |-> section, param |-> param, value |-> value]

\* strncpy() from a pointer into the buffer
Text(buffer, start, size) == SubSeq(buffer, start + 1, start + size)

\* Line breaks before a section's or a parameter's name are passed over.
Name(text) ==
  LET i == SelectInSeq(text, LAMBDA c : c # NL) IN IF i = 0 THEN <<>> ELSE SubSeq(text, i, Len(text))

\* The element that a line ends: the section "end" is no section.
Element(buffer, s, ptr) ==
  LET section == Name(Text(buffer, s.sectionstart, s.sectionsize))
  IN CConfigElement(IF section = <<"e", "n", "d">> THEN NoSection ELSE section,
                    Name(Text(buffer, s.paramstart, s.paramsize)),
                    Text(buffer, s.valuestart, ptr - s.valuestart))

\* A line or a section's name ends.  A line break ends the comment before it is looked at.
EndOf(buffer, s, ptr) ==
  LET eof == ptr = Len(buffer)
      t == IF eof THEN s
           ELSE IF buffer[ptr + 1] = "]"
           THEN [s EXCEPT !.sectionsize = ptr - s.sectionstart, !.paramstart = ptr + 2, !.new_line = FALSE]
           ELSE [s EXCEPT !.new_line = TRUE, !.section_mode = FALSE, !.comment_mode = FALSE]
  IN IF ~eof /\ (t.paramsize = 0 \/ t.comment_mode)
     THEN [t EXCEPT !.paramstart = ptr + 1, !.paramsize = 0]
     ELSE [t EXCEPT !.node = IF t.valuestart > t.paramstart THEN Append(@, Element(buffer, t, ptr)) ELSE @,
                    !.paramsize = 0, !.paramstart = ptr + 1, !.valuestart = ptr + 1]

\* Variant of Character: each "=" begins the value anew.
CharacterLastEqual(buffer, s, ptr, once) ==
  LET c == buffer[ptr + 1]
  IN CASE c = "=" -> [s EXCEPT !.paramsize = ptr - s.paramstart, !.valuestart = ptr + 1]
       [] c = "#" /\ s.new_line -> [s EXCEPT !.comment_mode = TRUE]
       [] c = "[" -> [s EXCEPT !.section_mode = TRUE, !.sectionstart = ptr + 1]
       [] OTHER -> s

\* once: CConfig takes the first "=" of a line, paycheck::CConfig every one.
Character(buffer, s, ptr, once) ==
  LET c == buffer[ptr + 1]
  IN CASE c = "=" /\ (once => s.paramsize = 0) ->
            [s EXCEPT !.paramsize = ptr - s.paramstart, !.valuestart = ptr + 1]
       [] c = "#" /\ s.new_line -> [s EXCEPT !.comment_mode = TRUE]
       [] c = "[" -> [s EXCEPT !.section_mode = TRUE, !.sectionstart = ptr + 1]
       [] OTHER -> s

Scan(buffer, once) ==
  LET start == [new_line |-> TRUE, section_mode |-> FALSE, comment_mode |-> FALSE,
                paramstart |-> 0, paramsize |-> 0, valuestart |-> -1,
                sectionstart |-> 0, sectionsize |-> 0, node |-> <<>>]
      step(s, ptr) ==
        IF ptr = Len(buffer) \/ buffer[ptr + 1] = NL \/ (s.section_mode /\ buffer[ptr + 1] = "]")
        THEN EndOf(buffer, s, ptr) ELSE Character(buffer, s, ptr, once)
  IN FoldLeft(step, start, [i \in 1..(Len(buffer) + 1) |-> i - 1]).node

\* CConfig::ReadFile and paycheck::CConfig::ParseText; an empty file is refused.
ReadFile(buffer) == Scan(buffer, TRUE)
ParseText(buffer) == Scan(buffer, FALSE)

\* The first element of that name in that section.
Place(node, param, section) ==
  SelectInSeq(node, LAMBDA e : e.param = param /\ e.section = section)

GetValue(node, param, section) ==
  LET i == Place(node, param, section) IN IF i = 0 THEN Missing ELSE node[i].value

\* -1, and nothing changes, when there is no such element.
SetValue(node, param, section, new_value) ==
  LET i == Place(node, param, section)
  IN IF i = 0 THEN node ELSE [node EXCEPT ![i].value = new_value]

=============================================================================
