----------------------------- MODULE IgnoreLists ----------------------------
(***************************************************************************)
(* The lists of operators and engines whose payments the select leaves out *)
(* (db.cpp), and the commands that edit them (ctl.cpp).  A list is the     *)
(* sequence of its ids, an id its decimal text, the condition a sequence   *)
(* of tokens.                                                              *)
(***************************************************************************)
EXTENDS Integers, Sequences, SequencesExt

NoLists == [operators |-> <<>>, engines |-> <<>>]   \* DBInit

\* A walk of a CUlist that removes what it meets.  The bound is asked for again on each
\* round: with every removal the walk ends one element earlier.
Walk(list, Removes(_)) ==
  LET step(w, i) ==
        CASE i >= Len(w.list) -> w
          [] i < Len(w.list) /\ Removes(w.list[w.cursor + 1]) -> [w EXCEPT !.list = RemoveAt(@, w.cursor + 1)]
          [] OTHER -> [w EXCEPT !.cursor = @ + 1]
  IN FoldLeft(step, [list |-> list, cursor |-> 0], [i \in 1..Len(list) |-> i - 1]).list

AddToIgnoreList(id, list) == Append(list, id)
RemoveFromIgnoreList(id, list) == Walk(list, LAMBDA t : t = id)
ClearIgnoreList(list) == Walk(list, LAMBDA t : TRUE)

\* A number and the ids, four bytes each; Refused when fewer than four bytes stay free.
Refused == -1
GetIgnoreList(list, buff_size) ==
  IF buff_size <= 4 \/ (list # <<>> /\ 4 * (1 + Len(list)) > buff_size - 4) THEN Refused
  ELSE [len |-> Len(list), ids |-> list]

\* "and p.provider_id not in(1,2) and p.pay_engine not in(3) "
CompileAdditionalSelectCase(lists) ==
  LET case(column, list) ==
        IF list = <<>> THEN <<>>
        ELSE <<"and", column, "not in(">>
               \o FlattenSeq([i \in 1..Len(list) |-> <<list[i], IF i < Len(list) THEN "," ELSE ")">>])
  IN case("provider_id", lists.operators) \o case("pay_engine", lists.engines)

\* ExecCmd, for a client that may control the daemon.
ExecIgnoreCmd(lists, c) ==
  CASE c.cmd = "ADD_IGNORE_OP" -> [lists EXCEPT !.operators = AddToIgnoreList(c.id, @)]
    [] c.cmd = "ADD_IGNORE_EG" -> [lists EXCEPT !.engines = AddToIgnoreList(c.id, @)]
    [] c.cmd = "REMOVE_IGNORE_OP" -> [lists EXCEPT !.operators = RemoveFromIgnoreList(c.id, @)]
    [] c.cmd = "REMOVE_IGNORE_EG" -> [lists EXCEPT !.engines = RemoveFromIgnoreList(c.id, @)]
    [] c.cmd = "CLEAR_IGNORE_OP" -> [lists EXCEPT !.operators = ClearIgnoreList(@)]
    [] c.cmd = "CLEAR_IGNORE_EG" -> [lists EXCEPT !.engines = ClearIgnoreList(@)]
    [] OTHER -> [operators |-> ClearIgnoreList(lists.operators), engines |-> ClearIgnoreList(lists.engines)]

=============================================================================
