----------------------------- MODULE CursorList -----------------------------
(***************************************************************************)
(* What the users of CUlist rely on: a sequence of values with a cursor,   *)
(* which owns the values and may change while the cursor walks it.         *)
(***************************************************************************)
EXTENDS Integers, Sequences, SequencesExt

CONSTANTS Values, NULL

VARIABLES
  items,    \* sequence of values; NULL after ClearToNull
  cursor,   \* how many items are behind the cursor, UNSET before the first ResetCursor
  ended,    \* GetNext has come to the end, where the cursor stays
  deleted,  \* values the list has deleted
  returned  \* what the last GetNext or GetById returned

vars == <<items, cursor, ended, deleted, returned>>

UNSET == -1

Init == items = <<>> /\ cursor = UNSET /\ ended = FALSE /\ deleted = {} /\ returned = NULL

Add(e) ==
  /\ items' = Append(items, e)
  /\ cursor' = IF ended THEN cursor + 1 ELSE cursor
  /\ UNCHANGED <<ended, deleted, returned>>

\* The cursor steps back when the item it is at, or one behind it, goes.
TakeOut(i) ==
  /\ items' = RemoveAt(items, i)
  /\ deleted' = deleted \cup ({items[i]} \ {NULL})
  /\ cursor' = IF i <= cursor THEN cursor - 1 ELSE cursor
  /\ UNCHANGED <<ended, returned>>

RemoveItem(id) == id + 1 \in 1..Len(items) /\ TakeOut(id + 1)

\* Nothing is removed before the first GetNext and at the end.
RemoveThis == cursor \in 1..Len(items) /\ ~ended /\ TakeOut(cursor)

GetNext ==
  /\ cursor # UNSET
  /\ ended' = (ended \/ cursor = Len(items))
  /\ cursor' = IF cursor < Len(items) THEN cursor + 1 ELSE cursor
  /\ returned' = IF ended' THEN NULL ELSE items[cursor']
  /\ UNCHANGED <<items, deleted>>

GetById(id) ==
  /\ returned' = IF id + 1 \in 1..Len(items) THEN items[id + 1] ELSE NULL
  /\ UNCHANGED <<items, cursor, ended, deleted>>

ResetCursor == cursor' = 0 /\ ended' = FALSE /\ UNCHANGED <<items, deleted, returned>>

ClearToNull ==
  /\ items' = [i \in 1..Len(items) |-> NULL]
  /\ UNCHANGED <<cursor, ended, deleted, returned>>

Delete ==
  /\ items' = <<>>
  /\ deleted' = deleted \cup (Range(items) \ {NULL})
  /\ cursor' = UNSET /\ ended' = FALSE
  /\ UNCHANGED returned

Next ==
  \/ \E e \in Values : Add(e)
  \/ \E id \in 0..(Len(items) - 1) : RemoveItem(id)
  \/ \E id \in 0..Len(items) : GetById(id)
  \/ RemoveThis \/ GetNext \/ ResetCursor \/ ClearToNull \/ Delete

Spec == Init /\ [][Next]_vars

=============================================================================
