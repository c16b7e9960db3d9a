-------------------------------- MODULE Ulist -------------------------------
(***************************************************************************)
(* CUlist (ulist.h, uelement.h), the doubly linked list with a cursor in   *)
(* which the daemon keeps its threads, payments, modules and sockets.      *)
(* Elements are addresses; zero and last are the two that hold no value.   *)
(***************************************************************************)
EXTENDS Integers, Sequences, FiniteSets, SequencesExt

CONSTANTS
  Values,
  MaxItems,   \* bound: items in the list
  NULL

ASSUME UlistConstants == MaxItems \in Nat \ {0} /\ NULL \notin Values

zero == 0
last == MaxItems + 1
Addresses == zero..last

VARIABLES
  next, prev, value,  \* the fields of the elements
  cursor,             \* an address, NULL, or -1: the constructor leaves it unset
  len,
  deleted,            \* values deleted with their element
  returned,           \* what the last GetNext or GetById returned
  exists              \* the list has not been deleted

vars == <<next, prev, value, cursor, len, deleted, returned, exists>>
links == <<next, prev, value>>

Init ==
  /\ next = [a \in Addresses |-> IF a = zero THEN last ELSE NULL]
  /\ prev = [a \in Addresses |-> IF a = last THEN zero ELSE NULL]
  /\ value = [a \in Addresses |-> NULL]
  /\ cursor = -1 /\ len = 0 /\ deleted = {} /\ returned = NULL /\ exists = TRUE

\* t, t->next and so on, i steps from a.
RECURSIVE After(_, _)
After(a, i) == IF i = 0 \/ a = NULL THEN a ELSE After(next[a], i - 1)

\* The elements from a on, as their next fields link them.
RECURSIVE Chain(_)
Chain(a) == IF a = NULL THEN <<>> ELSE <<a>> \o Chain(next[a])

\* new CElement(e) takes memory that no element of the list has.
AddItem(e) ==
  \E t \in 1..MaxItems :
    /\ t \notin Range(Chain(zero)) /\ e \notin deleted /\ e \notin {value[a] : a \in Addresses}
    /\ next' = [next EXCEPT ![prev[last]] = t, ![t] = last]
    /\ prev' = [prev EXCEPT ![t] = prev[last], ![last] = t]
    /\ value' = [value EXCEPT ![t] = e]
    /\ len' = len + 1
    /\ UNCHANGED <<cursor, deleted, returned, exists>>

\* ~CElement
Free(t) ==
  /\ value' = [value EXCEPT ![t] = NULL]
  /\ deleted' = deleted \cup ({value[t]} \ {NULL})

\* Both removals link the neighbours of t and free it.
Unlink(t) ==
  /\ next' = [next EXCEPT ![prev[t]] = next[t], ![t] = NULL]
  /\ prev' = [prev EXCEPT ![next[t]] = prev[t], ![t] = NULL]
  /\ Free(t)
  /\ len' = len - 1
  /\ UNCHANGED <<returned, exists>>

RemoveItem(id) ==
  /\ id \in 0..(len - 1)
  /\ Unlink(After(next[zero], id))
  /\ cursor' = IF cursor = After(next[zero], id) THEN prev[cursor] ELSE cursor

\* Variant of RemoveThis: the cursor goes on to the next element.
RemoveThisForward ==
  /\ cursor \in Addresses /\ prev[cursor] # NULL /\ next[cursor] # NULL
  /\ Unlink(cursor)
  /\ cursor' = next[cursor]

\* zero and last are not removed.
RemoveThis ==
  /\ cursor \in Addresses /\ prev[cursor] # NULL /\ next[cursor] # NULL
  /\ Unlink(cursor)
  /\ cursor' = prev[cursor]

\* The callers reset the cursor before they walk.
GetNext ==
  /\ cursor # -1
  /\ cursor' = IF next[cursor] # NULL THEN next[cursor] ELSE cursor
  /\ returned' = value[cursor']
  /\ UNCHANGED <<links, len, deleted, exists>>

GetById(id) ==
  /\ returned' = IF id < len THEN value[After(next[zero], id)] ELSE NULL
  /\ UNCHANGED <<links, cursor, len, deleted, exists>>

ResetCursor == cursor' = zero /\ UNCHANGED <<links, len, deleted, returned, exists>>

ClearToNull ==
  /\ value' = [a \in Addresses |-> IF \E i \in 0..(len - 1) : a = After(next[zero], i) THEN NULL ELSE value[a]]
  /\ UNCHANGED <<next, prev, cursor, len, deleted, returned, exists>>

\* ~CUlist walks next and deletes the elements one by one; nothing is called afterwards.
Delete ==
  /\ deleted' = deleted \cup ({value[a] : a \in Range(Chain(zero))} \ {NULL})
  /\ cursor' = NULL
  /\ exists' = FALSE
  /\ UNCHANGED <<links, len, returned>>

Next ==
  exists /\ \/ \E e \in Values : AddItem(e)
            \/ \E id \in 0..len : RemoveItem(id) \/ GetById(id)
            \/ RemoveThis \/ GetNext \/ ResetCursor \/ ClearToNull \/ Delete

Spec == Init /\ [][Next]_vars

-----------------------------------------------------------------------------
(* The list is a sequence of values with a cursor.                          *)

Elements == IF exists THEN SelectSeq(Chain(next[zero]), LAMBDA a : a # last) ELSE <<>>

List == INSTANCE CursorList WITH
  items <- [i \in 1..Len(Elements) |-> value[Elements[i]]],
  cursor <- CASE cursor \in {-1, NULL} -> -1
              [] cursor = zero -> 0
              [] cursor = last -> Len(Elements)
              [] OTHER -> SelectInSeq(Elements, LAMBDA a : a = cursor),
  ended <- cursor = last

\* CUlist is the sequence with a cursor that its users take it for: an element removed behind,
\* at or before the cursor, by whichever of the two removals, or added while the cursor stands
\* at the end, makes a walk miss nothing and meet nothing twice, and every value is deleted
\* exactly when it leaves the list.
UlistIsCursorList == List!Spec

=============================================================================
