---------------------------- MODULE MCFrontEnds -----------------------------
(* Two binary clients and two XML connections that ask about the same bills. *)
EXTENDS FrontEnds, TLC

CONSTANTS c1, c2, x1, x2, w1, w2

MCUsers == [l \in {"teller", "viewer"} |->
  [v \in 1..4 |-> IF <<l, v>> \in {<<"teller", 2>>, <<"viewer", 1>>} THEN "right" ELSE NULL]]
MCMessages ==
  {[type |-> "check", key |-> k] : k \in Keys \ {NoId}} \cup
  {[type |-> "auth", login |-> "teller", password |-> p] : p \in {"right", "wrong"}} \cup
  {[type |-> "other"]}
MCXRequests == {[type |-> "check", key |-> k] : k \in Keys \ {NoId}} \cup
               {[type |-> "method"], [type |-> "status"], [type |-> "eof"]}
Symmetric == Permutations({c1, c2}) \cup Permutations({x1, x2}) \cup Permutations({w1, w2})
=============================================================================
