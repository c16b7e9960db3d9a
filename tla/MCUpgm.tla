------------------------------- MODULE MCUpgm -------------------------------
(* Two payments through the webmoney module.                                *)
EXTENDS Webmoney

CONSTANTS p1, p2

MCPayData == [p \in Payments |-> [id |-> p, summ |-> "ten", data |-> <<"purse">>]]
MCAnswers ==
  [check |-> {[retval |-> "0"]}, payment |-> {[retval |-> "0"], [retval |-> "-15", description |-> "purse"]}]
=============================================================================
