---------------------------- MODULE MCOperators -----------------------------
(* Two workers, an engine with a limit and a rest, one for online checks.   *)
EXTENDS Operators

CONSTANTS s1, s2, s3, g1, g2, g3, w1, w2

All == {"SendData", "CleanUp", "PayInit", "Load", "UnLoad"}
MCNames == {"null", "limit", "validator", "beeline"}
MCExports == [n \in MCNames |-> IF n = "limit" THEN All \ {"PayInit"} ELSE All \cup {"PayCheckSupport"}]
MCDirs == {<<"null", "beeline", "limit">>}
Symmetric == Permutations({s1, s2, s3}) \cup Permutations({g1, g2, g3}) \cup Permutations({w1, w2})
MCOpConf == [id \in {1} |->
  [checktype |-> "so_only", checksys |-> "bee", paysys |-> NULL, engines |-> <<"other", "bee">>]]
MCOperOf == [p \in {"cash", "check", "lost", "stray"} |-> IF p = "lost" THEN 9 ELSE 1]
MCEngineOf == [p \in {"cash", "check", "lost", "stray"} |-> IF p = "stray" THEN 7 ELSE 5]
MCRules == [c \in {"bee"} |-> "beeline"]
MCEngines == [c \in {"bee", "other"} |-> IF c = "bee" THEN 5 ELSE 6]
MCLimits == [c \in {"bee"} |-> 1]
MCRestMin == [c \in {"bee"} |-> 0]
=============================================================================
