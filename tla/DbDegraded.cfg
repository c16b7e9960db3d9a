SPECIFICATION Spec
CONSTANTS
  p1 = p1
  p2 = p2
  p3 = p3
  w1 = w1
  w2 = w2
  Main = Main
  NULL = NULL
  Pays = {p1, p2, p3}
  Workers = {w1, w2}
  SelectLimit = 2
  Attempts = 2
  Endless = FALSE
  Results = {"final", "nothing"}
  QueryErrors = TRUE
  HeapReuse = TRUE
  Commands = {"STOP", "RUN", "REBOOT"}
  MaxLosses = 1
  MaxReboots = 1
SYMMETRY Symmetry
INVARIANT CashServed
 
CHECK_DEADLOCK FALSE
