SPECIFICATION Spec
CONSTANTS
  p1 = p1
  p2 = p2
  p3 = p3
  w1 = w1
  w2 = w2
  Main = Main
  NULL = NULL
  Pays = {p1, p2}
  Workers = {w1, w2}
  SelectLimit = 2
  Attempts = 2
  Endless = TRUE
  Results = {"final", "sleep", "nothing"}
  QueryErrors = FALSE
  HeapReuse = FALSE
  Commands = {"STOP", "RUN", "REBOOT", "RELOAD"}
  MaxLosses = 2
  MaxReboots = 1
SYMMETRY Symmetry
 
INVARIANT OneWorkerPerPay
PROPERTY ResultStored
CHECK_DEADLOCK FALSE
