SPECIFICATION FairSpec
CONSTANTS
  p1 = p1
  p2 = p2
  p3 = p3
  w1 = w1
  w2 = w2
  Main = Main
  NULL = NULL
  Pays = {p1, p2}
  Workers = {w1, w2}
  SelectLimit = 2
  Attempts = 2
  Endless = FALSE
  Results = {"final", "sleep", "nothing"}
  QueryErrors = FALSE
  HeapReuse = FALSE
  Commands = {"RELOAD"}
  MaxLosses = 0
  MaxReboots = 0
PROPERTY EveryRowServed
 
