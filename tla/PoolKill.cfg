SPECIFICATION Spec
CONSTANTS
  w1 = w1
  w2 = w2
  w3 = w3
  p1 = p1
  p2 = p2
  p3 = p3
  sys = sys
  val = val
  op = op
  Workers = {w1, w2, w3}
  Pays = {p1, p2, p3}
  ChecksOnly = {p1}
  PaySystems = {sys, val}
  Operators = {op}
  PaySysOf <- OneModule
  OperOf <- OneOperator
  Validator = val
  ValidatorOff = {}
  Strict = {p2}
  NULL = NULL
  Main = Main
  Ctl = Ctl
  ThreadMin = 2
  ThreadMax = 2
  InactivityTime = 1
  LifetimeCap = 2
  Readers = 2
  ManagerPeriod = 2
  Commands = {"KILL", "SHUTDOWN"}
  ThreadsCanFail = FALSE
  MaxReboots = 0
SYMMETRY Symmetry
INVARIANT BusyCounted
 
INVARIANT PayHasOneOwner
 
INVARIANT PoolBounded
