SPECIFICATION Spec
CONSTANTS
  w1 = w1
  w2 = w2
  w3 = w3
  p1 = p1
  p2 = p2
  p3 = p3
  sys = sys
  val = val
  op = op
  Workers = {w1, w2}
  Pays = {p1, p2}
  ChecksOnly = {p1}
  PaySystems = {sys, val}
  Operators = {op}
  PaySysOf <- OneModule
  OperOf <- OneOperator
  Validator = val
  ValidatorOff = {p2}
  Strict = {}
  NULL = NULL
  Main = Main
  Ctl = Ctl
  ThreadMin = 1
  ThreadMax = 2
  InactivityTime = 1
  LifetimeCap = 2
  Readers = 1
  ManagerPeriod = 2
  Commands = {"RELOAD_SO", "REBOOT", "SIGTERM", "CANCEL"}
  ThreadsCanFail = TRUE
  MaxReboots = 1
SYMMETRY Symmetry
INVARIANT TypeOK
INVARIANT FreeWorkerReady
 
INVARIANT SendOnce
PROPERTY ManagerKeepsMinimum
