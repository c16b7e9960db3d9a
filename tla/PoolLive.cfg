SPECIFICATION FairSpec
CONSTANTS
  w1 = w1
  w2 = w2
  w3 = w3
  p1 = p1
  p2 = p2
  p3 = p3
  sys = sys
  val = val
  op = op
  Workers = {w1, w2}
  Pays = {p1, p2}
  ChecksOnly = {p1}
  PaySystems = {sys, val}
  Operators = {op}
  PaySysOf <- OneModule
  OperOf <- OneOperator
  Validator = val
  ValidatorOff = {p2}
  Strict = {}
  NULL = NULL
  Main = Main
  Ctl = Ctl
  ThreadMin = 1
  ThreadMax = 2
  InactivityTime = 0
  LifetimeCap = 1
  Readers = 2
  ManagerPeriod = 2
  Commands = {"RELOAD_SO", "SHUTDOWN"}
  ThreadsCanFail = FALSE
  MaxReboots = 0
PROPERTY EveryPaySettled
PROPERTY LockReleased
PROPERTY SurplusRetired
PROPERTY ShutdownEnds
