SPECIFICATION Spec
SYMMETRY Symmetric
CONSTANTS
  s1 = s1  s2 = s2  s3 = s3  g1 = g1  g2 = g2  g3 = g3  w1 = w1  w2 = w2
  Slots = {s1, s2, s3}
  Names <- MCNames
  NullSo = "null"
  LimitSo = "limit"
  ValidatorSo = "validator"
  Exports <- MCExports
  Dirs <- MCDirs
  NULL = NULL
  Workers = {w1, w2}
  Pays = {"cash", "check", "lost", "stray"}
  Ids = {1}
  OpConf <- MCOpConf
  Lists = {g1, g2, g3}
  OperOf <- MCOperOf
  EngineOf <- MCEngineOf
  Tests = {"check"}
  Rules <- MCRules
  Engines <- MCEngines
  Limits <- MCLimits
  RestMin <- MCRestMin
  Rests = {0, 5}
  Loadable = {"beeline", "limit"}
  Unloadable = {"beeline"}
  RulesFile = {TRUE}
  EnginesFile = {TRUE, FALSE}
  Connection = {TRUE}
  LimitCap = 1
INVARIANTS InUseAlive  UnitsReturned
CHECK_DEADLOCK FALSE
