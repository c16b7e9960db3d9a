SPECIFICATION Spec
CONSTANTS
  p1 = p1  p2 = p2
  Payments = {p1, p2}
  Scheme <- WmScheme
  MainConfig <- WmMainConfig
  HookConfig <- WmHookConfig
  UserHooks = {"wm_signature"}
  Codes <- WmCodes
  PayData <- MCPayData
  Answers <- MCAnswers
  Faults = 1
  NULL = NULL
INVARIANTS CompletedPaid OneSession PayRecorded
 
