SPECIFICATION MCSpec
CONSTANTS
  e1 = e1  e2 = e2  e3 = e3
  Values = {e1, e2, e3}
  MaxItems = 3
  NULL = NULL
INVARIANTS CodecsInvert 
PROPERTY UlistIsCursorList
CHECK_DEADLOCK FALSE
