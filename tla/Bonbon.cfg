SPECIFICATION Spec
SYMMETRY Symmetric
CONSTANTS
  t1 = t1  t2 = t2  t3 = t3  lock1 = lock1  m1 = m1  m2 = m2
  Threads = {t1, t2, t3}
  Locks = {lock1, m1, m2}
  Units <- MCUnits
  Programs <- MCPrograms
  NULL = NULL
INVARIANTS DetectsDeadlocks
CHECK_DEADLOCK FALSE
