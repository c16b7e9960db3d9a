SPECIFICATION FairSpec
CONSTANTS
  t1 = t1
  t2 = t2
  t3 = t3
  Threads = {t1, t2, t3}
  NULL = NULL
  PARALLEL_READERS = 3
INVARIANT WriterAlone
INVARIANT SemInv
PROPERTY ImplementsReadersWriter
PROPERTY EveryCallReturns
