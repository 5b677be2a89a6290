SPECIFICATION FairSpec
CONSTANTS
  t1 = t1
  t2 = t2
  a = a
  b = b
  None = None
  Threads = {t1, t2}
  Chunks = {a, b}
  Bytes = {1, 2}
  Programs <- MC_Programs
  Ways = 1
  MaxFlushes = 1
INVARIANTS TypeOK LocksAccounted NoDoubleLocking FencesHold
PROPERTIES ImplementsInOrderMemory AllCommit
