SPECIFICATION Spec
CONSTANTS
  t1 = t1
  t2 = t2
  a = a
  b = b
  None = None
  Threads = {t1, t2}
  Chunks = {a, b}
  Bytes = {1, 2}
  Programs <- MC_Cmpxchg8b
  Ways = 2
  MaxFlushes = 0
INVARIANTS NoDoubleLocking
CHECK_DEADLOCK FALSE
