SPECIFICATION FairSpec
CONSTANTS
  t1 = t1
  t2 = t2
  f1 = f1
  s = s
  fe = fe
  fl = fl
  se = se
  Threads = {t1, t2}
  Main = t1
  Runs <- RunsBoth
  Functions = {f1, s}
  Constructors = {f1}
  Trampolines = {fe, fl, se}
  Owner <- OwnerOf
  Entry <- EntryOf
  Threshold = 1
  CounterMod = 4
  MaxPast <- PastOf
  MaxDepth <- DepthOf
  MaxRuns = 2
  MaxLeft = 1
  MaxKills = 1
INVARIANTS TypeOK CopiesForward OneCopyPerReport CallsRunPowered ProfileOfThisRun
PROPERTIES HotGetsPowered
CHECK_DEADLOCK FALSE
