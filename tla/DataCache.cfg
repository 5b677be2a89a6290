CONSTANTS
  t1 = t1
  t2 = t2
  la = la
  lb = lb
  lp = lp
  Threads = {t1, t2}
  Rob = {0, 1}
  Slots = {0, 1}
  Buffers = {0, 1}
  Lines = {la, lb, lp}
  LinesOf <- LinesOfThreads
  Prefetched = {lp}
  Depth = 2
  Latency <- TwoLevels
  MaxWakeups = 1
  Prefetcher = Prefetcher
  None = None
SPECIFICATION FairSpec
INVARIANTS TypeOK NoStaleWakeup WaitersLinked
PROPERTIES LoadsWake FetchResumes
