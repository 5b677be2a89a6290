\* Two hardware threads, one rewriting the code of the other.
CONSTANTS
  Blocks <- TwoBlocks
  Pages <- TwoPages
  Lo <- LoOfTwo
  Hi <- HiOfTwo
  Threads = {t1, t2}
  Depth = 1
SPECIFICATION Spec
CHECK_DEADLOCK FALSE
INVARIANTS NoStaleCommit
