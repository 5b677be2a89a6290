\* A userspace build: one hardware thread.
CONSTANTS
  Blocks <- ThreeBlocks
  Pages <- TwoPages
  Lo <- LoPage
  Hi <- HiPage
  Threads = {t1}
  Depth = 2
SPECIFICATION Spec
CHECK_DEADLOCK FALSE
INVARIANTS TypeOK ListsMatchCache NoStaleCommit FlushedEmpty CutByOwnStoreOnly
