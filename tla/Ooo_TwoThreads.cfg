\* Two hardware threads sharing the cache.
CONSTANTS
  Blocks <- TwoBlocks
  Pages <- TwoPages
  Lo <- LoOfTwo
  Hi <- HiOfTwo
  Threads = {t1, t2}
  Depth = 1
SPECIFICATION Spec
SYMMETRY ThreadSymmetry
CHECK_DEADLOCK FALSE
INVARIANTS ReferencesExact LockedListsExist
