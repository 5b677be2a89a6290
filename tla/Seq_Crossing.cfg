\* The sequential core over three blocks on two pages.
CONSTANTS
  Blocks <- ThreeBlocks
  Pages <- TwoPages
  Lo <- LoPage
  Hi <- HiPage
SPECIFICATION SeqSpec
CHECK_DEADLOCK FALSE
INVARIANTS NoStaleExecution
