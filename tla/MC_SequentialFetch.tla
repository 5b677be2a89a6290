-------------------------- MODULE MC_SequentialFetch --------------------------
(* Three blocks on two pages, one of them crossing from the first to the   *)
(* second.                                                                 *)
EXTENDS SequentialFetch

ThreeBlocks == {"a", "ab", "b"}
TwoPages == {0, 1}
LoPage == [x \in ThreeBlocks |-> IF x = "b" THEN 1 ELSE 0]
HiPage == [x \in ThreeBlocks |-> IF x = "a" THEN 0 ELSE 1]
=============================================================================
