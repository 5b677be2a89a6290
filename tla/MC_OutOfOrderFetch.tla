-------------------------- MODULE MC_OutOfOrderFetch --------------------------
(* Three blocks on two pages, one of them crossing from the first to the   *)
(* second, for one or two hardware threads.                                *)
EXTENDS OutOfOrderFetch, TLC

ThreeBlocks == {"a", "ab", "b"}
TwoPages == {0, 1}
LoPage == [x \in ThreeBlocks |-> IF x = "b" THEN 1 ELSE 0]
HiPage == [x \in ThreeBlocks |-> IF x = "a" THEN 0 ELSE 1]

(* The two blocks of a crossing and a following page. *)
TwoBlocks == {"ab", "b"}
LoOfTwo == [x \in TwoBlocks |-> IF x = "b" THEN 1 ELSE 0]
HiOfTwo == [x \in TwoBlocks |-> 1]

(* Hardware threads are interchangeable. *)
ThreadSymmetry == Permutations(Threads)
=============================================================================
