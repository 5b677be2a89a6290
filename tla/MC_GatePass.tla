----------------------------- MODULE MC_GatePass -----------------------------
(* All functions of four blocks, and some larger ones with loops in         *)
(* sequence, nested and with cold paths, for the power pass.                *)
EXTENDS GatePass

B4 == 1..4
B6 == 1..6
Own == <<"u1", "u2", "u3", "u4", "u5", "u6">>
AllUnits == {"branch"} \cup Range(Own)

(* Each block uses a unit of its own, so that a mask shows which blocks it  *)
(* covers.  A block ends in a branch ("plain"), is one alone ("bare"), or   *)
(* falls through behind an operation ("fall") or behind a call ("call").    *)
Call == [kind |-> "call", units |-> {"branch"}]
Code(b, shape) ==
  CASE shape = "plain" -> <<Op({Own[b]}), Op({"branch"})>>
    [] shape = "bare"  -> <<Op({"branch"})>>
    [] shape = "fall"  -> <<Op({Own[b]})>>
    [] shape = "call"  -> <<Op({Own[b]}), Call>>
Shapes == {"bare", "fall", "call"}

(* The functions of one flow graph s in which the blocks of odd have the    *)
(* given shape; only a block with one successor can fall through.  Blocks   *)
(* 5 and 4 may come from one BasicBlock.                                    *)
FallsThrough(s, odd) == \A b \in odd : Cardinality(s[b]) = 1
Shaped(s, odds, shapes, shared) ==
  {[succ |-> s, code |-> [b \in B6 |-> Code(b, IF b \in c[1] THEN c[2] ELSE "plain")],
    bb |-> [b \in B6 |-> IF c[3] /\ b = 5 THEN 4 ELSE b]] :
     c \in {d \in odds \X shapes \X shared : d[2] = "bare" \/ FallsThrough(s, d[1])}}

(* A graph of four blocks leaves two unreachable. *)
FromFour(s) == [b \in B6 |-> IF b \in B4 THEN s[b] ELSE {}]
Graphs4 ==
  {s \in [B4 -> {x \in SUBSET (2..4) : Cardinality(x) <= 2}] :
     B4 \subseteq Live(FromFour(s))}

Graphs6 == {
  \* two self loops in sequence, the exit of one the preheader of the next
  <<{2}, {2, 3}, {4}, {4, 5}, {6}, {}>>,
  \* a loop with a cold path in it, nested in an outer loop
  <<{2}, {3}, {4, 5}, {3, 6}, {4}, {2}>>,
  \* a loop of two paths whose exits differ
  <<{2}, {3, 4}, {5, 6}, {5, 6}, {2}, {}>>,
  \* an outer loop around two inner loops sharing a block between them
  <<{2}, {2, 3}, {4}, {4, 5}, {6, 3}, {}>>,
  \* a loop with an early exit into the preheader of the next loop
  <<{2}, {3, 4}, {2, 4}, {5}, {5, 6}, {}>>,
  \* no loop: nested branches that join
  <<{2, 3}, {4, 5}, {5}, {6}, {6}, {}>>,
  \* irreducible: a cycle with two entries and no header
  <<{2, 3}, {3, 4}, {2, 5}, {6}, {6}, {}>>}

Single(S) == {{b} : b \in S}
Pairs(S) == {{b, c} : b \in S, c \in S}

AllFunctions ==
  (UNION {Shaped(FromFour(s), {{}} \cup Single(B4), Shapes, {FALSE}) : s \in Graphs4})
  \cup (UNION {Shaped(s, {{}} \cup Pairs(B6), {"bare"}, BOOLEAN) : s \in Graphs6})
  \cup (UNION {Shaped(s, Single(B6), {"fall", "call"}, {FALSE}) : s \in Graphs6})

(* A loop between two blocks, the first of which falls through to it. *)
LoopGraph == [b \in B6 |-> CASE b = 1 -> {2} [] b = 2 -> {2, 3} [] b = 3 -> {4} [] OTHER -> {}]
FallThrough == Shaped(LoopGraph, {{1}}, {"fall"}, {FALSE})
Calls == Shaped(LoopGraph, {{3}}, {"call"}, {FALSE})

(* The masks gated callers and callees leave. *)
GatedOthers == {{"branch"}}
=============================================================================
