----------------------------- MODULE GatePass_proofs -----------------------------
(***************************************************************************)
(* For every flow graph and any units: the gates that the power pass puts  *)
(* into a function never starve an instruction.  The first part is about   *)
(* natural loops, the second about the gates in a block's code, the third  *)
(* about the pass, and the last about the run of the code it leaves.       *)
(***************************************************************************)
EXTENDS GatePass, TLAPS, FiniteSetTheorems, WellFoundedInduction, SequenceTheorems

(***************************************************************************)
(* Reachability                                                            *)
(***************************************************************************)

(* A set of numbers that is not empty has a least one. *)
LEMMA LeastNumber ==
  ASSUME NEW N \in SUBSET Nat, N # {}
  PROVE  \E n \in N : \A m \in N : n <= m
<1> DEFINE Less == {ss \in Nat \X Nat : ss[1] < ss[2]}
<1>1. OpToRel(<,Nat) = Less
  BY Zenon DEF OpToRel
<1>2. IsWellFoundedOn(Less, Nat)
  BY <1>1, NatLessThanWellFounded, Zenon
<1> HIDE DEF Less
<1>3. PICK n \in N : \A m \in N : ~ (<<m, n>> \in Less)
  BY <1>2, WFMin, Zenon
<1>4. ASSUME NEW m \in N PROVE n <= m
  <2>1. <<m, n>> \in Less <=> (<<m, n>> \in Nat \X Nat /\ <<m, n>>[1] < <<m, n>>[2])
    BY Zenon DEF Less
  <2>2. ~(m < n)
    BY <1>3, <2>1
  <2> QED
    BY <2>2, SMT
<1> QED
  BY <1>4

(* What holds of 0 and passes from each number to the next holds up to n:  *)
(* the numbers Good has all of 0..n.                                       *)
LEMMA UpTo ==
  ASSUME NEW n \in Nat, NEW Good, 0 \in Good,
         \A k \in 0..n : k + 1 \in 0..n /\ k \in Good => k + 1 \in Good
  PROVE  0..n \subseteq Good
<1> SUFFICES ASSUME (0..n) \ Good # {} PROVE FALSE
  OBVIOUS
<1>0. (0..n) \ Good \in SUBSET Nat
  OBVIOUS
<1>1. PICK k \in (0..n) \ Good : \A m \in (0..n) \ Good : k <= m
  BY <1>0, LeastNumber
<1>2. k # 0 /\ k - 1 \in 0..n /\ (k - 1) + 1 = k
  BY <1>1
<1>3. k - 1 \in Good
  BY <1>1, <1>2
<1> QED
  BY <1>1, <1>2, <1>3

Closed(g, avoid, C) == \A b \in C : g[b] \ avoid \subseteq C
Grown(g, avoid, A) == A \cup ((UNION {g[b] : b \in A}) \ avoid)

(* The first n rounds of the search. *)
Rounds(n, g, S, avoid, step) ==
  step = [k \in 0..n |-> IF k = 0 THEN S \ avoid ELSE Grown(g, avoid, step[k-1])]

LEMMA GrownIs ==
  ASSUME NEW g, NEW avoid, NEW A, NEW b
  PROVE  b \in Grown(g, avoid, A) <=> b \in A \/ \E x \in A : b \in g[x] /\ b \notin avoid
<1>1. b \in UNION {g[x] : x \in A} <=> \E x \in A : b \in g[x]
  OBVIOUS
<1> QED
  BY <1>1 DEF Grown

LEMMA RoundsAre ==
  ASSUME NEW n \in Nat, NEW g, NEW S, NEW avoid, NEW step, Rounds(n, g, S, avoid, step)
  PROVE  /\ step[0] = S \ avoid
         /\ \A k \in 0..n : k + 1 \in 0..n => step[k+1] = Grown(g, avoid, step[k])
<1> DEFINE f == [k \in 0..n |-> IF k = 0 THEN S \ avoid ELSE Grown(g, avoid, step[k-1])]
<1>1. step = f
  BY DEF Rounds
<1>2. f[0] = S \ avoid
  OBVIOUS
<1>3. ASSUME NEW k \in 0..n, k + 1 \in 0..n PROVE f[k+1] = Grown(g, avoid, step[k])
  <2>1. k + 1 # 0 /\ (k + 1) - 1 = k
    OBVIOUS
  <2> QED
    BY <1>3, <2>1
<1> HIDE DEF f
<1> QED
  BY <1>1, <1>2, <1>3

LEMMA RoundsExist ==
  ASSUME NEW n \in Nat, NEW g, NEW S, NEW avoid
  PROVE  \E step : Rounds(n, g, S, avoid, step)
<1> DEFINE Good == {k \in Nat : \E step : Rounds(k, g, S, avoid, step)}
<1>1. 0 \in Good
  <2> DEFINE f == [k \in 0..0 |-> S \ avoid]
  <2>1. f = [k \in 0..0 |-> IF k = 0 THEN S \ avoid ELSE Grown(g, avoid, f[k-1])]
    OBVIOUS
  <2>2. Rounds(0, g, S, avoid, f)
    BY <2>1 DEF Rounds
  <2> QED
    BY <2>2
<1>2. ASSUME NEW k \in 0..n, k \in Good PROVE k + 1 \in Good
  <2>1. PICK step : Rounds(k, g, S, avoid, step)
    BY <1>2
  <2> DEFINE f == [j \in 0..k+1 |-> IF j = k + 1 THEN Grown(g, avoid, step[k]) ELSE step[j]]
  <2>2. \A j \in 0..k : step[j] = IF j = 0 THEN S \ avoid ELSE Grown(g, avoid, step[j-1])
    BY <2>1 DEF Rounds
  <2>3. ASSUME NEW j \in 0..k+1
        PROVE  f[j] = IF j = 0 THEN S \ avoid ELSE Grown(g, avoid, f[j-1])
    <3>1. CASE j = k + 1
      <4>1. j # 0 /\ j - 1 = k /\ k \in 0..k+1 /\ k # k + 1
        BY <3>1
      <4>2. f[k] = step[k] /\ f[j] = Grown(g, avoid, step[k])
        BY <3>1, <4>1
      <4> HIDE DEF f
      <4> QED
        BY <4>1, <4>2
    <3>2. CASE j # k + 1
      <4>1. j \in 0..k /\ f[j] = step[j]
        BY <3>2
      <4>2. j # 0 => j - 1 \in 0..k /\ f[j-1] = step[j-1]
        BY <4>1
      <4> HIDE DEF f
      <4> QED
        BY <2>2, <4>1, <4>2
    <3> QED
      BY <3>1, <3>2
  <2>4. f = [j \in 0..k+1 |-> f[j]]
    OBVIOUS
  <2> HIDE DEF f
  <2>5. f = [j \in 0..k+1 |-> IF j = 0 THEN S \ avoid ELSE Grown(g, avoid, f[j-1])]
    BY <2>3, <2>4
  <2>6. Rounds(k + 1, g, S, avoid, f)
    BY <2>5 DEF Rounds
  <2> QED
    BY <2>6
<1> HIDE DEF Good
<1>3. 0..n \subseteq Good
  BY <1>1, <1>2, UpTo
<1>4. n \in Good
  BY <1>3
<1> QED
  BY <1>4 DEF Good

(* The search as its rounds. *)
LEMMA ReachIs ==
  ASSUME NEW g, NEW S, NEW avoid
  PROVE  /\ Cardinality(Blocks) \in Nat
         /\ \E step : /\ Rounds(Cardinality(Blocks), g, S, avoid, step)
                      /\ Reach(g, S, avoid) = step[Cardinality(Blocks)]
<1> DEFINE N == Cardinality(Blocks)
           step == CHOOSE s : Rounds(N, g, S, avoid, s)
<1>1. Cardinality(Blocks) \in Nat
  BY EntryAssumption, FS_CardinalityType
<1>2. Reach(g, S, avoid) = step[N]
  BY Zenon DEF Reach, Rounds, Grown
<1>3. Rounds(N, g, S, avoid, step)
  BY <1>1, RoundsExist
<1> QED
  BY <1>1, <1>2, <1>3

(* The search stays in any closed set that holds its start ... *)
LEMMA ReachLeast ==
  ASSUME NEW g, NEW S, NEW avoid, NEW C, S \ avoid \subseteq C, Closed(g, avoid, C)
  PROVE  Reach(g, S, avoid) \subseteq C
<1> DEFINE N == Cardinality(Blocks)
<1>1. N \in Nat
  BY ReachIs
<1>2. PICK step : Rounds(N, g, S, avoid, step) /\ Reach(g, S, avoid) = step[N]
  BY ReachIs
<1> HIDE DEF N
<1> DEFINE Good == {k \in 0..N : step[k] \subseteq C}
<1>3. 0 \in Good
  BY <1>1, <1>2, RoundsAre
<1>4. ASSUME NEW k \in 0..N, k + 1 \in 0..N, k \in Good PROVE k + 1 \in Good
  <2>1. step[k+1] = Grown(g, avoid, step[k])
    BY <1>1, <1>2, <1>4, RoundsAre
  <2>2. step[k] \subseteq C
    BY <1>4
  <2>3. Grown(g, avoid, step[k]) \subseteq C
    BY <2>2, GrownIs DEF Closed
  <2> QED
    BY <1>4, <2>1, <2>3
<1>5. 0..N \subseteq Good
  <2> HIDE DEF Good
  <2> QED
    BY <1>1, <1>3, <1>4, UpTo
<1> QED
  BY <1>1, <1>2, <1>5

(* ... and is itself closed: a round that finds nothing new is the last    *)
(* one that does, and there are not more rounds with a find than blocks.   *)
LEMMA ReachFacts ==
  ASSUME NEW g \in [Blocks -> SUBSET Blocks], NEW S \in SUBSET Blocks, NEW avoid
  PROVE  /\ Reach(g, S, avoid) \in SUBSET Blocks
         /\ Reach(g, S, avoid) \cap avoid = {}
         /\ S \ avoid \subseteq Reach(g, S, avoid)
         /\ Closed(g, avoid, Reach(g, S, avoid))
<1> DEFINE N == Cardinality(Blocks)
<1>1. N \in Nat
  BY ReachIs
<1>2. PICK step : Rounds(N, g, S, avoid, step) /\ Reach(g, S, avoid) = step[N]
  BY ReachIs
<1>3. ASSUME NEW A \in SUBSET Blocks, ~Closed(g, avoid, A)
      PROVE  Grown(g, avoid, A) # A
  <2>1. PICK x \in A : \E b \in g[x] : b \notin avoid /\ b \notin A
    BY <1>3 DEF Closed
  <2>2. \E b : b \in Grown(g, avoid, A) /\ b \notin A
    BY <2>1, GrownIs
  <2> QED
    BY <2>1, <2>2
<1>4. ASSUME NEW A \in SUBSET Blocks, Closed(g, avoid, A)
      PROVE  Grown(g, avoid, A) = A
  <2>1. \A b : b \in Grown(g, avoid, A) <=> b \in A
    BY <1>4, GrownIs DEF Closed
  <2> QED
    BY <2>1
<1>n. N \in Nat /\ N = Cardinality(Blocks)
  BY <1>1
<1> HIDE DEF N
<1> DEFINE Good == {k \in 0..N :
                      /\ step[k] \in SUBSET Blocks /\ step[k] \cap avoid = {}
                      /\ S \ avoid \subseteq step[k]
                      /\ Closed(g, avoid, step[k]) \/ Cardinality(step[k]) >= k + 1}
<1>5. 0 \in Good
  <2>1. step[0] = S \ avoid
    BY <1>1, <1>2, RoundsAre
  <2>2. IsFiniteSet(S \ avoid)
    BY EntryAssumption, FS_Subset
  <2>3. S \ avoid = {} => Closed(g, avoid, S \ avoid)
    BY DEF Closed
  <2>4. S \ avoid # {} => Cardinality(S \ avoid) >= 0 + 1
    BY <2>2, FS_CardinalityType, FS_EmptySet
  <2>5. S \ avoid \in SUBSET Blocks /\ (S \ avoid) \cap avoid = {}
    OBVIOUS
  <2>6. 0 \in 0..N
    BY <1>1
  <2>7. Closed(g, avoid, step[0]) \/ Cardinality(step[0]) >= 0 + 1
    BY <2>1, <2>3, <2>4
  <2> QED
    BY <2>1, <2>5, <2>6, <2>7
<1>6. ASSUME NEW k \in 0..N, k + 1 \in 0..N, k \in Good PROVE k + 1 \in Good
  <2>1. step[k+1] = Grown(g, avoid, step[k])
    BY <1>1, <1>2, <1>6, RoundsAre
  <2>2. /\ step[k] \in SUBSET Blocks /\ step[k] \cap avoid = {}
        /\ S \ avoid \subseteq step[k]
        /\ Closed(g, avoid, step[k]) \/ Cardinality(step[k]) >= k + 1
    BY <1>6
  <2>3. /\ step[k+1] \in SUBSET Blocks /\ step[k+1] \cap avoid = {}
        /\ step[k] \subseteq step[k+1]
    <3>1. \A b : b \in step[k+1] <=> b \in step[k] \/ \E x \in step[k] : b \in g[x] /\ b \notin avoid
      BY <2>1, GrownIs
    <3> QED
      BY <2>2, <3>1
  <2>4. CASE Closed(g, avoid, step[k])
    <3>1. step[k+1] = step[k]
      BY <1>4, <2>1, <2>2, <2>4
    <3> QED
      BY <1>6, <2>2, <2>4, <3>1
  <2>5. CASE ~Closed(g, avoid, step[k])
    <3>1. step[k+1] # step[k]
      BY <1>3, <2>1, <2>2, <2>5
    <3>2. IsFiniteSet(step[k+1])
      BY <2>3, EntryAssumption, FS_Subset
    <3>3. Cardinality(step[k]) < Cardinality(step[k+1])
      <4>1. /\ IsFiniteSet(step[k]) /\ Cardinality(step[k]) <= Cardinality(step[k+1])
            /\ Cardinality(step[k+1]) # Cardinality(step[k])
        BY <2>3, <3>1, <3>2, FS_Subset
      <4>2. Cardinality(step[k+1]) \in Nat /\ Cardinality(step[k]) \in Nat
        BY <3>2, <4>1, FS_CardinalityType
      <4> QED
        BY <4>1, <4>2
    <3>4. Cardinality(step[k+1]) \in Nat /\ Cardinality(step[k]) \in Nat
      BY <2>3, <3>2, FS_Subset, FS_CardinalityType
    <3>5. Cardinality(step[k+1]) >= (k + 1) + 1
      BY <2>2, <2>5, <3>3, <3>4
    <3> QED
      BY <1>6, <2>2, <2>3, <3>5
  <2> QED
    BY <2>4, <2>5
<1>7. 0..N \subseteq Good
  <2> HIDE DEF Good
  <2> QED
    BY <1>1, <1>5, <1>6, UpTo
<1>8. N \in Good
  BY <1>1, <1>7
<1>9. Cardinality(step[N]) <= N
  BY <1>8, <1>n, EntryAssumption, FS_Subset
<1>10. Cardinality(step[N]) \in Nat
  BY <1>8, EntryAssumption, FS_Subset, FS_CardinalityType
<1> QED
  BY <1>1, <1>2, <1>8, <1>9, <1>10

(***************************************************************************)
(* Natural loops                                                           *)
(***************************************************************************)

FlowGraphs == [Blocks -> SUBSET Blocks]

LEMMA LiveFacts ==
  ASSUME NEW g \in FlowGraphs
  PROVE  /\ Live(g) \in SUBSET Blocks /\ Entry \in Live(g)
         /\ \A b \in Live(g) : g[b] \subseteq Live(g)
         /\ \A C : Entry \in C /\ (\A b \in C : g[b] \subseteq C) => Live(g) \subseteq C
<1>1. {Entry} \in SUBSET Blocks
  BY EntryAssumption
<1>2. /\ Live(g) \in SUBSET Blocks /\ {Entry} \ {} \subseteq Live(g)
      /\ Closed(g, {}, Live(g))
  BY <1>1, ReachFacts DEF Live, FlowGraphs
<1>3. \A C : Entry \in C /\ Closed(g, {}, C) => Live(g) \subseteq C
  BY ReachLeast DEF Live
<1> QED
  BY <1>2, <1>3 DEF Closed

(* What is reached from a without passing h. *)
LEMMA PastFacts ==
  ASSUME NEW g \in FlowGraphs, NEW a \in Blocks, NEW h
  PROVE  /\ Reach(g, {a}, {h}) \in SUBSET Blocks
         /\ h \notin Reach(g, {a}, {h})
         /\ a # h => a \in Reach(g, {a}, {h})
         /\ \A b \in Reach(g, {a}, {h}) : \A c \in g[b] : c # h => c \in Reach(g, {a}, {h})
         /\ \A b \in Reach(g, {a}, {h}) : Reach(g, {b}, {h}) \subseteq Reach(g, {a}, {h})
         /\ \A C : (a # h => a \in C) /\ (\A b \in C : \A c \in g[b] : c # h => c \in C)
              => Reach(g, {a}, {h}) \subseteq C
<1> DEFINE R == Reach(g, {a}, {h})
<1>0. {a} \in SUBSET Blocks /\ g \in [Blocks -> SUBSET Blocks]
  BY DEF FlowGraphs
<1>1. R \in SUBSET Blocks /\ R \cap {h} = {} /\ {a} \ {h} \subseteq R /\ Closed(g, {h}, R)
  <2> DEFINE S == {a}
             avoid == {h}
  <2>1. S \in SUBSET Blocks
    BY <1>0
  <2> HIDE DEF S, avoid
  <2>2. /\ Reach(g, S, avoid) \in SUBSET Blocks /\ Reach(g, S, avoid) \cap avoid = {}
        /\ S \ avoid \subseteq Reach(g, S, avoid) /\ Closed(g, avoid, Reach(g, S, avoid))
    BY <1>0, <2>1, ReachFacts
  <2> QED
    BY <2>2 DEF S, avoid
<1>2. \A C : {a} \ {h} \subseteq C /\ Closed(g, {h}, C) => R \subseteq C
  BY ReachLeast
<1>3. \A b \in R : Reach(g, {b}, {h}) \subseteq R
  BY <1>1, ReachLeast
<1> HIDE DEF R
<1>4. \A C : {a} \ {h} \subseteq C <=> (a # h => a \in C)
  OBVIOUS
<1>5. \A C : Closed(g, {h}, C) <=> \A b \in C : \A c \in g[b] : c # h => c \in C
  BY DEF Closed
<1> QED
  BY <1>1, <1>2, <1>3, <1>4, <1>5 DEF R

LEMMA LoopTypes ==
  ASSUME NEW g \in FlowGraphs
  PROVE  /\ Headers(g) \subseteq Live(g) /\ Headers(g) \subseteq Blocks
         /\ \A h \in Headers(g) : h \in LoopBlocks(g, h) /\ LoopBlocks(g, h) \subseteq Live(g)
         /\ DOMAIN LoopInfo(g) = Headers(g)
         /\ \A h \in Headers(g) : LoopInfo(g)[h] = LoopBlocks(g, h)
         /\ Innermost(LoopInfo(g)) \subseteq Headers(g)
BY LiveFacts DEF Headers, LoopBlocks, LoopInfo, Innermost

(* The header of a loop dominates the loop. *)
LEMMA HeaderDominates ==
  ASSUME NEW g \in FlowGraphs, NEW h \in Headers(g), NEW b \in LoopBlocks(g, h)
  PROVE  b = h \/ b \notin Reach(g, {Entry}, {h})
<1> SUFFICES ASSUME b # h, b \in Reach(g, {Entry}, {h}) PROVE FALSE
  OBVIOUS
<1>1. PICK t \in Reach(g, {b}, {h}) : t \in Latches(g, h)
  BY DEF LoopBlocks
<1>2. Reach(g, {b}, {h}) \subseteq Reach(g, {Entry}, {h}) /\ h \notin Reach(g, {Entry}, {h})
  BY EntryAssumption, PastFacts
<1> QED
  BY <1>1, <1>2 DEF Latches, Dominates

(* Of two blocks that dominate a third, one dominates the other, ... *)
LEMMA DominatorsOrdered ==
  ASSUME NEW g \in FlowGraphs, NEW h \in Blocks, NEW k \in Blocks, h # k, NEW b \in Live(g),
         Dominates(g, h, b), Dominates(g, k, b)
  PROVE  Dominates(g, h, k) \/ Dominates(g, k, h)
<1> DEFINE H == Reach(g, {Entry}, {h})
           K == Reach(g, {Entry}, {k})
<1> SUFFICES ASSUME k \in H, h \in K PROVE FALSE
  BY DEF Dominates
<1>1. /\ Entry # h => Entry \in H
      /\ \A x \in H : \A y \in g[x] : y # h => y \in H
  BY EntryAssumption, PastFacts
<1>2. /\ Entry # k => Entry \in K
      /\ \A x \in K : \A y \in g[x] : y # k => y \in K
  BY EntryAssumption, PastFacts
<1>3. (b = h \/ b \notin H) /\ (b = k \/ b \notin K)
  BY DEF Dominates
<1>4. h \notin H /\ k \notin K
  BY EntryAssumption, PastFacts
<1> HIDE DEF H, K
<1>5. Entry \in H \cup K
  BY <1>1, <1>2
<1>6. \A x \in H \cup K : g[x] \subseteq H \cup K
  BY <1>1, <1>2
<1>7. b \in H \cup K
  BY <1>5, <1>6, LiveFacts
<1> QED
  BY <1>3, <1>4, <1>7

(* ... and only one of them. *)
LEMMA DominatorsApart ==
  ASSUME NEW g \in FlowGraphs, NEW h \in Live(g), NEW k \in Live(g), h # k
  PROVE  ~(Dominates(g, h, k) /\ Dominates(g, k, h))
<1> DEFINE H == Reach(g, {Entry}, {h})
           K == Reach(g, {Entry}, {k})
<1> SUFFICES ASSUME k \notin H, h \notin K PROVE FALSE
  BY DEF Dominates
<1>1. /\ Entry # h => Entry \in H
      /\ \A x \in H : \A y \in g[x] : y # h => y \in H
  BY EntryAssumption, PastFacts
<1>2. /\ Entry # k => Entry \in K
      /\ \A x \in K : \A y \in g[x] : y # k => y \in K
  BY EntryAssumption, PastFacts
<1> HIDE DEF H, K
<1>3. Entry \in H \cap K
  BY <1>1, <1>2
<1>4. \A x \in H \cap K : g[x] \subseteq H \cap K
  BY <1>1, <1>2
<1>5. h \in H \cap K
  BY <1>3, <1>4, LiveFacts
<1> QED
  BY <1>5

(* A loop that shares a block with one whose header it dominates holds     *)
(* that header.                                                            *)
LEMMA LoopsNest ==
  ASSUME NEW g \in FlowGraphs, NEW h \in Headers(g), NEW k \in Headers(g), h # k,
         NEW b \in LoopBlocks(g, h), b \in LoopBlocks(g, k), Dominates(g, h, k)
  PROVE  k \in LoopBlocks(g, h)
<1>1. h \in Live(g) /\ k \in Live(g) /\ b \in Live(g) /\ Live(g) \subseteq Blocks
  BY LoopTypes, LiveFacts
<1> DEFINE K == Reach(g, {Entry}, {k})
           Q == Reach(g, {k}, {h})
<1>2. h \in K
  BY <1>1, DominatorsApart DEF Dominates
<1>3. b # h
  BY <1>2, HeaderDominates
<1>4. CASE b = k
  BY <1>4
<1>5. CASE b # k
  <2>1. b \notin K
    BY <1>5, HeaderDominates
  <2>2. /\ Entry # k => Entry \in K
        /\ \A x \in K : \A y \in g[x] : y # k => y \in K
    BY EntryAssumption, PastFacts
  <2>3. /\ k \in Q
        /\ \A x \in Q : \A y \in g[x] : y # h => y \in Q
        /\ \A x \in Q : Reach(g, {x}, {h}) \subseteq Q
    BY <1>1, PastFacts
  <2>4. PICK t \in Reach(g, {b}, {h}) : t \in Latches(g, h)
    BY <1>3 DEF LoopBlocks
  <2>5. Q \cap Latches(g, h) # {} => k \in LoopBlocks(g, h)
    BY <1>1 DEF LoopBlocks
  <2> HIDE DEF K, Q
  <2>6. Entry \in K \cup Q
    BY <2>2, <2>3
  <2>7. \A x \in K \cup Q : g[x] \subseteq K \cup Q
    BY <1>2, <2>2, <2>3
  <2>8. b \in Q
    BY <1>1, <2>1, <2>6, <2>7, LiveFacts
  <2> QED
    BY <2>3, <2>4, <2>5, <2>8
<1> QED
  BY <1>4, <1>5

(* Innermost loops share no block. *)
LEMMA InnermostDisjoint ==
  ASSUME NEW g \in FlowGraphs,
         NEW h \in Innermost(LoopInfo(g)), NEW k \in Innermost(LoopInfo(g)),
         NEW b \in LoopBlocks(g, h), b \in LoopBlocks(g, k)
  PROVE  h = k
<1> SUFFICES ASSUME h # k PROVE FALSE
  OBVIOUS
<1>1. h \in Headers(g) /\ k \in Headers(g) /\ Headers(g) \subseteq Blocks /\ b \in Live(g)
  BY LoopTypes
<1>2. k \notin LoopBlocks(g, h) /\ h \notin LoopBlocks(g, k)
  BY <1>1, LoopTypes DEF Innermost
<1>3. Dominates(g, h, b) /\ Dominates(g, k, b)
  BY <1>1, HeaderDominates DEF Dominates
<1>4. Dominates(g, h, k) \/ Dominates(g, k, h)
  BY <1>1, <1>3, DominatorsOrdered
<1> QED
  BY <1>1, <1>2, <1>4, LoopsNest

(* A loop is entered at its header only. *)
LEMMA EnteredAtHeader ==
  ASSUME NEW g \in FlowGraphs, NEW h \in Headers(g),
         NEW x \in Live(g), x \notin LoopBlocks(g, h), NEW y \in g[x], y \in LoopBlocks(g, h)
  PROVE  y = h
<1> SUFFICES ASSUME y # h PROVE FALSE
  OBVIOUS
<1>1. x # h /\ x \in Blocks /\ y \in Blocks
  BY LoopTypes, LiveFacts
<1>2. PICK t \in Reach(g, {y}, {h}) : t \in Latches(g, h)
  BY DEF LoopBlocks
<1>3. /\ x \in Reach(g, {x}, {h})
      /\ \A b \in Reach(g, {x}, {h}) : \A c \in g[b] : c # h => c \in Reach(g, {x}, {h})
      /\ \A b \in Reach(g, {x}, {h}) : Reach(g, {b}, {h}) \subseteq Reach(g, {x}, {h})
  BY <1>1, PastFacts
<1>4. t \in Reach(g, {x}, {h})
  BY <1>2, <1>3
<1> QED
  BY <1>1, <1>2, <1>4 DEF LoopBlocks

(* A block outside a loop that leads to its header only is in no innermost *)
(* loop: it would have to return through the header, which would make that *)
(* loop an outer one.                                                      *)
LEMMA PreheaderAlone ==
  ASSUME NEW g \in FlowGraphs, NEW h \in Headers(g), NEW a \in Innermost(LoopInfo(g)),
         NEW p \in Live(g), p \notin LoopBlocks(g, h), g[p] = {h}
  PROVE  p \notin LoopBlocks(g, a)
<1> SUFFICES ASSUME p \in LoopBlocks(g, a) PROVE FALSE
  OBVIOUS
<1>1. a \in Headers(g) /\ a # h /\ h \in Live(g) /\ a \in Live(g) /\ Live(g) \subseteq Blocks
  BY LoopTypes, LiveFacts
<1>2. h \notin LoopBlocks(g, a)
  BY <1>1, LoopTypes DEF Innermost
<1> DEFINE Q == Reach(g, {h}, {a})
<1>3. Q \cap Latches(g, a) = {}
  BY <1>1, <1>2 DEF LoopBlocks
<1>4. h \in Q /\ \A x \in Q : \A y \in g[x] : y # a => y \in Q
  BY <1>1, PastFacts
<1>5. CASE p = a
  <2>1. PICK t : t \in Latches(g, a)
    BY <1>1 DEF Headers
  <2>2. t \in Live(g) /\ a \in g[t] /\ (t = a \/ t \notin Reach(g, {Entry}, {a}))
    BY <2>1 DEF Latches, Dominates
  <2>3. t # a
    BY <1>1, <1>5, <2>2
  <2> DEFINE A == Reach(g, {Entry}, {a})
  <2>4. (Entry # a => Entry \in A) /\ \A x \in A : \A y \in g[x] : y # a => y \in A
    BY EntryAssumption, PastFacts
  <2>5. t \notin A
    BY <2>2, <2>3
  <2> HIDE DEF A, Q
  <2>6. Entry \in A \cup Q \cup {a}
    BY <2>4
  <2>7. \A x \in A \cup Q \cup {a} : g[x] \subseteq A \cup Q \cup {a}
    BY <1>4, <1>5, <2>4
  <2>8. t \in A \cup Q \cup {a}
    BY <2>2, <2>6, <2>7, LiveFacts
  <2> QED
    BY <1>3, <2>1, <2>3, <2>5, <2>8
<1>6. CASE p # a
  <2>1. PICK t \in Reach(g, {p}, {a}) : t \in Latches(g, a)
    BY <1>6 DEF LoopBlocks
  <2>2. t # p
    BY <1>1, <2>1 DEF Latches
  <2> HIDE DEF Q
  <2>3. \A b \in Q \cup {p} : \A c \in g[b] : c # a => c \in Q \cup {p}
    BY <1>4
  <2>4. \A C : (p # a => p \in C) /\ (\A b \in C : \A c \in g[b] : c # a => c \in C)
           => Reach(g, {p}, {a}) \subseteq C
    BY <1>1, PastFacts
  <2>5. Reach(g, {p}, {a}) \subseteq Q \cup {p}
    BY <2>3, <2>4
  <2> QED
    BY <1>3, <2>1, <2>2, <2>5
<1> QED
  BY <1>5, <1>6

(***************************************************************************)
(* Gates in code                                                           *)
(***************************************************************************)

Instructions == [kind : {"op", "call", "gate"}, units : SUBSET Units]
Codes == Seq(Instructions)

(* u is s with e before its instruction i. *)
Inserted(s, i, e, u) ==
  /\ u \in Codes /\ Len(u) = Len(s) + 1 /\ u[i] = e
  /\ \A j \in 1..i - 1 : u[j] = s[j]
  /\ \A j \in i..Len(s) : u[j+1] = s[j]

LEMMA InsertAtIs ==
  ASSUME NEW s \in Codes, NEW i \in 1..Len(s), NEW e \in Instructions
  PROVE  Inserted(s, i, e, InsertAt(s, i, e))
<1> DEFINE before == SubSeq(s, 1, i - 1)
           after == SubSeq(s, i, Len(s))
<1>1. \A j \in 1..Len(s) : s[j] \in Instructions
  BY DEF Codes
<1>2. /\ before \in Codes /\ Len(before) = i - 1
      /\ \A j \in 1..i - 1 : before[j] = s[j]
  <2>1. /\ before \in Seq(Instructions)
        /\ Len(before) = IF 1 <= i - 1 THEN (i - 1) - 1 + 1 ELSE 0
        /\ \A j \in 1..(i - 1) - 1 + 1 : before[j] = s[1 + j - 1]
    BY <1>1, SubSeqProperties DEF Codes
  <2> HIDE DEF before
  <2> QED
    BY <2>1 DEF Codes
<1>3. /\ after \in Codes /\ Len(after) = Len(s) - i + 1
      /\ \A j \in 1..Len(s) - i + 1 : after[j] = s[i + j - 1]
  <2>1. /\ after \in Seq(Instructions)
        /\ Len(after) = IF i <= Len(s) THEN Len(s) - i + 1 ELSE 0
        /\ \A j \in 1..Len(s) - i + 1 : after[j] = s[i + j - 1]
    BY <1>1, SubSeqProperties DEF Codes
  <2> HIDE DEF after
  <2> QED
    BY <2>1 DEF Codes
<1> DEFINE front == before \o <<e>>
           u == front \o after
<1>4. InsertAt(s, i, e) = u
  BY DEF InsertAt
<1>5. Len(s) \in Nat
  BY DEF Codes
<1> HIDE DEF before, after
<1>6. /\ front \in Codes /\ Len(front) = i
      /\ (\A j \in 1..i - 1 : front[j] = s[j]) /\ front[i] = e
  <2>1. <<e>> \in Codes /\ Len(<<e>>) = 1 /\ <<e>>[1] = e
    BY DEF Codes
  <2> DEFINE last == <<e>>
  <2> HIDE DEF last
  <2>2. /\ before \o last \in Codes /\ Len(before \o last) = Len(before) + Len(last)
        /\ \A j \in 1..Len(before) + Len(last) :
             (before \o last)[j] = IF j <= Len(before) THEN before[j] ELSE last[j - Len(before)]
    BY <1>2, <2>1, ConcatProperties DEF Codes, last
  <2>3. last[1] = e /\ Len(last) = 1
    BY <2>1 DEF last
  <2>4. front = before \o last
    BY DEF last
  <2> HIDE DEF front
  <2> QED
    BY <1>2, <2>2, <2>3, <2>4
<1> HIDE DEF front
<1>7. /\ u \in Codes /\ Len(u) = Len(s) + 1
      /\ \A j \in 1..i : u[j] = front[j]
      /\ \A j \in i + 1..Len(s) + 1 : u[j] = after[j - i]
  <2>1. /\ u \in Codes /\ Len(u) = Len(front) + Len(after)
        /\ \A j \in 1..Len(front) + Len(after) :
             u[j] = IF j <= Len(front) THEN front[j] ELSE after[j - Len(front)]
    BY <1>3, <1>6, ConcatProperties DEF Codes
  <2> HIDE DEF u
  <2> QED
    BY <1>3, <1>5, <1>6, <2>1
<1> HIDE DEF u
<1>8. ASSUME NEW j \in i..Len(s) PROVE u[j+1] = s[j]
  <2>1. /\ j + 1 \in i + 1..Len(s) + 1 /\ (j + 1) - i \in 1..Len(s) - i + 1
        /\ i + ((j + 1) - i) - 1 = j
    BY <1>5
  <2>2. after[(j + 1) - i] = s[i + ((j + 1) - i) - 1]
    BY <1>3, <2>1
  <2> QED
    BY <1>7, <2>1, <2>2
<1> QED
  BY <1>4, <1>6, <1>7, <1>8 DEF Inserted

LEMMA GateTyped ==
  /\ \A m \in SUBSET Units : Gate(m) \in Instructions /\ Gate(m).kind = "gate" /\ Gate(m).units = m
  /\ AllOn \in SUBSET Units
  /\ \A e \in Instructions : e.kind = "gate" => e = Gate(e.units)
BY DEF Gate, Instructions, AllOn

(* A gate before an ordinary instruction. *)
LEMMA InsertGateIs ==
  ASSUME NEW s \in Codes, NEW i \in 1..Len(s), s[i].kind # "gate", NEW m \in SUBSET Units
  PROVE  Inserted(s, i, Gate(m), InsertGate(s, i, m))
BY InsertAtIs, GateTyped DEF InsertGate

(* An all-on gate in front of a block that has a gate there changes nothing.*)
LEMMA FrontGateIs ==
  ASSUME NEW s \in Codes, s # <<>>
  PROVE  IF s[1].kind = "gate" THEN InsertGate(s, 1, AllOn) = s
         ELSE Inserted(s, 1, Gate(AllOn), InsertGate(s, 1, AllOn))
<1>1. 1 \in 1..Len(s) /\ s[1] \in Instructions
  BY EmptySeq DEF Codes
<1>2. CASE s[1].kind = "gate" /\ s[1].units # AllOn
  BY <1>2 DEF InsertGate
<1>3. CASE s[1].kind = "gate" /\ s[1].units = AllOn
  <2>1. s[1] = Gate(AllOn)
    BY <1>1, <1>3, GateTyped
  <2>2. InsertGate(s, 1, AllOn) = [s EXCEPT ![1] = Gate(AllOn)]
    BY <1>3 DEF InsertGate
  <2>3. [s EXCEPT ![1] = s[1]] = s
    BY <1>1 DEF Codes
  <2> QED
    BY <1>3, <2>1, <2>2, <2>3
<1>4. CASE s[1].kind # "gate"
  BY <1>1, <1>4, GateTyped, InsertGateIs
<1> QED
  BY <1>2, <1>3, <1>4

--------------------------------------------------------------------------------
(* What the pass makes of a function's code c, after the traces T of the   *)
(* flow graph g.                                                           *)

Acyclic(g) == Headers(g) = {}
Entering(g, h) == {p \in Live(g) \ LoopBlocks(g, h) : h \in g[p]}
PreheaderOf(g, h) == {p \in Entering(g, h) : Entering(g, h) = {p} /\ g[p] = {h}}
LeadsOff(g, t, b) == \E x \in t.blocks : b \in g[x] \ t.blocks

(* Instruction i of block b is the gate of trace t. *)
GateOf(c, g, b, i, t) ==
  /\ c[b][i] = Gate(t.mask)
  /\ IF Acyclic(g) THEN b = Entry /\ i = 1
     ELSE b \in PreheaderOf(g, t.head) /\ i = Len(c[b]) - 1

(* A gate is put before an instruction, so that none comes last. *)
Coded(c) ==
  /\ c \in [Blocks -> Codes]
  /\ \A b \in Blocks : c[b] # <<>> /\ c[b][Len(c[b])].kind # "gate"

(* Every gate is a trace's or an all-on gate at the start of a block that  *)
(* some trace leads off to.                                                *)
GatesKnown(c, g, T) ==
  \A b \in Blocks : \A i \in 1..Len(c[b]) : c[b][i].kind = "gate" =>
    \/ i = 1 /\ c[b][i].units = AllOn /\ \E t \in T : LeadsOff(g, t, b)
    \/ \E t \in T : GateOf(c, g, b, i, t)

(* The mask of a trace covers the trace. *)
Covers(c, t) ==
  \A b \in t.blocks : \A i \in 1..Len(c[b]) : c[b][i].kind # "gate" => c[b][i].units \subseteq t.mask

(* Every way off a trace starts with a gate. *)
Regated(c, g, t) == \A b \in Blocks : LeadsOff(g, t, b) => c[b][1].kind = "gate"

(* The last instruction but one of a loop's preheader is its gate. *)
LoopGated(c, g, t) ==
  ~Acyclic(g) => \E p \in PreheaderOf(g, t.head) : Len(c[p]) >= 2 /\ c[p][Len(c[p]) - 1] = Gate(t.mask)

Traced(g, T) ==
  /\ \A t \in T :
       /\ t.head \in t.blocks /\ t.mask \in SUBSET Units /\ t.blocks \in SUBSET Blocks
       /\ IF Acyclic(g) THEN t.head = Entry
          ELSE t.head \in Innermost(LoopInfo(g)) /\ t.blocks \subseteq LoopBlocks(g, t.head)
  /\ \A t, u \in T : t.head = u.head => t = u

Gated(c, g, T) ==
  /\ Coded(c) /\ GatesKnown(c, g, T) /\ Traced(g, T)
  /\ \A t \in T : Covers(c, t) /\ Regated(c, g, t) /\ LoopGated(c, g, t)

LEMMA CodedIs ==
  ASSUME NEW c, Coded(c), NEW b \in Blocks
  PROVE  /\ c[b] \in Codes /\ Len(c[b]) \in Nat \ {0}
         /\ c[b][Len(c[b])].kind # "gate"
         /\ \A i \in 1..Len(c[b]) : c[b][i] \in Instructions
BY EmptySeq DEF Coded, Codes

LEMMA PreheaderIs ==
  ASSUME NEW g \in FlowGraphs, NEW h, NEW p \in PreheaderOf(g, h)
  PROVE  /\ p \in Blocks /\ p \in Live(g) /\ p \notin LoopBlocks(g, h) /\ g[p] = {h}
         /\ Entering(g, h) = {p} /\ PreheaderOf(g, h) = {p}
BY LiveFacts DEF PreheaderOf, Entering

(* At most a gate more in every block. *)
OnlyGates(c, d) ==
  \A b \in Blocks :
    d[b] = c[b] \/ \E i \in 1..Len(c[b]), m \in SUBSET Units : Inserted(c[b], i, Gate(m), d[b])

(* A gate put in keeps what covers a trace. *)
LEMMA InsertedCovers ==
  ASSUME NEW c, Coded(c), NEW d, Coded(d), NEW t, t.blocks \subseteq Blocks, Covers(c, t),
         OnlyGates(c, d)
  PROVE  Covers(d, t)
<1> SUFFICES ASSUME NEW b \in t.blocks, NEW j \in 1..Len(d[b]), d[b][j].kind # "gate"
             PROVE  d[b][j].units \subseteq t.mask
  BY DEF Covers
<1>1. b \in Blocks
  OBVIOUS
<1>2. CASE d[b] = c[b]
  BY <1>2 DEF Covers
<1>3. CASE \E i \in 1..Len(c[b]), m \in SUBSET Units : Inserted(c[b], i, Gate(m), d[b])
  <2>1. PICK i \in 1..Len(c[b]), m \in SUBSET Units : Inserted(c[b], i, Gate(m), d[b])
    BY <1>3
  <2>2. Len(c[b]) \in Nat
    BY <1>1, CodedIs
  <2>3. j # i
    BY <2>1, GateTyped DEF Inserted
  <2>4. \E k \in 1..Len(c[b]) : d[b][j] = c[b][k]
    <3>1. CASE j < i
      <4>1. j \in 1..i - 1 /\ j \in 1..Len(c[b])
        BY <2>2, <3>1
      <4> QED
        BY <2>1, <4>1 DEF Inserted
    <3>2. CASE j > i
      <4>1. j - 1 \in i..Len(c[b]) /\ j - 1 \in 1..Len(c[b]) /\ (j - 1) + 1 = j
        BY <2>1, <2>2, <3>2 DEF Inserted
      <4> QED
        BY <2>1, <4>1 DEF Inserted
    <3> QED
      BY <2>2, <2>3, <3>1, <3>2
  <2> QED
    BY <2>4 DEF Covers
<1> QED
  BY <1>1, <1>2, <1>3 DEF OnlyGates

SameEnd(s, u) == u \in Codes /\ u # <<>> /\ u[Len(u)] = s[Len(s)]

LEMMA InsertedKeepsEnd ==
  ASSUME NEW c, Coded(c), NEW b \in Blocks, NEW i \in 1..Len(c[b]), NEW e, NEW u,
         Inserted(c[b], i, e, u)
  PROVE  SameEnd(c[b], u)
<1>1. Len(c[b]) \in i..Len(c[b]) /\ Len(c[b]) \in Nat \ {0}
  BY CodedIs
<1>2. /\ u \in Codes /\ Len(u) = Len(c[b]) + 1
      /\ \A j \in i..Len(c[b]) : u[j+1] = c[b][j]
  BY DEF Inserted
<1>3. u # <<>>
  BY <1>1, <1>2, EmptySeq DEF Codes
<1> QED
  BY <1>1, <1>2, <1>3 DEF SameEnd

LEMMA CodedChanged ==
  ASSUME NEW c, Coded(c), NEW d, DOMAIN d = Blocks, d = [b \in Blocks |-> d[b]],
         OnlyGates(c, d)
  PROVE  Coded(d)
<1>1. ASSUME NEW b \in Blocks
      PROVE  d[b] \in Codes /\ d[b] # <<>> /\ d[b][Len(d[b])].kind # "gate"
  <2>1. CASE d[b] = c[b]
    BY <2>1 DEF Coded
  <2>2. CASE \E i \in 1..Len(c[b]), m \in SUBSET Units : Inserted(c[b], i, Gate(m), d[b])
    <3>1. PICK i \in 1..Len(c[b]), m \in SUBSET Units : Inserted(c[b], i, Gate(m), d[b])
      BY <2>2
    <3>2. SameEnd(c[b], d[b])
      BY <1>1, <3>1, InsertedKeepsEnd, Zenon
    <3> QED
      BY <3>2 DEF Coded, SameEnd
  <2> QED
    BY <1>1, <2>1, <2>2 DEF OnlyGates
<1> QED
  BY <1>1 DEF Coded

(* The all-on gates: every block that the new trace leads off to now has a *)
(* gate in front, and no trace loses its own.                              *)
LEMMA FrontStage ==
  ASSUME NEW g \in FlowGraphs, NEW c, Coded(c), NEW T, NEW new \in T,
         NEW d, d = [b \in Blocks |-> IF LeadsOff(g, new, b) THEN InsertGate(c[b], 1, AllOn) ELSE c[b]],
         GatesKnown(c, g, T), Traced(g, T),
         \A t \in T : Covers(c, t) /\ LoopGated(c, g, t),
         \A t \in T \ {new} : Regated(c, g, t)
  PROVE  Gated(d, g, T)
<1>1. ASSUME NEW b \in Blocks
      PROVE  \/ d[b] = c[b] /\ (LeadsOff(g, new, b) => c[b][1].kind = "gate")
             \/ /\ LeadsOff(g, new, b) /\ c[b][1].kind # "gate"
                /\ 1 \in 1..Len(c[b]) /\ Inserted(c[b], 1, Gate(AllOn), d[b])
  <2>1. c[b] \in Codes /\ c[b] # <<>> /\ 1 \in 1..Len(c[b])
    BY <1>1, CodedIs DEF Coded
  <2>2. CASE LeadsOff(g, new, b)
    <3>1. d[b] = InsertGate(c[b], 1, AllOn)
      BY <1>1, <2>2
    <3> QED
      BY <2>1, <2>2, <3>1, FrontGateIs
  <2> QED
    BY <1>1, <2>2
<1>2. OnlyGates(c, d)
  BY <1>1, GateTyped DEF OnlyGates
<1>3. Coded(d)
  <2>1. DOMAIN d = Blocks /\ d = [b \in Blocks |-> d[b]]
    OBVIOUS
  <2> QED
    BY <1>2, <2>1, CodedChanged
<1> HIDE <1>1
<1>4. GatesKnown(d, g, T)
  <2> SUFFICES ASSUME NEW b \in Blocks, NEW i \in 1..Len(d[b]), d[b][i].kind = "gate"
               PROVE  \/ i = 1 /\ d[b][i].units = AllOn /\ \E t \in T : LeadsOff(g, t, b)
                      \/ \E t \in T : GateOf(d, g, b, i, t)
    BY DEF GatesKnown
  <2>1. CASE d[b] = c[b]
    <3>1. \/ i = 1 /\ c[b][i].units = AllOn /\ \E t \in T : LeadsOff(g, t, b)
          \/ \E t \in T : GateOf(c, g, b, i, t)
      BY <2>1 DEF GatesKnown
    <3> QED
      BY <2>1, <3>1 DEF GateOf
  <2>2. CASE /\ LeadsOff(g, new, b) /\ c[b][1].kind # "gate"
             /\ 1 \in 1..Len(c[b]) /\ Inserted(c[b], 1, Gate(AllOn), d[b])
    <3>1. CASE i = 1
      BY <2>2, <3>1, GateTyped DEF Inserted
    <3>2. CASE i # 1
      <4>1. /\ i - 1 \in 1..Len(c[b]) /\ d[b][i] = c[b][i-1]
            /\ Len(d[b]) = Len(c[b]) + 1 /\ Len(c[b]) \in Nat
        <5>1. Len(c[b]) \in Nat /\ Len(d[b]) = Len(c[b]) + 1
          BY <2>2, CodedIs DEF Inserted
        <5>2. i - 1 \in 1..Len(c[b]) /\ (i - 1) + 1 = i
          BY <3>2, <5>1
        <5> QED
          BY <2>2, <5>1, <5>2 DEF Inserted
      <4>2. i - 1 # 1
        BY <2>2, <4>1
      <4>3. PICK t \in T : GateOf(c, g, b, i - 1, t)
        BY <4>1, <4>2 DEF GatesKnown
      <4>4. i - 1 = Len(c[b]) - 1 => i = Len(d[b]) - 1
        BY <4>1
      <4>5. GateOf(d, g, b, i, t)
        BY <4>1, <4>2, <4>3, <4>4 DEF GateOf
      <4> QED
        BY <4>5
    <3> QED
      BY <3>1, <3>2
  <2> QED
    BY <1>1, <2>1, <2>2
<1>5. ASSUME NEW t \in T PROVE Covers(d, t)
  <2>1. t.blocks \subseteq Blocks
    BY DEF Traced
  <2> QED
    BY <1>2, <1>3, <1>5, <2>1, InsertedCovers
<1>6. ASSUME NEW t \in T PROVE Regated(d, g, t)
  <2> SUFFICES ASSUME NEW b \in Blocks, LeadsOff(g, t, b) PROVE d[b][1].kind = "gate"
    BY DEF Regated
  <2>1. c[b][1].kind = "gate" => d[b][1].kind = "gate"
    BY <1>1
  <2>2. Inserted(c[b], 1, Gate(AllOn), d[b]) => d[b][1].kind = "gate"
    BY GateTyped DEF Inserted
  <2> QED
    BY <1>1, <1>6, <2>1, <2>2 DEF Regated
<1>7. ASSUME NEW t \in T PROVE LoopGated(d, g, t)
  <2> SUFFICES ASSUME ~Acyclic(g)
               PROVE  \E p \in PreheaderOf(g, t.head) :
                        Len(d[p]) >= 2 /\ d[p][Len(d[p]) - 1] = Gate(t.mask)
    BY DEF LoopGated
  <2>1. PICK p \in PreheaderOf(g, t.head) : Len(c[p]) >= 2 /\ c[p][Len(c[p]) - 1] = Gate(t.mask)
    BY <1>7 DEF LoopGated
  <2>2. p \in Blocks
    BY PreheaderIs
  <2>3. CASE d[p] = c[p]
    BY <2>1, <2>3
  <2>4. CASE Inserted(c[p], 1, Gate(AllOn), d[p])
    <3>1. Len(c[p]) \in Nat /\ Len(d[p]) = Len(c[p]) + 1
      BY <2>2, <2>4, CodedIs DEF Inserted
    <3>2. Len(c[p]) - 1 \in 1..Len(c[p]) /\ (Len(c[p]) - 1) + 1 = Len(d[p]) - 1
      BY <2>1, <3>1
    <3>3. d[p][Len(d[p]) - 1] = c[p][Len(c[p]) - 1]
      BY <2>4, <3>2 DEF Inserted
    <3> QED
      BY <2>1, <3>1, <3>3
  <2> QED
    BY <1>1, <2>2, <2>3, <2>4
<1> QED
  BY <1>3, <1>4, <1>5, <1>6, <1>7 DEF Gated

(* The gate of a loop's trace, at the end of the preheader. *)
LEMMA LoopStage ==
  ASSUME NEW g \in FlowGraphs, NEW c, NEW T, Gated(c, g, T), ~Acyclic(g),
         NEW new, Traced(g, T \cup {new}), Covers(c, new), \A t \in T : t.head # new.head,
         NEW p \in PreheaderOf(g, new.head),
         NEW d, d = [c EXCEPT ![p] = InsertGate(@, Len(c[p]), new.mask)]
  PROVE  /\ Coded(d) /\ GatesKnown(d, g, T \cup {new})
         /\ \A t \in T \cup {new} : Covers(d, t) /\ LoopGated(d, g, t)
         /\ \A t \in T : Regated(d, g, t)
<1> DEFINE n == Len(c[p])
<1>0. Coded(c) /\ new.mask \in SUBSET Units
  BY DEF Gated, Traced
<1>1. p \in Blocks /\ g[p] = {new.head}
  BY PreheaderIs
<1>2. n \in Nat \ {0} /\ n \in 1..n /\ c[p] \in Codes /\ c[p][n].kind # "gate"
  BY <1>0, <1>1, CodedIs
<1>3. Inserted(c[p], n, Gate(new.mask), InsertGate(c[p], n, new.mask))
  BY <1>0, <1>2, InsertGateIs
<1>4. /\ d[p] = InsertGate(c[p], n, new.mask)
      /\ \A b \in Blocks \ {p} : d[b] = c[b]
      /\ DOMAIN d = Blocks /\ d = [b \in Blocks |-> d[b]]
  BY <1>0, <1>1 DEF Coded
<1>5. OnlyGates(c, d)
  BY <1>0, <1>2, <1>3, <1>4 DEF OnlyGates
<1>6. Coded(d)
  BY <1>0, <1>4, <1>5, CodedChanged
<1>7. /\ Len(d[p]) = n + 1 /\ d[p][n] = Gate(new.mask) /\ d[p][n+1].kind # "gate"
      /\ \A j \in 1..n - 1 : d[p][j] = c[p][j]
  BY <1>2, <1>3, <1>4 DEF Inserted
<1> HIDE DEF n
<1>8. GatesKnown(d, g, T \cup {new})
  <2> SUFFICES ASSUME NEW b \in Blocks, NEW i \in 1..Len(d[b]), d[b][i].kind = "gate"
               PROVE  \/ /\ i = 1 /\ d[b][i].units = AllOn
                         /\ \E t \in T \cup {new} : LeadsOff(g, t, b)
                      \/ \E t \in T \cup {new} : GateOf(d, g, b, i, t)
    BY DEF GatesKnown
  <2>1. CASE b # p
    <3>1. d[b] = c[b]
      BY <1>4, <2>1
    <3>2. \/ i = 1 /\ c[b][i].units = AllOn /\ \E t \in T : LeadsOff(g, t, b)
          \/ \E t \in T : GateOf(c, g, b, i, t)
      BY <3>1 DEF Gated, GatesKnown
    <3> QED
      BY <3>1, <3>2 DEF GateOf
  <2>2. CASE b = p /\ i = n
    <3>1. i = Len(d[b]) - 1
      BY <1>2, <1>7, <2>2
    <3>2. GateOf(d, g, b, i, new)
      BY <1>7, <2>2, <3>1 DEF GateOf
    <3> QED
      BY <3>2
  <2>3. CASE b = p /\ i # n
    <3>1. i \in 1..n - 1
      <4>1. i # n + 1
        BY <1>7, <2>3
      <4> QED
        BY <1>2, <1>7, <2>3, <4>1
    <3>2. d[b][i] = c[p][i] /\ i \in 1..Len(c[p]) /\ i # Len(c[p])
      BY <1>2, <1>7, <2>3, <3>1 DEF n
    <3>3. \A t \in T : ~GateOf(c, g, p, i, t)
      <4> SUFFICES ASSUME NEW t \in T, p \in PreheaderOf(g, t.head) PROVE FALSE
        BY DEF GateOf
      <4>1. g[p] = {t.head}
        BY PreheaderIs
      <4> QED
        BY <1>1, <4>1
    <3>4. i = 1 /\ c[p][i].units = AllOn /\ \E t \in T : LeadsOff(g, t, p)
      BY <1>1, <2>3, <3>2, <3>3 DEF Gated, GatesKnown
    <3> QED
      BY <2>3, <3>2, <3>4
  <2> QED
    BY <2>1, <2>2, <2>3
<1>9. ASSUME NEW t \in T \cup {new} PROVE Covers(d, t)
  <2>1. t.blocks \subseteq Blocks /\ Covers(c, t)
    BY DEF Traced, Gated
  <2> QED
    BY <1>0, <1>5, <1>6, <1>9, <2>1, InsertedCovers
<1>10. ASSUME NEW t \in T \cup {new} PROVE LoopGated(d, g, t)
  <2>1. CASE t = new
    <3>1. Len(d[p]) >= 2 /\ Len(d[p]) - 1 = n
      BY <1>2, <1>7
    <3> QED
      BY <1>7, <2>1, <3>1 DEF LoopGated
  <2>2. CASE t \in T
    <3>1. PICK q \in PreheaderOf(g, t.head) : Len(c[q]) >= 2 /\ c[q][Len(c[q]) - 1] = Gate(t.mask)
      BY <2>2 DEF Gated, LoopGated
    <3>2. q \in Blocks /\ g[q] = {t.head}
      BY PreheaderIs
    <3>3. q # p
      BY <1>1, <2>2, <3>2
    <3> QED
      BY <1>4, <3>1, <3>2, <3>3 DEF LoopGated
  <2> QED
    BY <2>1, <2>2
<1>11. ASSUME NEW t \in T PROVE Regated(d, g, t)
  <2> SUFFICES ASSUME NEW b \in Blocks, LeadsOff(g, t, b) PROVE d[b][1].kind = "gate"
    BY DEF Regated
  <2>1. c[b][1].kind = "gate"
    BY DEF Gated, Regated
  <2>2. CASE b = p
    <3>1. n # 1
      BY <1>2, <2>1, <2>2
    <3>2. 1 \in 1..n - 1
      BY <1>2, <3>1
    <3> QED
      BY <1>7, <2>1, <2>2, <3>2
  <2> QED
    BY <1>4, <2>1, <2>2
<1> QED
  BY <1>6, <1>8, <1>9, <1>10, <1>11

(* The gate of the one trace of a function without loops, at its entry. *)
LEMMA AcyclicStage ==
  ASSUME NEW g \in FlowGraphs, NEW c, Gated(c, g, {}), Acyclic(g),
         NEW new, Traced(g, {new}), Covers(c, new),
         NEW d, d = [c EXCEPT ![Entry] = InsertGate(@, 1, new.mask)]
  PROVE  /\ Coded(d) /\ GatesKnown(d, g, {new})
         /\ Covers(d, new) /\ LoopGated(d, g, new)
<1>0. Coded(c) /\ new.mask \in SUBSET Units /\ new.blocks \subseteq Blocks
  BY DEF Gated, Traced
<1>1. Entry \in Blocks
  BY EntryAssumption
<1>2. /\ 1 \in 1..Len(c[Entry]) /\ c[Entry] \in Codes /\ Len(c[Entry]) \in Nat
  BY <1>0, <1>1, CodedIs
<1>3. \A b \in Blocks : \A i \in 1..Len(c[b]) : c[b][i].kind # "gate"
  BY DEF Gated, GatesKnown
<1>4. Inserted(c[Entry], 1, Gate(new.mask), InsertGate(c[Entry], 1, new.mask))
  BY <1>0, <1>1, <1>2, <1>3, InsertGateIs
<1>5. /\ d[Entry] = InsertGate(c[Entry], 1, new.mask)
      /\ \A b \in Blocks \ {Entry} : d[b] = c[b]
      /\ DOMAIN d = Blocks /\ d = [b \in Blocks |-> d[b]]
  BY <1>0, <1>1 DEF Coded
<1>6. OnlyGates(c, d)
  BY <1>0, <1>2, <1>4, <1>5 DEF OnlyGates
<1>7. Coded(d)
  BY <1>0, <1>5, <1>6, CodedChanged
<1>8. GatesKnown(d, g, {new})
  <2> SUFFICES ASSUME NEW b \in Blocks, NEW i \in 1..Len(d[b]), d[b][i].kind = "gate"
               PROVE  GateOf(d, g, b, i, new)
    BY DEF GatesKnown
  <2>1. b = Entry
    BY <1>3, <1>5
  <2>2. i = 1
    <3> SUFFICES ASSUME i # 1 PROVE FALSE
      OBVIOUS
    <3>1. i - 1 \in 1..Len(c[Entry]) /\ (i - 1) + 1 = i
      BY <1>2, <1>4, <1>5, <2>1 DEF Inserted
    <3>2. d[b][i] = c[Entry][i-1]
      BY <1>4, <1>5, <2>1, <3>1 DEF Inserted
    <3> QED
      BY <1>1, <1>3, <3>1, <3>2
  <2> QED
    BY <1>4, <1>5, <2>1, <2>2 DEF Inserted, GateOf
<1>9. Covers(d, new)
  BY <1>0, <1>6, <1>7, InsertedCovers
<1> QED
  BY <1>7, <1>8, <1>9 DEF LoopGated

(***************************************************************************)
(* The pass                                                                *)
(***************************************************************************)

(* What the code, the loops and the traces satisfy at all times. *)
Placed ==
  /\ func \in [succ : FlowGraphs, bb : [Blocks -> Blocks], code : [Blocks -> Codes]]
  /\ loops = LoopInfo(func.succ)
  /\ Gated(func.code, func.succ, traces)

(* The trace that is being grown. *)
Growing ==
  /\ trace # <<>>
  /\ IF Acyclic(func.succ) THEN trace[1] = Entry /\ traces = {}
     ELSE /\ trace[1] \in Innermost(loops) \ todo
          /\ \A t \in traces : t.head # trace[1]
          /\ Range(trace) \subseteq LoopBlocks(func.succ, trace[1])

Planned ==
  /\ phase \in {"pass", "trace", "run", "done", "crashed"}
  /\ todo \subseteq Innermost(loops)
  /\ Acyclic(func.succ) \/ \A t \in traces : t.head \notin todo
  /\ trace \in Seq(Blocks)
  /\ phase = "trace" => Growing

LEMMA LoopsAre ==
  ASSUME Placed
  PROVE  /\ func.succ \in FlowGraphs /\ (NoLoops <=> Acyclic(func.succ))
         /\ DOMAIN loops = Headers(func.succ)
         /\ \A h \in Headers(func.succ) :
              /\ loops[h] = LoopBlocks(func.succ, h)
              /\ Preheader(func.succ, h) = PreheaderOf(func.succ, h)
         /\ Innermost(loops) \subseteq Headers(func.succ)
<1>1. func.succ \in FlowGraphs /\ loops = LoopInfo(func.succ)
  BY DEF Placed
<1>2. /\ DOMAIN loops = Headers(func.succ)
      /\ \A h \in Headers(func.succ) : loops[h] = LoopBlocks(func.succ, h)
      /\ Innermost(loops) \subseteq Headers(func.succ)
  BY <1>1, LoopTypes
<1>3. ASSUME NEW h \in Headers(func.succ)
      PROVE  Preheader(func.succ, h) = PreheaderOf(func.succ, h)
  <2>1. Outside(func.succ, h) = Entering(func.succ, h)
    BY <1>2 DEF Outside, Entering
  <2> QED
    BY <2>1 DEF Preheader, PreheaderOf
<1> QED
  BY <1>1, <1>2, <1>3 DEF NoLoops, Acyclic

LEMMA RangeOf ==
  ASSUME NEW S, NEW s \in Seq(S)
  PROVE  /\ Range(s) \subseteq S /\ \A x : x \in Range(s) <=> \E i \in 1..Len(s) : x = s[i]
         /\ s # <<>> => s[1] \in Range(s) /\ s[1] \in S
         /\ \A x \in S : Append(s, x) \in Seq(S) /\ Range(Append(s, x)) = Range(s) \cup {x}
         /\ \A x \in S : Append(s, x) # <<>> /\ (s # <<>> => Append(s, x)[1] = s[1])
<1>1. DOMAIN s = 1..Len(s) /\ Len(s) \in Nat /\ \A i \in 1..Len(s) : s[i] \in S
  OBVIOUS
<1>2. \A x : x \in Range(s) <=> \E i \in 1..Len(s) : x = s[i]
  BY <1>1 DEF Range
<1>3. s # <<>> => 1 \in 1..Len(s)
  BY <1>1, EmptySeq
<1>4. ASSUME NEW x \in S
      PROVE  /\ Append(s, x) \in Seq(S) /\ Range(Append(s, x)) = Range(s) \cup {x}
             /\ Append(s, x) # <<>> /\ (s # <<>> => Append(s, x)[1] = s[1])
  <2> DEFINE a == Append(s, x)
  <2>1. /\ a \in Seq(S) /\ Len(a) = Len(s) + 1 /\ a[Len(s) + 1] = x
        /\ \A i \in 1..Len(s) : a[i] = s[i]
    BY <1>1
  <2> HIDE DEF a
  <2>2. DOMAIN a = 1..Len(s) + 1
    BY <2>1
  <2>3. \A y : y \in Range(a) <=> \E i \in 1..Len(s) + 1 : y = a[i]
    BY <2>2 DEF Range
  <2>4. \A y : y \in Range(a) <=> y \in Range(s) \cup {x}
    BY <1>1, <1>2, <2>1, <2>3
  <2>5. a # <<>>
    BY <1>1, <2>1
  <2> QED
    BY <1>3, <2>1, <2>4, <2>5 DEF a
<1> QED
  BY <1>1, <1>2, <1>3, <1>4

(* The mask of a trace: in types, and what it covers. *)
LEMMA TraceMaskIs ==
  ASSUME Placed, NEW t \in Seq(Blocks)
  PROVE  /\ TraceMask(func, t) \in SUBSET Units
         /\ \A new : new.blocks = Range(t) /\ new.mask = TraceMask(func, t) => Covers(func.code, new)
<1> DEFINE c == func.code
           all == UNION {Range(c[b]) : b \in Range(t)}
<1>1. c \in [Blocks -> Codes] /\ Range(t) \subseteq Blocks
  BY RangeOf DEF Placed
<1>2. \A b \in Blocks : /\ Range(c[b]) \subseteq Instructions
                        /\ \A i \in 1..Len(c[b]) : c[b][i] \in Range(c[b])
  BY <1>1, RangeOf DEF Codes
<1>3. \A ins : ins \in all <=> \E b \in Range(t) : ins \in Range(c[b])
  OBVIOUS
<1>4. TraceMask(func, t) = UNION {GatingMask(ins) : ins \in all}
  BY DEF TraceMask
<1> HIDE DEF all, c
<1>5. \A e : e \in TraceMask(func, t) <=> \E ins \in all : e \in GatingMask(ins)
  BY <1>4
<1>6. \A ins \in all : ins \in Instructions
  BY <1>1, <1>2, <1>3
<1>7. \A ins \in all : GatingMask(ins) \subseteq Units /\ (ins.kind # "gate" => GatingMask(ins) = ins.units)
  BY <1>6 DEF GatingMask, Instructions, AllOn
<1>8. ASSUME NEW new, new.blocks = Range(t), new.mask = TraceMask(func, t)
      PROVE  Covers(c, new)
  <2> SUFFICES ASSUME NEW b \in Range(t), NEW i \in 1..Len(c[b]), c[b][i].kind # "gate"
               PROVE  c[b][i].units \subseteq TraceMask(func, t)
    BY <1>8 DEF Covers
  <2>1. c[b][i] \in all
    BY <1>1, <1>2, <1>3
  <2> QED
    BY <1>5, <1>7, <2>1
<1> QED
  BY <1>5, <1>7, <1>8 DEF c

(* What optimizeTrace leaves: the gate of the trace and the all-on gates. *)
LEMMA OptimizedIs ==
  ASSUME Placed, NEW t \in Seq(Blocks), NEW p \in Blocks, NEW i, NEW new, new.blocks = Range(t),
         new.mask = TraceMask(func, t)
  PROVE  LET d == [func.code EXCEPT ![p] = InsertGate(@, i, new.mask)]
         IN  Optimized(func, t, p, i) =
               [func EXCEPT !.code = [b \in Blocks |->
                  IF LeadsOff(func.succ, new, b) THEN InsertGate(d[b], 1, AllOn) ELSE d[b]]]
<1>1. \A b : b \in OffTrace(func, t) <=> LeadsOff(func.succ, new, b)
  <2>1. \A b : b \in UNION {func.succ[x] : x \in Range(t)} <=> \E x \in Range(t) : b \in func.succ[x]
    OBVIOUS
  <2> QED
    BY <2>1 DEF OffTrace, LeadsOff
<1>2. \A d : [b \in Blocks |-> IF b \in OffTrace(func, t) THEN InsertGate(d[b], 1, AllOn) ELSE d[b]]
           = [b \in Blocks |-> IF LeadsOff(func.succ, new, b) THEN InsertGate(d[b], 1, AllOn) ELSE d[b]]
  BY <1>1
<1> QED
  BY <1>2 DEF Optimized

NewTrace == [blocks |-> Range(trace), head |-> trace[1], mask |-> TraceMask(func, trace)]

LEMMA NewTraceIs ==
  ASSUME Placed, Planned, phase = "trace"
  PROVE  /\ NewTrace.blocks = Range(trace) /\ NewTrace.head = trace[1]
         /\ NewTrace.mask = TraceMask(func, trace)
         /\ Traced(func.succ, traces \cup {NewTrace}) /\ Covers(func.code, NewTrace)
         /\ trace \in Seq(Blocks) /\ trace # <<>>
<1>1. /\ NewTrace.blocks = Range(trace) /\ NewTrace.head = trace[1]
      /\ NewTrace.mask = TraceMask(func, trace)
  BY DEF NewTrace
<1>2. trace \in Seq(Blocks) /\ Growing
  BY DEF Planned
<1>3. /\ Range(trace) \subseteq Blocks /\ trace[1] \in Range(trace)
      /\ TraceMask(func, trace) \in SUBSET Units
  BY <1>2, RangeOf, TraceMaskIs DEF Growing
<1>4. Covers(func.code, NewTrace)
  BY <1>1, <1>2, TraceMaskIs
<1>5. Traced(func.succ, traces) /\ loops = LoopInfo(func.succ)
  BY DEF Placed, Gated
<1>6. IF Acyclic(func.succ) THEN NewTrace.head = Entry
      ELSE /\ NewTrace.head \in Innermost(LoopInfo(func.succ))
           /\ NewTrace.blocks \subseteq LoopBlocks(func.succ, NewTrace.head)
  BY <1>1, <1>2, <1>5 DEF Growing
<1>7. \A t \in traces : t.head # NewTrace.head
  BY <1>1, <1>2 DEF Growing
<1>8. Traced(func.succ, traces \cup {NewTrace})
  <2> DEFINE n == NewTrace
  <2>1. n.head \in n.blocks /\ n.mask \in SUBSET Units /\ n.blocks \in SUBSET Blocks
    BY <1>1, <1>3
  <2> HIDE DEF n
  <2> QED
    BY <1>5, <1>6, <1>7, <2>1 DEF Traced, n
<1> QED
  BY <1>1, <1>2, <1>4, <1>8 DEF Growing

LEMMA CodeTyped ==
  ASSUME NEW c, Coded(c)
  PROVE  c \in [Blocks -> Codes]
BY DEF Coded

(* The pass keeps what is placed when it optimizes the trace of a loop ... *)
LEMMA PlacedLoop ==
  ASSUME Placed, Planned, OptimizeLoop
  PROVE  Placed'
<1>1. CASE Preheader(func.succ, trace[1]) = {}
  BY <1>1 DEF OptimizeLoop, Placed
<1>2. CASE Preheader(func.succ, trace[1]) # {}
  <2> DEFINE g == func.succ
             p == CHOOSE q \in Preheader(func.succ, trace[1]) : TRUE
             n == NewTrace
             T == traces \cup {n}
             i == Len(func.code[p])
             d == [func.code EXCEPT ![p] = InsertGate(@, i, n.mask)]
             e == [b \in Blocks |-> IF LeadsOff(g, n, b) THEN InsertGate(d[b], 1, AllOn) ELSE d[b]]
  <2>1. /\ func' = Optimized(func, trace, p, i) /\ traces' = T
        /\ UNCHANGED loops /\ phase = "trace" /\ ~NoLoops
    BY <1>2 DEF OptimizeLoop, NewTrace
  <2>2. /\ g \in FlowGraphs /\ ~Acyclic(g) /\ trace[1] \in Headers(g)
        /\ \A t \in traces : t.head # trace[1]
    <3>1. g \in FlowGraphs /\ ~Acyclic(g)
      BY <2>1, LoopsAre
    <3>2. /\ trace[1] \in Innermost(loops) /\ \A t \in traces : t.head # trace[1]
      BY <2>1, <3>1 DEF Planned, Growing
    <3> QED
      BY <3>1, <3>2, LoopsAre
  <2>3. p \in PreheaderOf(g, trace[1]) /\ p \in Blocks
    <3>1. p \in Preheader(g, trace[1]) /\ Preheader(g, trace[1]) = PreheaderOf(g, trace[1])
      BY <1>2, <2>2, LoopsAre
    <3> HIDE DEF p
    <3> QED
      BY <2>2, <3>1, PreheaderIs
  <2>4. /\ n.blocks = Range(trace) /\ n.head = trace[1] /\ n.mask = TraceMask(func, trace)
        /\ Traced(g, T) /\ Covers(func.code, n) /\ trace \in Seq(Blocks)
    BY <2>1, NewTraceIs
  <2>5. func' = [func EXCEPT !.code = e]
    <3> DEFINE m == n
    <3>1. m.blocks = Range(trace) /\ m.mask = TraceMask(func, trace) /\ m = n
      BY <2>4
    <3> HIDE DEF m, p
    <3>2. LET u == [func.code EXCEPT ![p] = InsertGate(@, i, m.mask)]
          IN  Optimized(func, trace, p, i) =
                [func EXCEPT !.code = [b \in Blocks |->
                   IF LeadsOff(func.succ, m, b) THEN InsertGate(u[b], 1, AllOn) ELSE u[b]]]
      BY <2>3, <2>4, <3>1, OptimizedIs
    <3> QED
      BY <2>1, <3>1, <3>2
  <2>6. Gated(func.code, g, traces) /\ loops = LoopInfo(g)
    BY DEF Placed
  <2> HIDE DEF n, g, p
  <2>7. /\ Coded(d) /\ GatesKnown(d, g, T)
        /\ \A t \in T : Covers(d, t) /\ LoopGated(d, g, t)
        /\ \A t \in traces : Regated(d, g, t)
    <3> DEFINE c == func.code
    <3>1. Gated(c, g, traces)
      BY <2>6
    <3>2. d = [c EXCEPT ![p] = InsertGate(@, Len(c[p]), n.mask)]
      OBVIOUS
    <3>3. p \in PreheaderOf(g, n.head) /\ \A t \in traces : t.head # n.head
      BY <2>2, <2>3, <2>4
    <3>4. Covers(c, n)
      BY <2>4
    <3> HIDE DEF c, d
    <3> QED
      BY <2>2, <2>4, <3>1, <3>2, <3>3, <3>4, LoopStage
  <2> HIDE DEF d
  <2>8. Gated(e, g, T)
    <3>1. n \in T /\ \A t \in T \ {n} : Regated(d, g, t)
      BY <2>7
    <3> HIDE DEF T, e
    <3>2. e = [b \in Blocks |-> IF LeadsOff(g, n, b) THEN InsertGate(d[b], 1, AllOn) ELSE d[b]]
      BY DEF e
    <3> QED
      BY <2>2, <2>4, <2>7, <3>1, <3>2, FrontStage
  <2>9. Coded(e) /\ e \in [Blocks -> Codes]
    BY <2>8, CodeTyped DEF Gated
  <2> HIDE DEF e
  <2>10. /\ func'.succ = g /\ func'.code = e
         /\ func' \in [succ : FlowGraphs, bb : [Blocks -> Blocks], code : [Blocks -> Codes]]
    BY <2>2, <2>5, <2>9 DEF Placed, g
  <2> QED
    BY <2>1, <2>6, <2>8, <2>10 DEF Placed
<1> QED
  BY <1>1, <1>2

(* ... or of a function without loops. *)
LEMMA PlacedAcyclic ==
  ASSUME Placed, Planned, OptimizeAcyclic
  PROVE  Placed'
<1> DEFINE g == func.succ
           n == NewTrace
           T == {n}
           d == [func.code EXCEPT ![Entry] = InsertGate(@, 1, n.mask)]
           e == [b \in Blocks |-> IF LeadsOff(g, n, b) THEN InsertGate(d[b], 1, AllOn) ELSE d[b]]
<1>2. g \in FlowGraphs /\ phase = "trace" /\ Acyclic(g) /\ traces = {} /\ trace[1] = Entry
  <2>1. g \in FlowGraphs /\ phase = "trace" /\ Acyclic(g)
    BY LoopsAre DEF OptimizeAcyclic
  <2> QED
    BY <2>1 DEF Planned, Growing
<1>1. func' = Optimized(func, trace, Entry, 1) /\ traces' = T /\ UNCHANGED loops
  BY <1>2 DEF OptimizeAcyclic, NewTrace
<1>3. Entry \in Blocks
  BY EntryAssumption
<1>4. /\ n.blocks = Range(trace) /\ n.mask = TraceMask(func, trace)
      /\ Traced(g, T) /\ Covers(func.code, n) /\ trace \in Seq(Blocks)
  <2>1. T = traces \cup {n}
    BY <1>2
  <2> QED
    BY <1>2, <2>1, NewTraceIs
<1>5. func' = [func EXCEPT !.code = e]
  BY <1>1, <1>3, <1>4, OptimizedIs
<1>6. Gated(func.code, g, {}) /\ loops = LoopInfo(g)
  BY <1>2 DEF Placed
<1> HIDE DEF n, g
<1>7. Coded(d) /\ GatesKnown(d, g, T) /\ Covers(d, n) /\ LoopGated(d, g, n)
  <2> DEFINE c == func.code
  <2>1. Gated(c, g, {}) /\ Covers(c, n) /\ Traced(g, {n})
    BY <1>4, <1>6
  <2>2. d = [c EXCEPT ![Entry] = InsertGate(@, 1, n.mask)]
    OBVIOUS
  <2> HIDE DEF c, d
  <2> QED
    BY <1>2, <2>1, <2>2, AcyclicStage
<1> HIDE DEF d
<1>8. Gated(e, g, T)
  <2>1. n \in T /\ T \ {n} = {} /\ \A t \in T : Covers(d, t) /\ LoopGated(d, g, t)
    BY <1>7
  <2>2. \A t \in T \ {n} : Regated(d, g, t)
    BY <2>1
  <2> HIDE DEF T, e
  <2>3. e = [b \in Blocks |-> IF LeadsOff(g, n, b) THEN InsertGate(d[b], 1, AllOn) ELSE d[b]]
    BY DEF e
  <2> QED
    BY <1>2, <1>4, <1>7, <2>1, <2>2, <2>3, FrontStage
<1>9. Coded(e) /\ e \in [Blocks -> Codes]
  BY <1>8, CodeTyped DEF Gated
<1> HIDE DEF e
<1>10. /\ func'.succ = g /\ func'.code = e
       /\ func' \in [succ : FlowGraphs, bb : [Blocks -> Blocks], code : [Blocks -> Codes]]
  BY <1>2, <1>5, <1>9 DEF Placed, g
<1> QED
  BY <1>1, <1>6, <1>8, <1>10 DEF Placed

(* The instructions of code that the pass has not touched. *)
Ordinary == [kind : {"op", "call"}, units : SUBSET Units]

LEMMA PlacedInit ==
  ASSUME Init
  PROVE  Placed /\ Planned
<1> DEFINE Plain == Seq(Ordinary)
<1>1. /\ func \in [succ : FlowGraphs, bb : [Blocks -> Blocks], code : [Blocks -> Plain]]
      /\ \A b \in Blocks : func.code[b] # <<>>
  BY FunctionsAssumption DEF Init, Compiled, FlowGraphs, Ordinary
<1>2. ASSUME NEW s \in Plain
      PROVE  s \in Codes /\ \A i \in 1..Len(s) : s[i].kind # "gate"
  <2>0. \A i \in 1..Len(s) : s[i] \in Ordinary
    OBVIOUS
  <2>1. \A i \in 1..Len(s) : s[i] \in Instructions /\ s[i].kind # "gate"
    <3>1. \A e \in Ordinary : e \in Instructions /\ e.kind # "gate"
      BY DEF Instructions, Ordinary
    <3> HIDE DEF Plain
    <3> QED
      BY <2>0, <3>1
  <2>2. Len(s) \in Nat /\ s = [i \in 1..Len(s) |-> s[i]]
    OBVIOUS
  <2> HIDE DEF Plain
  <2>3. s \in [1..Len(s) -> Instructions]
    BY <2>1, <2>2
  <2> QED
    BY <2>1, <2>2, <2>3, SeqDef DEF Codes
<1>3. Coded(func.code) /\ func.code \in [Blocks -> Codes]
  <2>1. func.code \in [Blocks -> Plain]
    BY <1>1
  <2> HIDE DEF Plain
  <2>2. ASSUME NEW b \in Blocks
        PROVE  func.code[b] \in Codes /\ func.code[b][Len(func.code[b])].kind # "gate"
    <3>1. func.code[b] \in Plain /\ func.code[b] \in Codes /\ func.code[b] # <<>>
      BY <1>1, <1>2, <2>1
    <3>2. Len(func.code[b]) \in 1..Len(func.code[b])
      BY <3>1, EmptySeq DEF Codes
    <3> QED
      BY <1>2, <3>1, <3>2
  <2> QED
    BY <1>1, <2>1, <2>2 DEF Coded
<1>4. GatesKnown(func.code, func.succ, {})
  <2>1. \A b \in Blocks : func.code[b] \in Plain
    BY <1>1
  <2> HIDE DEF Plain
  <2> QED
    BY <1>2, <2>1 DEF GatesKnown
<1>5. Gated(func.code, func.succ, {})
  BY <1>3, <1>4 DEF Gated, Traced
<1>6. Placed
  BY <1>1, <1>3, <1>5 DEF Placed, Init
<1> QED
  BY <1>6 DEF Planned, Init

LEMMA PlacedNext ==
  ASSUME Placed, Planned, [Next]_vars
  PROVE  Placed'
<1>1. CASE OptimizeLoop
  BY <1>1, PlacedLoop
<1>2. CASE OptimizeAcyclic
  BY <1>2, PlacedAcyclic
<1>3. CASE UNCHANGED <<func, loops, traces>>
  BY <1>3 DEF Placed
<1> QED
  BY <1>1, <1>2, <1>3 DEF Next, vars, StartTrace, ExtendTrace, Run, Execute, Branch, Return

LEMMA PlannedNext ==
  ASSUME Placed, Planned, [Next]_vars
  PROVE  Planned'
<1>0. /\ func.succ \in FlowGraphs /\ (NoLoops <=> Acyclic(func.succ))
      /\ DOMAIN loops = Headers(func.succ)
      /\ \A h \in Headers(func.succ) : loops[h] = LoopBlocks(func.succ, h)
      /\ Innermost(loops) \subseteq Headers(func.succ) /\ loops = LoopInfo(func.succ)
  BY LoopsAre DEF Placed
<1>1. CASE StartTrace
  <2>1. UNCHANGED <<func, loops, traces>> /\ phase' = "trace"
    BY <1>1 DEF StartTrace
  <2>2. CASE \E h \in todo : trace' = <<h>> /\ todo' = todo \ {h}
    <3>1. PICK h \in todo : trace' = <<h>> /\ todo' = todo \ {h}
      BY <2>2
    <3>2. h \in Innermost(loops) /\ h \in Headers(func.succ) /\ h \in LoopBlocks(func.succ, h)
      BY <1>0, LoopTypes DEF Planned
    <3>3. h \in Blocks /\ ~Acyclic(func.succ)
      BY <1>0, <3>2, LoopTypes DEF Acyclic
    <3>4. <<h>> \in Seq(Blocks) /\ <<h>> # <<>> /\ <<h>>[1] = h
      BY <3>3
    <3>5. Range(<<h>>) \subseteq {h}
      BY DEF Range
    <3>6. Growing'
      BY <2>1, <3>1, <3>2, <3>3, <3>4, <3>5 DEF Growing, Planned
    <3> QED
      BY <2>1, <3>1, <3>4, <3>6 DEF Planned
  <2>3. CASE NoLoops /\ traces = {} /\ trace' = <<Entry>> /\ UNCHANGED todo
    <3>1. <<Entry>> \in Seq(Blocks) /\ <<Entry>> # <<>> /\ <<Entry>>[1] = Entry
      BY EntryAssumption
    <3>2. Growing'
      BY <1>0, <2>1, <2>3, <3>1 DEF Growing
    <3> QED
      BY <2>1, <2>3, <3>1, <3>2 DEF Planned
  <2> QED
    BY <1>1, <2>2, <2>3 DEF StartTrace
<1>2. CASE ExtendTrace
  <2>1. /\ UNCHANGED <<func, loops, phase, todo, traces>>
        /\ phase = "trace" /\ trace \in Seq(Blocks) /\ Growing
    BY <1>2 DEF ExtendTrace, Planned
  <2>2. PICK b \in Candidates(func, trace, Allowable(trace)) : trace' = Append(trace, b)
    BY <1>2 DEF ExtendTrace
  <2>3. b \in Allowable(trace)
    BY <2>2 DEF Candidates
  <2>4. b \in Blocks /\ (~Acyclic(func.succ) => b \in LoopBlocks(func.succ, trace[1]))
    <3>1. CASE Acyclic(func.succ)
      BY <1>0, <2>3, <3>1 DEF Allowable
    <3>2. CASE ~Acyclic(func.succ)
      <4>1. trace[1] \in Headers(func.succ)
        BY <1>0, <2>1, <3>2 DEF Growing
      <4>2. b \in LoopBlocks(func.succ, trace[1])
        BY <1>0, <2>3, <3>2, <4>1 DEF Allowable
      <4> QED
        BY <1>0, <4>1, <4>2, LoopTypes, LiveFacts
    <3> QED
      BY <3>1, <3>2
  <2>5. /\ trace' \in Seq(Blocks) /\ Range(trace') = Range(trace) \cup {b}
        /\ trace' # <<>> /\ trace'[1] = trace[1]
    BY <2>1, <2>2, <2>4, RangeOf DEF Growing
  <2>6. Growing'
    BY <2>1, <2>4, <2>5 DEF Growing
  <2> QED
    BY <2>1, <2>5, <2>6 DEF Planned
<1>3. CASE OptimizeLoop
  <2>1. /\ phase = "trace" /\ ~Acyclic(func.succ) /\ UNCHANGED <<loops, todo>>
        /\ phase' \in {"pass", "crashed"} /\ trace' = <<>>
        /\ traces' \in {traces, traces \cup {NewTrace}}
    BY <1>0, <1>3 DEF OptimizeLoop, NewTrace
  <2>2. NewTrace.head = trace[1] /\ trace[1] \notin todo
    BY <2>1, NewTraceIs DEF Planned, Growing
  <2>3. \A t \in traces' : t.head \notin todo
    BY <2>1, <2>2 DEF Planned
  <2> QED
    BY <2>1, <2>3 DEF Planned
<1>4. CASE OptimizeAcyclic
  <2>1. Acyclic(func.succ) /\ UNCHANGED <<loops, todo>> /\ phase' = "pass" /\ trace' = <<>>
    BY <1>0, <1>4 DEF OptimizeAcyclic
  <2>2. Acyclic(func'.succ)
    BY <1>4, <2>1 DEF OptimizeAcyclic, Optimized, Placed
  <2> QED
    BY <2>1, <2>2 DEF Planned
<1>5. CASE Run \/ Execute \/ Branch \/ Return \/ UNCHANGED vars
  BY <1>5 DEF Planned, Growing, Run, Execute, Branch, Return, vars, running
<1> QED
  BY <1>1, <1>2, <1>3, <1>4, <1>5 DEF Next

(***************************************************************************)
(* The run of the code                                                     *)
(***************************************************************************)

(* Where the run may be with which units on: everything is on, or another  *)
(* function's mask is in force, or it is on a trace under its mask, or     *)
(* about to execute a gate, or at the end of the gated preheader of a loop.*)
MaskKnown ==
  \/ mask = AllOn
  \/ foreign
  \/ \E t \in traces : block \in t.blocks /\ mask = t.mask
  \/ index = 1 /\ func.code[block][1].kind = "gate"
  \/ /\ ~Acyclic(func.succ) /\ index >= Len(func.code[block])
     /\ \E t \in traces : block \in PreheaderOf(func.succ, t.head) /\ mask = t.mask

(* Past the gate in a preheader, the mask is that of the loop's trace, or  *)
(* of a function called there.                                             *)
AtLoop ==
  (phase = "run" /\ ~Acyclic(func.succ)) =>
    \A t \in traces :
      (block \in PreheaderOf(func.succ, t.head) /\ index >= Len(func.code[block]))
        => mask = t.mask \/ foreign

Running ==
  /\ phase \in {"pass", "trace", "crashed"} => block = Entry /\ index = 1 /\ mask = AllOn
  /\ block \in Live(func.succ) /\ index \in Nat \ {0} /\ mask \in SUBSET Units
  /\ foreign \in BOOLEAN
  /\ MaskKnown /\ AtLoop

IInv == Placed /\ Planned /\ Running

(* The facts of Placed about the code, block by block. *)
LEMMA PlacedIs ==
  ASSUME Placed
  PROVE  /\ func.succ \in FlowGraphs /\ loops = LoopInfo(func.succ)
         /\ Coded(func.code) /\ GatesKnown(func.code, func.succ, traces)
         /\ Traced(func.succ, traces)
         /\ \A t \in traces : /\ Covers(func.code, t) /\ Regated(func.code, func.succ, t)
                              /\ LoopGated(func.code, func.succ, t)
         /\ Live(func.succ) \subseteq Blocks
BY LiveFacts DEF Placed, Gated

(* The preheader of a loop that has been optimized: it is the only block   *)
(* that enters the loop, and its last but one instruction is the gate.     *)
LEMMA OptimizedPreheader ==
  ASSUME Placed, ~Acyclic(func.succ), NEW t \in traces
  PROVE  /\ \E p : PreheaderOf(func.succ, t.head) = {p} /\ Entering(func.succ, t.head) = {p}
         /\ \A p \in PreheaderOf(func.succ, t.head) :
              /\ p \in Blocks /\ p \in Live(func.succ) /\ p \notin LoopBlocks(func.succ, t.head)
              /\ func.succ[p] = {t.head}
              /\ Len(func.code[p]) \in Nat /\ Len(func.code[p]) >= 2
              /\ func.code[p][Len(func.code[p]) - 1] = Gate(t.mask)
<1>1. PICK p \in PreheaderOf(func.succ, t.head) :
        Len(func.code[p]) >= 2 /\ func.code[p][Len(func.code[p]) - 1] = Gate(t.mask)
  BY PlacedIs DEF LoopGated
<1>2. /\ p \in Blocks /\ p \in Live(func.succ) /\ p \notin LoopBlocks(func.succ, t.head)
      /\ func.succ[p] = {t.head}
      /\ PreheaderOf(func.succ, t.head) = {p} /\ Entering(func.succ, t.head) = {p}
  BY PlacedIs, PreheaderIs
<1>3. Len(func.code[p]) \in Nat
  BY <1>2, PlacedIs, CodedIs
<1> QED
  BY <1>1, <1>2, <1>3

(* A trace belongs to one innermost loop, in which no other trace runs and *)
(* which holds no preheader.                                               *)
LEMMA TraceIs ==
  ASSUME Placed, NEW t \in traces
  PROVE  /\ t.head \in t.blocks /\ t.blocks \subseteq Blocks /\ t.mask \in SUBSET Units
         /\ Acyclic(func.succ) => t.head = Entry
         /\ ~Acyclic(func.succ) =>
              /\ t.head \in Innermost(LoopInfo(func.succ)) /\ t.head \in Headers(func.succ)
              /\ t.blocks \subseteq LoopBlocks(func.succ, t.head)
         /\ \A u \in traces : \A b : b \in t.blocks /\ b \in u.blocks => u = t
         /\ \A u \in traces : ~Acyclic(func.succ) =>
              t.blocks \cap PreheaderOf(func.succ, u.head) = {}
<1>1. /\ func.succ \in FlowGraphs
      /\ \A u \in traces :
           /\ u.head \in u.blocks /\ u.mask \in SUBSET Units /\ u.blocks \in SUBSET Blocks
           /\ IF Acyclic(func.succ) THEN u.head = Entry
              ELSE /\ u.head \in Innermost(LoopInfo(func.succ))
                   /\ u.blocks \subseteq LoopBlocks(func.succ, u.head)
      /\ \A u, v \in traces : u.head = v.head => u = v
  BY PlacedIs DEF Traced
<1>2. ~Acyclic(func.succ) => \A u \in traces : u.head \in Headers(func.succ)
  BY <1>1, LoopTypes
<1>3. ASSUME NEW u \in traces, NEW b, b \in t.blocks, b \in u.blocks
      PROVE  u = t
  <2>1. CASE Acyclic(func.succ)
    BY <1>1, <2>1
  <2>2. CASE ~Acyclic(func.succ)
    <3>1. /\ t.head \in Innermost(LoopInfo(func.succ)) /\ u.head \in Innermost(LoopInfo(func.succ))
          /\ b \in LoopBlocks(func.succ, t.head) /\ b \in LoopBlocks(func.succ, u.head)
      BY <1>1, <1>3, <2>2
    <3>2. t.head = u.head
      BY <1>1, <3>1, InnermostDisjoint
    <3> QED
      BY <1>1, <3>2
  <2> QED
    BY <2>1, <2>2
<1>4. ASSUME NEW u \in traces, ~Acyclic(func.succ),
             NEW p \in t.blocks, p \in PreheaderOf(func.succ, u.head)
      PROVE  FALSE
  <2>1. /\ p \in Live(func.succ) /\ p \notin LoopBlocks(func.succ, u.head)
        /\ func.succ[p] = {u.head}
    BY <1>1, <1>4, PreheaderIs
  <2>2. p \notin LoopBlocks(func.succ, t.head)
    BY <1>1, <1>2, <1>4, <2>1, PreheaderAlone
  <2> QED
    BY <1>1, <1>4, <2>2
<1> QED
  BY <1>1, <1>2, <1>3, <1>4

(* The code under the run. *)
LEMMA CodeHere ==
  ASSUME IInv
  PROVE  /\ block \in Blocks /\ Len(func.code[block]) \in Nat \ {0} /\ index \in Nat \ {0}
         /\ func.code[block][Len(func.code[block])].kind # "gate"
         /\ index <= Len(func.code[block]) =>
              index \in 1..Len(func.code[block]) /\ Current \in Instructions
<1>1. block \in Blocks /\ index \in Nat \ {0} /\ Coded(func.code)
  BY PlacedIs DEF IInv, Running
<1> QED
  BY <1>1, CodedIs DEF Current

LEMMA RunningInit ==
  ASSUME Init, Placed, Planned
  PROVE  Running
<1>1. Entry \in Live(func.succ)
  BY PlacedIs, LiveFacts
<1>2. /\ phase = "pass" /\ block = Entry /\ index = 1 /\ mask = Units
      /\ foreign \in BOOLEAN
  BY DEF Init, AllOn
<1> QED
  BY <1>1, <1>2 DEF Running, MaskKnown, AtLoop, AllOn

(* While the pass runs the code does not. *)
LEMMA RunningPass ==
  ASSUME IInv, Placed', UNCHANGED running, phase \in {"pass", "trace"},
         phase' \in {"pass", "trace", "crashed"}
  PROVE  Running'
<1>1. block' = Entry /\ index' = 1 /\ mask' = Units /\ foreign' \in BOOLEAN
  BY DEF IInv, Running, running, AllOn
<1>2. Entry \in Live(func'.succ)
  <2>1. func'.succ \in FlowGraphs
    BY DEF Placed
  <2> QED
    BY <2>1, LiveFacts
<1> QED
  BY <1>1, <1>2 DEF Running, MaskKnown, AtLoop, AllOn

LEMMA RunningRun ==
  ASSUME IInv, Run
  PROVE  Running'
<1>1. /\ UNCHANGED <<func, traces, block, index>> /\ phase' = "run"
      /\ index = 1 /\ mask = AllOn /\ Placed /\ block \in Live(func.succ)
      /\ foreign \in BOOLEAN
      /\ \/ mask' = mask /\ foreign' = foreign
         \/ mask' \in SUBSET Units /\ foreign' = TRUE
  BY MasksAssumption DEF Run, IInv, Running
<1>3. MaskKnown' /\ foreign' \in BOOLEAN /\ mask' \in SUBSET Units
  BY <1>1 DEF MaskKnown, AllOn
<1>2. AtLoop'
  <2> SUFFICES ASSUME ~Acyclic(func.succ), NEW t \in traces,
                      block \in PreheaderOf(func.succ, t.head), index >= Len(func.code[block])
               PROVE  FALSE
    BY <1>1 DEF AtLoop
  <2> QED
    BY <1>1, OptimizedPreheader
<1> QED
  BY <1>1, <1>2, <1>3 DEF Running

(* An instruction executed under a known mask leaves a known mask. *)
LEMMA RunningExecute ==
  ASSUME IInv, Execute
  PROVE  Running'
<1> DEFINE g == func.succ
           n == Len(func.code[block])
<1>1. /\ UNCHANGED <<func, traces, block>> /\ phase = "run" /\ phase' = "run"
      /\ index' = index + 1 /\ index <= n
      /\ Current.kind = "gate" => mask' = Current.units /\ foreign' = FALSE
      /\ Current.kind # "gate" =>
           \/ mask' = mask /\ foreign' = foreign
           \/ mask' \in SUBSET Units /\ foreign' = TRUE
  BY MasksAssumption DEF Execute, ExecuteGate, CalleeGates
<1>2. /\ block \in Blocks /\ n \in Nat \ {0} /\ index \in 1..n /\ index \in Nat
      /\ Current \in Instructions /\ Current = func.code[block][index]
      /\ func.code[block][n].kind # "gate"
  BY <1>1, CodeHere DEF Current
<1>3. /\ block \in Live(g) /\ mask \in SUBSET Units /\ foreign \in BOOLEAN
      /\ MaskKnown /\ AtLoop /\ Placed
  BY DEF IInv, Running
<1>4. mask' \in SUBSET Units /\ foreign' \in BOOLEAN
  BY <1>1, <1>2, <1>3 DEF Instructions
<1> HIDE DEF n
<1>5. MaskKnown'
  <2>1. CASE Current.kind = "gate"
    <3>1. \/ index = 1 /\ Current.units = AllOn /\ \E t \in traces : LeadsOff(g, t, block)
          \/ \E t \in traces : GateOf(func.code, g, block, index, t)
      BY <1>2, <1>3, <2>1, PlacedIs DEF GatesKnown, n
    <3>2. CASE Current.units = AllOn
      BY <1>1, <2>1, <3>2 DEF MaskKnown
    <3>3. CASE \E t \in traces : GateOf(func.code, g, block, index, t)
      <4>1. PICK t \in traces : GateOf(func.code, g, block, index, t)
        BY <3>3
      <4>2. t.mask \in SUBSET Units /\ t.head \in t.blocks /\ (Acyclic(g) => t.head = Entry)
        BY <1>3, TraceIs
      <4>3. mask' = t.mask
        BY <1>1, <1>2, <2>1, <4>1, <4>2, GateTyped DEF GateOf
      <4>4. CASE Acyclic(g)
        BY <1>1, <4>1, <4>2, <4>3, <4>4 DEF GateOf, MaskKnown
      <4>5. CASE ~Acyclic(g)
        <5>1. block \in PreheaderOf(g, t.head) /\ index' >= n
          BY <1>1, <1>2, <4>1, <4>5 DEF GateOf, n
        <5> QED
          BY <1>1, <4>3, <4>5, <5>1 DEF MaskKnown, n
      <4> QED
        BY <4>4, <4>5
    <3> QED
      BY <3>1, <3>2, <3>3
  <2>2. CASE Current.kind # "gate" /\ foreign' = TRUE
    BY <2>2 DEF MaskKnown
  <2>3. CASE Current.kind # "gate" /\ mask' = mask /\ foreign' = foreign
    <3>1. index >= n => index' >= n
      BY <1>1, <1>2
    <3>2. ~(index = 1 /\ func.code[block][1].kind = "gate")
      BY <1>2, <2>3
    <3> QED
      BY <1>1, <1>3, <2>3, <3>1, <3>2 DEF MaskKnown, n
  <2> QED
    BY <1>1, <2>1, <2>2, <2>3
<1>6. AtLoop'
  <2> SUFFICES ASSUME ~Acyclic(g), NEW t \in traces,
                      block \in PreheaderOf(g, t.head), index' >= n
               PROVE  mask' = t.mask \/ foreign'
    BY <1>1 DEF AtLoop, n
  <2>1. func.code[block][n - 1] = Gate(t.mask) /\ t.mask \in SUBSET Units
    BY <1>3, OptimizedPreheader, TraceIs DEF n
  <2>2. index = n - 1 \/ index = n
    BY <1>1, <1>2
  <2>3. CASE index = n - 1
    BY <1>1, <1>2, <2>1, <2>3, GateTyped
  <2>4. CASE index = n
    <3>1. (mask' = mask /\ foreign' = foreign) \/ foreign'
      BY <1>1, <1>2, <2>4
    <3>2. index >= n
      BY <1>2, <2>4
    <3> QED
      BY <1>1, <1>3, <3>1, <3>2 DEF AtLoop, n
  <2> QED
    BY <2>2, <2>3, <2>4
<1>7. index' \in Nat \ {0}
  BY <1>1, <1>2
<1> QED
  BY <1>1, <1>3, <1>4, <1>5, <1>6, <1>7 DEF Running

(* A branch taken from a known mask: it stays on the trace, leaves it for  *)
(* a block that starts with a gate, or enters a loop from its preheader.   *)
LEMMA RunningBranch ==
  ASSUME IInv, Branch
  PROVE  Running'
<1> DEFINE g == func.succ
<1>1. /\ UNCHANGED <<func, traces, mask, foreign>> /\ phase = "run" /\ phase' = "run"
      /\ index' = 1 /\ index > Len(func.code[block]) /\ block' \in g[block]
  BY DEF Branch
<1>2. /\ block \in Blocks /\ Len(func.code[block]) \in Nat \ {0} /\ index \in Nat \ {0}
  BY CodeHere
<1>3. /\ block \in Live(g) /\ mask \in SUBSET Units /\ foreign \in BOOLEAN
      /\ MaskKnown /\ Placed
  BY DEF IInv, Running
<1>4. block' \in Live(g) /\ block' \in Blocks
  BY <1>1, <1>3, PlacedIs, LiveFacts
<1>5. MaskKnown'
  <2>1. CASE mask = AllOn \/ foreign
    BY <1>1, <2>1 DEF MaskKnown
  <2>2. CASE \E t \in traces : block \in t.blocks /\ mask = t.mask
    <3>1. PICK t \in traces : block \in t.blocks /\ mask = t.mask
      BY <2>2
    <3>2. CASE block' \in t.blocks
      BY <1>1, <3>1, <3>2 DEF MaskKnown
    <3>3. CASE block' \notin t.blocks
      <4>1. LeadsOff(g, t, block')
        BY <1>1, <3>1, <3>3 DEF LeadsOff
      <4>2. Regated(func.code, g, t)
        BY <1>3, PlacedIs
      <4>3. func.code[block'][1].kind = "gate"
        BY <1>4, <4>1, <4>2 DEF Regated
      <4> QED
        BY <1>1, <4>3 DEF MaskKnown
    <3> QED
      BY <3>2, <3>3
  <2>3. CASE ~Acyclic(g) /\ \E t \in traces : block \in PreheaderOf(g, t.head) /\ mask = t.mask
    <3>1. PICK t \in traces : block \in PreheaderOf(g, t.head) /\ mask = t.mask
      BY <2>3
    <3>2. g[block] = {t.head} /\ t.head \in t.blocks
      BY <1>3, <2>3, <3>1, OptimizedPreheader, TraceIs
    <3>3. block' \in t.blocks
      BY <1>1, <3>2
    <3> QED
      BY <1>1, <3>1, <3>3 DEF MaskKnown
  <2>4. index # 1
    BY <1>1, <1>2
  <2> QED
    BY <1>3, <2>1, <2>2, <2>3, <2>4 DEF MaskKnown
<1>6. AtLoop'
  <2> SUFFICES ASSUME ~Acyclic(g), NEW t \in traces,
                      block' \in PreheaderOf(g, t.head), 1 >= Len(func.code[block'])
               PROVE  FALSE
    BY <1>1 DEF AtLoop
  <2> QED
    BY <1>3, OptimizedPreheader
<1> QED
  BY <1>1, <1>3, <1>4, <1>5, <1>6 DEF Running

LEMMA IInvInit ==
  ASSUME Init
  PROVE  IInv
BY PlacedInit, RunningInit DEF IInv

LEMMA IInvNext ==
  ASSUME IInv, [Next]_vars
  PROVE  IInv'
<1>1. Placed' /\ Planned'
  BY PlacedNext, PlannedNext DEF IInv
<1>2. Running'
  <2>1. CASE StartTrace \/ ExtendTrace \/ OptimizeLoop \/ OptimizeAcyclic
    <3>1. /\ UNCHANGED running /\ phase \in {"pass", "trace"}
          /\ phase' \in {"pass", "trace", "crashed"}
      BY <2>1 DEF StartTrace, ExtendTrace, OptimizeLoop, OptimizeAcyclic
    <3> QED
      BY <1>1, <3>1, RunningPass
  <2>2. CASE Run
    BY <2>2, RunningRun
  <2>3. CASE Execute
    BY <2>3, RunningExecute
  <2>4. CASE Branch
    BY <2>4, RunningBranch
  <2>5. CASE Return
    BY <2>5 DEF Return, running, IInv, Running, MaskKnown, AtLoop
  <2>6. CASE UNCHANGED vars
    BY <2>6 DEF vars, running, IInv, Running, MaskKnown, AtLoop
  <2> QED
    BY <2>1, <2>2, <2>3, <2>4, <2>5, <2>6 DEF Next
<1> QED
  BY <1>1, <1>2 DEF IInv

LEMMA Invariant == Spec => []IInv
<1>1. Init => IInv
  BY IInvInit
<1>2. IInv /\ [Next]_vars => IInv'
  BY IInvNext
<1> QED
  BY <1>1, <1>2, PTL DEF Spec

LEMMA IInvTypes ==
  ASSUME IInv
  PROVE  TypeOK
<1>1. /\ func.succ \in [Blocks -> SUBSET Blocks]
      /\ phase \in {"pass", "trace", "run", "done", "crashed"} /\ trace \in Seq(Blocks)
      /\ todo \subseteq Innermost(loops) /\ mask \subseteq Units /\ foreign \in BOOLEAN
  BY DEF IInv, Placed, Planned, Running, FlowGraphs
<1>2. Placed /\ func.succ \in FlowGraphs
  BY PlacedIs DEF IInv
<1>3. \A b \in Blocks : \A ins \in Range(func.code[b]) : ins.units \subseteq Units
  <2> SUFFICES ASSUME NEW b \in Blocks, NEW ins \in Range(func.code[b])
               PROVE  ins.units \subseteq Units
    OBVIOUS
  <2>1. func.code[b] \in Seq(Instructions)
    BY <1>2, PlacedIs DEF Coded, Codes
  <2>2. ins \in Instructions
    BY <2>1, RangeOf
  <2> QED
    BY <2>2 DEF Instructions
<1>4. /\ DOMAIN loops \subseteq Blocks /\ Innermost(loops) \subseteq DOMAIN loops
      /\ \A h \in DOMAIN loops : loops[h] \subseteq Blocks
  <2>1. /\ DOMAIN loops = Headers(func.succ) /\ Innermost(loops) \subseteq Headers(func.succ)
        /\ \A h \in Headers(func.succ) : loops[h] = LoopBlocks(func.succ, h)
    BY <1>2, LoopsAre
  <2>2. /\ Headers(func.succ) \subseteq Blocks /\ Live(func.succ) \subseteq Blocks
        /\ \A h \in Headers(func.succ) : LoopBlocks(func.succ, h) \subseteq Live(func.succ)
    BY <1>2, LoopTypes, LiveFacts
  <2> QED
    BY <2>1, <2>2
<1>5. \A t \in traces : t.head \in t.blocks /\ t.blocks \subseteq Blocks /\ t.mask \subseteq Units
  BY <1>2, TraceIs
<1>6. block \in Blocks /\ index \in Nat \ {0}
  BY CodeHere
<1> QED
  BY <1>1, <1>3, <1>4, <1>5, <1>6 DEF TypeOK

(* An instruction other than a gate is executed with everything on, under  *)
(* another function's mask, on a trace under its mask, or as the last of a *)
(* gated preheader.                                                        *)
LEMMA OrdinaryMask ==
  ASSUME IInv, AtOrdinary
  PROVE  \/ mask = AllOn
         \/ foreign
         \/ \E t \in traces : block \in t.blocks /\ mask = t.mask
         \/ /\ ~Acyclic(func.succ) /\ BehindLoopGate
            /\ \E t \in traces : block \in PreheaderOf(func.succ, t.head)
<1>1. /\ index <= Len(func.code[block]) /\ func.code[block][index].kind # "gate"
      /\ Len(func.code[block]) \in Nat /\ index \in Nat
  BY CodeHere DEF AtOrdinary, AtInstruction, Current
<1>2. ASSUME ~Acyclic(func.succ), index >= Len(func.code[block]),
             NEW t \in traces, block \in PreheaderOf(func.succ, t.head)
      PROVE  BehindLoopGate
  <2>1. index = Len(func.code[block])
    BY <1>1, <1>2
  <2>2. Placed /\ t.head \in Headers(func.succ) /\ ~NoLoops
    BY <1>2, TraceIs, LoopsAre DEF IInv
  <2>3. block \in Preheader(func.succ, t.head)
    BY <1>2, <2>2, LoopsAre
  <2> QED
    BY <2>1, <2>2, <2>3 DEF BehindLoopGate
<1> QED
  BY <1>1, <1>2 DEF IInv, Running, MaskKnown

LEMMA IInvStarved ==
  ASSUME IInv
  PROVE  StarvedWhereKnown
<1> SUFFICES ASSUME AtOrdinary, ~foreign, ~BehindLoopGate PROVE Current.units \subseteq mask
  BY DEF StarvedWhereKnown, Starved
<1>1. /\ index \in 1..Len(func.code[block]) /\ Current \in Instructions
      /\ Current.kind # "gate" /\ Current = func.code[block][index]
  BY CodeHere DEF AtOrdinary, AtInstruction, Current
<1>2. Placed
  BY DEF IInv
<1>3. CASE mask = AllOn
  BY <1>1, <1>3 DEF AllOn, Instructions
<1>4. CASE \E t \in traces : block \in t.blocks /\ mask = t.mask
  <2>1. PICK t \in traces : block \in t.blocks /\ mask = t.mask
    BY <1>4
  <2>2. Covers(func.code, t)
    BY <1>2, PlacedIs
  <2> QED
    BY <1>1, <2>1, <2>2 DEF Covers
<1> QED
  BY <1>3, <1>4, OrdinaryMask

LEMMA IInvOffTrace ==
  ASSUME IInv
  PROVE  OffTraceAllOn
BY OrdinaryMask DEF OffTraceAllOn

LEMMA IInvTraceMask ==
  ASSUME IInv
  PROVE  TraceHoldsMask
<1> SUFFICES ASSUME NEW t \in traces, AtOrdinary, block \in t.blocks, ~foreign
             PROVE  mask \in {t.mask, AllOn}
  BY DEF TraceHoldsMask
<1>1. Placed
  BY DEF IInv
<1>2. CASE \E u \in traces : block \in u.blocks /\ mask = u.mask
  BY <1>1, <1>2, TraceIs
<1>3. CASE ~Acyclic(func.succ) /\ \E u \in traces : block \in PreheaderOf(func.succ, u.head)
  BY <1>1, <1>3, TraceIs
<1> QED
  BY <1>2, <1>3, OrdinaryMask

LEMMA StepLoopEntry ==
  ASSUME IInv, [Next]_vars, NEW t \in traces,
         phase = "run", ~NoLoops, block \notin loops[t.head], block' = t.head
  PROVE  mask' = t.mask \/ foreign
<1> DEFINE g == func.succ
<1>1. /\ Placed /\ ~Acyclic(g) /\ t.head \in Headers(g) /\ loops[t.head] = LoopBlocks(g, t.head)
      /\ t.head \in LoopBlocks(g, t.head)
  <2>1. Placed /\ g \in FlowGraphs
    BY PlacedIs DEF IInv
  <2>2. ~Acyclic(g)
    BY <2>1, LoopsAre
  <2>3. t.head \in Headers(g)
    BY <2>1, <2>2, TraceIs
  <2> QED
    BY <2>1, <2>2, <2>3, LoopsAre, LoopTypes
<1>2. block # block'
  BY <1>1
<1>3. Branch
  BY <1>2 DEF Next, vars, running, StartTrace, ExtendTrace, OptimizeLoop, OptimizeAcyclic,
              Run, Execute, Return
<1>4. block' \in g[block] /\ mask' = mask /\ index > Len(func.code[block])
  BY <1>3 DEF Branch
<1>5. block \in Live(g) /\ AtLoop /\ index \in Nat /\ Len(func.code[block]) \in Nat
  BY CodeHere DEF IInv, Running
<1>6. block \in Entering(g, t.head)
  BY <1>1, <1>4, <1>5 DEF Entering
<1>7. block \in PreheaderOf(g, t.head)
  BY <1>1, <1>6, OptimizedPreheader
<1>8. index >= Len(func.code[block])
  BY <1>4, <1>5
<1> QED
  BY <1>1, <1>4, <1>5, <1>7, <1>8 DEF AtLoop

(* A block of a trace of a loop holds no gate: the trace's own is in the   *)
(* preheader, and no trace of another loop leads into this one.            *)
LEMMA TraceBlockHasNoGate ==
  ASSUME Placed, ~Acyclic(func.succ), NEW t \in traces, NEW b \in t.blocks,
         NEW i \in 1..Len(func.code[b])
  PROVE  func.code[b][i].kind # "gate"
<1> DEFINE g == func.succ
<1>1. /\ t.blocks \subseteq Blocks /\ t.head \in Headers(g) /\ g \in FlowGraphs
      /\ b \in LoopBlocks(g, t.head) /\ b \in Blocks
  BY TraceIs, PlacedIs
<1>2. ASSUME NEW u \in traces, GateOf(func.code, g, b, i, u)
      PROVE  FALSE
  BY <1>2, TraceIs DEF GateOf
<1>3. ASSUME NEW u \in traces, LeadsOff(g, u, b)
      PROVE  FALSE
  <2>1. PICK x \in u.blocks : b \in g[x] \ u.blocks
    BY <1>3 DEF LeadsOff
  <2>2. /\ u.head \in Innermost(LoopInfo(g)) /\ u.head \in Headers(g)
        /\ x \in LoopBlocks(g, u.head) /\ t.head \in Innermost(LoopInfo(g))
    BY TraceIs
  <2>3. x \in Live(g)
    BY <1>1, <2>2, LoopTypes
  <2>4. CASE x \in LoopBlocks(g, t.head)
    <3>1. u.head = t.head
      BY <1>1, <2>2, <2>4, InnermostDisjoint
    <3>2. u = t
      BY <3>1, PlacedIs DEF Traced
    <3> QED
      BY <2>1, <3>2
  <2>5. CASE x \notin LoopBlocks(g, t.head)
    <3>1. b = t.head
      BY <1>1, <2>1, <2>3, <2>5, EnteredAtHeader
    <3>2. x \in Entering(g, t.head)
      BY <2>1, <2>3, <2>5, <3>1 DEF Entering
    <3>3. g[x] = {t.head}
      BY <3>2, OptimizedPreheader
    <3>4. x \notin LoopBlocks(g, u.head)
      BY <1>1, <2>2, <2>3, <2>5, <3>3, PreheaderAlone
    <3> QED
      BY <2>2, <3>4
  <2> QED
    BY <2>4, <2>5
<1> QED
  BY <1>1, <1>2, <1>3, PlacedIs DEF GatesKnown

LEMMA StepHotTrace ==
  ASSUME IInv, [Next]_vars, NEW t \in traces,
         phase = "run", ~NoLoops, block \in t.blocks
  PROVE  mask' = mask \/ (AtInstruction /\ Current.kind = "call")
<1>1. Placed /\ ~Acyclic(func.succ)
  BY LoopsAre DEF IInv
<1>2. CASE Execute
  <2>1. index \in 1..Len(func.code[block]) /\ Current = func.code[block][index]
    BY <1>2, CodeHere DEF Execute, Current
  <2>2. Current.kind # "gate"
    BY <1>1, <2>1, TraceBlockHasNoGate
  <2> QED
    BY <1>2, <2>2 DEF Execute, ExecuteGate, CalleeGates, AtInstruction
<1>3. CASE ~Execute
  BY <1>3 DEF Next, vars, running, StartTrace, ExtendTrace, OptimizeLoop, OptimizeAcyclic,
              Run, Branch, Return
<1> QED
  BY <1>2, <1>3

--------------------------------------------------------------------------------
(* The variables have their types. *)
THEOREM PassTypeCorrect == Spec => []TypeOK
<1>1. IInv => TypeOK
  BY IInvTypes
<1> QED
  BY <1>1, Invariant, PTL

(* Whatever the flow graph, the code, the order of the loops and the       *)
(* traces grown, an instruction of the rewritten code can need a unit that *)
(* is off in two places only: behind the gate in a loop's preheader, and   *)
(* under a mask that another function has left.  Everywhere else the mask  *)
(* set up by optimizeTrace covers its trace and ends with it.              *)
THEOREM StarvedOnlyWhereKnown == Spec => []StarvedWhereKnown
<1>1. IInv => StarvedWhereKnown
  BY IInvStarved
<1> QED
  BY <1>1, Invariant, PTL

(* Code on no trace runs with every unit on, but for the same two places:  *)
(* the "off-trace" of X86PowerPass.cpp:111 is corrected to that extent for *)
(* every flow graph.                                                       *)
THEOREM OffTraceSound == Spec => []OffTraceAllOn
<1>1. IInv => OffTraceAllOn
  BY IInvOffTrace
<1> QED
  BY <1>1, Invariant, PTL

(* A trace runs under its own mask, with everything on or under a mask     *)
(* another function has left, never under the mask of another loop's trace *)
(* of its function.                                                        *)
THEOREM TraceMaskSound == Spec => []TraceHoldsMask
<1>1. IInv => TraceHoldsMask
  BY IInvTraceMask
<1> QED
  BY <1>1, Invariant, PTL

(* Whichever way the run enters an optimized loop, its gate was the last   *)
(* one of the function to be executed: the preheader that getLoopPreheader *)
(* found is the only way in.                                               *)
THEOREM LoopEntrySound == Spec => LoopEntryGated
<1>1. IInv /\ [Next]_vars =>
        [\A t \in traces :
           (phase = "run" /\ ~NoLoops /\ block \notin loops[t.head] /\ block' = t.head)
             => mask' = t.mask \/ foreign]_vars
  BY StepLoopEntry
<1> QED
  BY <1>1, Invariant, PTL DEF Spec, LoopEntryGated

(* The blocks of an optimized loop's trace hold no gate, so that a run that*)
(* stays on the trace changes a unit's power only inside a callee.         *)
THEOREM HotTraceSound == Spec => HotTraceUngated
<1>1. IInv /\ [Next]_vars =>
        [\A t \in traces :
           (phase = "run" /\ ~NoLoops /\ {block, block'} \subseteq t.blocks)
             => mask' = mask \/ (AtInstruction /\ Current.kind = "call")]_vars
  BY StepHotTrace
<1> QED
  BY <1>1, Invariant, PTL DEF Spec, HotTraceUngated
================================================================================
