------------------------- MODULE LoadStoreQueue_proofs -------------------------
(***************************************************************************)
(* For any programs, threads and sizes: the queues keep their types, every *)
(* lock is accounted for and taken once, nothing passes a fence that has   *)
(* not completed, and what commits is what an in-order memory does.  Two   *)
(* shapes cover the changes of the reorder buffer: one entry is set, or    *)
(* some entries of a thread are dispatched again.                          *)
(***************************************************************************)
EXTENDS LoadStoreQueue, TLAPS, WellFoundedInduction

RobOK ==
  /\ DOMAIN rob = Threads
  /\ \A t \in Threads : DOMAIN rob[t] = Uops(t) /\ \A i \in Uops(t) : rob[t][i] \in Entries

(* Numbers of a bounded set that is not empty have a least and a greatest. *)
LEMMA LeastIn == ASSUME NEW S \in SUBSET Nat, S # {} PROVE Least(S) \in S
<1> DEFINE Less == {ss \in Nat \X Nat : ss[1] < ss[2]}
<1>1. OpToRel(<,Nat) = Less
  BY Zenon DEF OpToRel
<1>2. IsWellFoundedOn(Less, Nat)
  BY <1>1, NatLessThanWellFounded, Zenon
<1> HIDE DEF Less
<1>3. PICK n \in S : \A m \in S : ~ (<<m, n>> \in Less)
  BY <1>2, WFMin, Zenon
<1>4. ASSUME NEW m \in S PROVE n <= m
  <2>1. <<m, n>> \in Less <=> (<<m, n>> \in Nat \X Nat /\ <<m, n>>[1] < <<m, n>>[2])
    BY Zenon DEF Less
  <2>2. ~(m < n)
    BY <1>3, <2>1
  <2> QED
    BY <2>2, SMT
<1> QED
  BY <1>4 DEF Least

LEMMA GreatestIn ==
  ASSUME NEW n \in Nat, NEW S \in SUBSET (1..n)
  PROVE  /\ Greatest(S) \in 0..n
         /\ S = {} => Greatest(S) = 0
         /\ S # {} => Greatest(S) \in S /\ \A m \in S : m <= Greatest(S)
<1>1. CASE S = {}
  BY <1>1 DEF Greatest
<1>2. CASE S # {}
  <2> DEFINE T == {n - m : m \in S}
  <2>1. T \in SUBSET Nat /\ T # {}
    <3>1. \A m \in S : n - m \in Nat
      OBVIOUS
    <3> QED
      BY <1>2, <3>1
  <2>2. \E k \in T : \A l \in T : k <= l
    <3> DEFINE Less == {ss \in Nat \X Nat : ss[1] < ss[2]}
    <3>1. OpToRel(<,Nat) = Less
      BY Zenon DEF OpToRel
    <3>2. IsWellFoundedOn(Less, Nat)
      BY <3>1, NatLessThanWellFounded, Zenon
    <3> HIDE DEF Less, T
    <3>3. PICK k \in T : \A l \in T : ~ (<<l, k>> \in Less)
      BY <2>1, <3>2, WFMin, Zenon
    <3>4. ASSUME NEW l \in T PROVE k <= l
      <4>1. <<l, k>> \in Less <=> (<<l, k>> \in Nat \X Nat /\ <<l, k>>[1] < <<l, k>>[2])
        BY Zenon DEF Less
      <4>2. ~(l < k)
        BY <2>1, <3>3, <4>1
      <4> QED
        BY <2>1, <4>2, SMT
    <3> QED
      BY <3>4
  <2>3. PICK m \in S : \A l \in T : n - m <= l
    BY <2>2
  <2>4. ASSUME NEW l \in S PROVE l <= m
    BY <2>3
  <2>5. Greatest(S) = CHOOSE g \in S : \A l \in S : l <= g
    BY <1>2, Zenon DEF Greatest
  <2>6. Greatest(S) \in S /\ \A l \in S : l <= Greatest(S)
    BY <2>4, <2>5, Zenon
  <2> HIDE DEF T
  <2>7. Greatest(S) \in 0..n
    <3>1. \A x \in S : x \in 0..n
      OBVIOUS
    <3> QED
      BY <2>6, <3>1, Zenon
  <2> QED
    BY <1>2, <2>6, <2>7, Zenon
<1> QED
  BY <1>1, <1>2

(* What the constants say of a program. *)
LEMMA ProgramTyped ==
  ASSUME TypeOK, NEW t \in Threads
  PROVE  /\ prog[t] \in Seq(Ops) /\ Len(prog[t]) \in Nat
         /\ Uops(t) = 1..Len(prog[t])
         /\ head[t] \in 0..Len(prog[t])
         /\ \A i \in Uops(t) :
              /\ prog[t][i] \in Ops
              /\ prog[t][i].kind # "mf" => prog[t][i].chunk \in Chunks
              /\ prog[t][i].som \in 1..i
<1>1. prog[t] \in Seq(Ops)
  BY QueueAssumption DEF TypeOK
<1>2. \A i \in 1..Len(prog[t]) : prog[t][i] \in Ops
  BY <1>1
<1> QED
  BY <1>1, <1>2, QueueAssumption DEF TypeOK, Uops

LEMMA DispatchedTyped ==
  ASSUME NEW p \in Seq(Ops), NEW i \in 1..Len(p)
  PROVE  /\ Dispatched(p, i) \in Entries
         /\ ~Dispatched(p, i).issued /\ ~Dispatched(p, i).addrvalid
         /\ ~Dispatched(p, i).datavalid /\ ~Dispatched(p, i).lock
         /\ Dispatched(p, i).rs = NearestFence(p, i)
<1>1. NearestFence(p, i) \in Nat
  <2> DEFINE F == {j \in 1..(i - 1) : p[j].kind = "mf" /\ p[i].kind \in p[j].holds}
  <2>1. F \in SUBSET (1..(i - 1)) /\ i - 1 \in Nat
    OBVIOUS
  <2> HIDE DEF F
  <2>2. Greatest(F) \in 0..(i - 1)
    BY <2>1, GreatestIn
  <2>3. NearestFence(p, i) = Greatest(F)
    BY DEF NearestFence, F
  <2> QED
    BY <2>2, <2>3
<1>2. [b \in Bytes |-> None] \in [Bytes -> Tags]
  BY DEF Tags
<1>3. {} \in SUBSET Bytes
  OBVIOUS
<1> QED
  BY <1>1, <1>2, <1>3 DEF Dispatched, Entries

(* The entry a load or a store takes its data from is one of its sources. *)
LEMMA SourceTyped ==
  ASSUME TypeOK, NEW t \in Threads, NEW i \in Uops(t)
  PROVE  /\ Source(t, i) \in Nat
         /\ Source(t, i) # 0 => Source(t, i) \in Sources(t, i)
         /\ Sources(t, i) # {} => Source(t, i) \in Sources(t, i)
         /\ \A j \in Sources(t, i) : j <= Source(t, i)
         /\ Sources(t, i) \subseteq {j \in Uops(t) : j > head[t] /\ j < i /\ prog[t][j].kind # "ld"}
<1>1. Sources(t, i) \subseteq {j \in Uops(t) : j > head[t] /\ j < i /\ prog[t][j].kind # "ld"}
  BY DEF Sources, OlderStores, InFlight
<1>2. Uops(t) = 1..Len(prog[t]) /\ Len(prog[t]) \in Nat
  BY ProgramTyped
<1>3. Sources(t, i) \in SUBSET (1..Len(prog[t]))
  BY <1>1, <1>2
<1> QED
  BY <1>1, <1>2, <1>3, GreatestIn DEF Source

(* The first shape: one entry is set. *)
LEMMA SetFacts ==
  ASSUME RobOK, NEW t \in Threads, NEW i \in Uops(t), NEW e, SetEntry(t, i, e)
  PROVE  /\ DOMAIN rob' = Threads /\ \A u \in Threads : DOMAIN rob'[u] = Uops(u)
         /\ rob'[t][i] = e
         /\ \A u \in Threads : \A j \in Uops(u) : u # t \/ j # i => rob'[u][j] = rob[u][j]
BY DEF RobOK, SetEntry

LEMMA SetTyped ==
  ASSUME TypeOK, NEW t \in Threads, NEW i \in Uops(t), NEW e \in Entries, SetEntry(t, i, e),
         prog' = prog
  PROVE  RobOK'
<1>1. RobOK /\ \A u \in Threads : Uops(u)' = Uops(u)
  BY DEF TypeOK, RobOK, Uops
<1> QED
  BY <1>1, SetFacts DEF RobOK

(* The second shape: the entries S of a thread are dispatched again. *)
Resets(t, S) ==
  rob' = [rob EXCEPT ![t] = [i \in Uops(t) |->
            IF i \in S THEN Dispatched(prog[t], i) ELSE rob[t][i]]]

LEMMA ResetFacts ==
  ASSUME RobOK, NEW t \in Threads, NEW S, Resets(t, S)
  PROVE  /\ DOMAIN rob' = Threads /\ \A u \in Threads : DOMAIN rob'[u] = Uops(u)
         /\ \A u \in Threads \ {t} : rob'[u] = rob[u]
         /\ \A i \in Uops(t) :
              rob'[t][i] = IF i \in S THEN Dispatched(prog[t], i) ELSE rob[t][i]
BY DEF RobOK, Resets

LEMMA ResetTyped ==
  ASSUME TypeOK, NEW t \in Threads, NEW S, Resets(t, S), prog' = prog
  PROVE  RobOK'
<1>1. RobOK /\ \A u \in Threads : Uops(u)' = Uops(u)
  BY DEF TypeOK, RobOK, Uops
<1>2. \A i \in Uops(t) : Dispatched(prog[t], i) \in Entries
  BY ProgramTyped, DispatchedTyped
<1>3. /\ DOMAIN rob' = Threads /\ \A u \in Threads : DOMAIN rob'[u] = Uops(u)
      /\ \A u \in Threads \ {t} : rob'[u] = rob[u]
      /\ \A i \in Uops(t) :
           rob'[t][i] = IF i \in S THEN Dispatched(prog[t], i) ELSE rob[t][i]
  BY <1>1, ResetFacts
<1> QED
  BY <1>1, <1>2, <1>3 DEF RobOK

--------------------------------------------------------------------------------
(* Types *)

(* Only loads in flight hold locks. *)
LocksOfLoads ==
  \A t \in Threads : \A i \in Uops(t) :
    rob[t][i].lock => i > head[t] /\ prog[t][i].kind = "ld"

LEMMA InitTyped == Init => TypeOK
<1> SUFFICES ASSUME Init PROVE TypeOK
  OBVIOUS
<1>1. prog \in Programs
  BY DEF Init
<1>2. \A t \in Threads : prog[t] \in Seq(Ops) /\ Len(prog[t]) \in Nat
  BY <1>1, QueueAssumption
<1>3. DOMAIN rob = Threads
  BY DEF Init
<1>4. ASSUME NEW t \in Threads
      PROVE  DOMAIN rob[t] = Uops(t) /\ \A i \in Uops(t) : rob[t][i] \in Entries
  <2>1. rob[t] = [i \in Uops(t) |-> Dispatched(prog[t], i)]
    BY DEF Init
  <2>2. \A i \in Uops(t) : Dispatched(prog[t], i) \in Entries
    BY <1>2, DispatchedTyped DEF Uops
  <2> QED
    BY <2>1, <2>2
<1>5. /\ head \in [Threads -> Nat] /\ \A t \in Threads : head[t] <= Len(prog[t])
      /\ lsap \in [Threads -> SUBSET Nat] /\ \A t \in Threads : lsap[t] \subseteq Uops(t)
  BY <1>2 DEF Init
<1>6. /\ loaded \in [Threads -> SUBSET Chunks]
      /\ interlocks \in [Chunks -> Threads \cup {None}]
      /\ queued \in [Threads -> SUBSET Chunks]
      /\ flushes \in 0..MaxFlushes
  BY QueueAssumption DEF Init
<1>7. mem \in [Chunks -> [Bytes -> Tags]]
  BY DEF Init, Tags
<1> QED
  BY <1>1, <1>3, <1>4, <1>5, <1>6, <1>7 DEF TypeOK

(* What a load reads and what a store leaves are tags, byte by byte. *)
LEMMA DataTyped ==
  ASSUME TypeOK, NEW t \in Threads, NEW i \in Uops(t)
  PROVE  /\ prog[t][i].kind # "mf" => Loaded(t, i) \in [Bytes -> Tags]
         /\ Merged(t, i) \in [Bytes -> Tags]
         /\ Source(t, i) # 0 => rob[t][Source(t, i)].mask \in SUBSET Bytes
<1> DEFINE s == Source(t, i)
<1>1. s # 0 => s \in Uops(t)
  BY SourceTyped
<1>2. s # 0 => rob[t][s].data \in [Bytes -> Tags] /\ rob[t][s].mask \in SUBSET Bytes
  BY <1>1 DEF TypeOK, Entries
<1>3. None \in Tags /\ <<t, i>> \in Tags
  BY ProgramTyped DEF Tags
<1>4. prog[t][i].kind # "mf" => mem[prog[t][i].chunk] \in [Bytes -> Tags]
  BY ProgramTyped DEF TypeOK
<1> HIDE DEF s
<1>5. ASSUME prog[t][i].kind # "mf" PROVE Loaded(t, i) \in [Bytes -> Tags]
  <2>1. Loaded(t, i) = [b \in Bytes |->
          IF b \notin prog[t][i].bytes THEN None
          ELSE IF s # 0 /\ b \in rob[t][s].mask THEN rob[t][s].data[b]
          ELSE mem[prog[t][i].chunk][b]]
    BY DEF Loaded, s
  <2>2. \A b \in Bytes : mem[prog[t][i].chunk][b] \in Tags
    BY <1>4, <1>5
  <2>3. s # 0 => \A b \in Bytes : rob[t][s].data[b] \in Tags
    BY <1>2
  <2> QED
    BY <1>3, <2>1, <2>2, <2>3
<1>6. Merged(t, i) \in [Bytes -> Tags]
  <2>1. Merged(t, i) = [b \in Bytes |->
          IF b \in prog[t][i].bytes THEN <<t, i>>
          ELSE IF s # 0 THEN rob[t][s].data[b] ELSE None]
    BY DEF Merged, s
  <2>2. s # 0 => \A b \in Bytes : rob[t][s].data[b] \in Tags
    BY <1>2
  <2> QED
    BY <1>3, <2>1, <2>2
<1> QED
  BY <1>2, <1>5, <1>6 DEF s

(* The entries the steps write. *)
LEMMA EntryTyped ==
  ASSUME TypeOK, NEW t \in Threads, NEW i \in Uops(t)
  PROVE  /\ rob[t][i] \in Entries
         /\ Replayed(rob[t][i], Source(t, i)) \in Entries
         /\ Replayed(rob[t][i], Source(t, i)) =
              [rob[t][i] EXCEPT !.addrvalid = TRUE, !.datavalid = FALSE, !.rs = Source(t, i)]
<1>1. rob[t][i] \in Entries
  BY DEF TypeOK
<1>2. Source(t, i) \in Nat
  BY SourceTyped
<1> QED
  BY <1>1, <1>2 DEF Entries, Replayed

(* Steps that set one entry and leave head, memory and locks alone. *)
LEMMA SetStepTyped ==
  ASSUME TypeOK, NEW t \in Threads, NEW i \in Uops(t), NEW e \in Entries, SetEntry(t, i, e),
         UNCHANGED <<prog, head, lsap, mem, flushes>>,
         loaded' \in [Threads -> SUBSET Chunks],
         interlocks' \in [Chunks -> Threads \cup {None}],
         queued' \in [Threads -> SUBSET Chunks]
  PROVE  TypeOK'
<1>1. RobOK'
  BY SetTyped
<1> QED
  BY <1>1 DEF TypeOK, RobOK, Uops

LEMMA IssueTyped ==
  ASSUME TypeOK, NEW t \in Threads, NEW i \in Uops(t), Issue(t, i)
  PROVE  TypeOK'
<1>0. /\ rob[t][i] \in Entries /\ Replayed(rob[t][i], Source(t, i)) \in Entries
      /\ Source(t, i) \in Nat /\ prog[t][i] \in Ops
  BY EntryTyped, SourceTyped, ProgramTyped
<1>1. CASE \/ LoadWaits(t, i) \/ LoadLockedOut(t, i) \/ StoreForwardsInParallel(t, i)
           \/ StoreLockedOut(t, i)
  <2>1. /\ SetEntry(t, i, Replayed(rob[t][i], Source(t, i)))
        /\ UNCHANGED <<prog, head, lsap, loaded, interlocks, queued, mem, flushes>>
    BY <1>1 DEF LoadWaits, LoadLockedOut, StoreForwardsInParallel, StoreLockedOut
  <2> QED
    BY <1>0, <2>1, SetStepTyped DEF TypeOK
<1>2. CASE LoadIssues(t, i)
  <2> DEFINE c == prog[t][i].chunk
             e == [rob[t][i] EXCEPT !.issued = TRUE, !.addrvalid = TRUE,
                     !.datavalid = TRUE, !.rs = Source(t, i),
                     !.lock = prog[t][i].locked, !.data = Loaded(t, i)]
  <2>1. /\ SetEntry(t, i, e) /\ prog[t][i].kind = "ld"
        /\ interlocks' = IF prog[t][i].locked THEN [interlocks EXCEPT ![c] = t] ELSE interlocks
        /\ loaded' = [loaded EXCEPT ![t] = @ \cup {c}]
        /\ UNCHANGED <<prog, head, lsap, queued, mem, flushes>>
    BY <1>2 DEF LoadIssues, CanIssue
  <2>2. c \in Chunks /\ Loaded(t, i) \in [Bytes -> Tags]
    BY <2>1, ProgramTyped, DataTyped
  <2>3. prog[t][i].locked \in BOOLEAN
    BY <1>0 DEF Ops
  <2>4. e \in Entries
    BY <1>0, <2>2, <2>3 DEF Entries
  <2>5. interlocks' \in [Chunks -> Threads \cup {None}] /\ loaded' \in [Threads -> SUBSET Chunks]
    BY <2>1, <2>2 DEF TypeOK
  <2> HIDE DEF e, c
  <2> QED
    BY <2>1, <2>4, <2>5, SetStepTyped DEF TypeOK
<1>3. CASE StoreWaits(t, i)
  <2> DEFINE e == [Replayed(rob[t][i], Source(t, i)) EXCEPT !.second = TRUE]
  <2>1. SetEntry(t, i, e) /\ UNCHANGED <<prog, head, lsap, loaded, interlocks, queued, mem, flushes>>
    BY <1>3 DEF StoreWaits
  <2>2. e \in Entries
    BY <1>0 DEF Entries
  <2> HIDE DEF e
  <2> QED
    BY <2>1, <2>2, SetStepTyped DEF TypeOK
<1>4. CASE StoreIssues(t, i)
  <2> DEFINE s == Source(t, i)
             mask == prog[t][i].bytes \cup (IF s = 0 THEN {} ELSE rob[t][s].mask)
             e == [rob[t][i] EXCEPT !.issued = TRUE, !.addrvalid = TRUE,
                     !.datavalid = TRUE, !.second = TRUE, !.rs = s,
                     !.mask = mask, !.data = Merged(t, i)]
  <2>1. SetEntry(t, i, e) /\ UNCHANGED <<prog, head, lsap, loaded, interlocks, queued, mem, flushes>>
    BY <1>4 DEF StoreIssues
  <2>2. Merged(t, i) \in [Bytes -> Tags] /\ (s # 0 => rob[t][s].mask \in SUBSET Bytes)
    BY DataTyped
  <2>3. mask \in SUBSET Bytes
    BY <1>0, <2>2 DEF Ops
  <2> HIDE DEF mask
  <2>4. e \in Entries
    BY <1>0, <2>2, <2>3 DEF Entries
  <2> HIDE DEF e
  <2> QED
    BY <2>1, <2>4, SetStepTyped DEF TypeOK
<1>5. CASE FenceIssues(t, i)
  <2> DEFINE e == [rob[t][i] EXCEPT !.issued = TRUE]
  <2>1. SetEntry(t, i, e) /\ UNCHANGED <<prog, head, lsap, loaded, interlocks, queued, mem, flushes>>
    BY <1>5 DEF FenceIssues
  <2>2. e \in Entries
    BY <1>0 DEF Entries
  <2> HIDE DEF e
  <2> QED
    BY <2>1, <2>2, SetStepTyped DEF TypeOK
<1>6. CASE StoreAliases(t, i)
  <2> DEFINE S == {j \in InFlight(t) : j >= i}
  <2>1. /\ Aliases(t, i) # {} /\ lsap' = [lsap EXCEPT ![t] = @ \cup {Least(Aliases(t, i))}]
        /\ Redispatch(t, S) /\ UNCHANGED <<prog, head, loaded, mem, flushes>>
    BY <1>6 DEF StoreAliases
  <2>2. RobOK'
    BY <2>1, ResetTyped DEF Redispatch, Resets
  <2>3. Least(Aliases(t, i)) \in Uops(t)
    <3>1. Aliases(t, i) \in SUBSET Nat /\ Aliases(t, i) \subseteq Uops(t)
      BY ProgramTyped DEF Aliases, InFlight
    <3> QED
      BY <2>1, <3>1, LeastIn
  <2>4. interlocks' \in [Chunks -> Threads \cup {None}] /\ queued' \in [Threads -> SUBSET Chunks]
    BY <2>1 DEF Redispatch, Unlock, TypeOK
  <2>5. lsap' \in [Threads -> SUBSET Nat] /\ \A u \in Threads : lsap'[u] \subseteq Uops(u)
    BY <2>1, <2>3, ProgramTyped DEF TypeOK
  <2> QED
    BY <2>1, <2>2, <2>4, <2>5 DEF TypeOK, RobOK, Uops
<1> QED
  BY <1>1, <1>2, <1>3, <1>4, <1>5, <1>6 DEF Issue

LEMMA ResetStepTyped ==
  ASSUME TypeOK, NEW t \in Threads, NEW S, Resets(t, S),
         UNCHANGED <<prog, lsap, loaded, mem>>,
         head' \in [Threads -> Nat], \A u \in Threads : head'[u] <= Len(prog[u]),
         flushes' \in 0..MaxFlushes,
         interlocks' \in [Chunks -> Threads \cup {None}],
         queued' \in [Threads -> SUBSET Chunks]
  PROVE  TypeOK'
<1>1. RobOK'
  BY ResetTyped
<1> QED
  BY <1>1 DEF TypeOK, RobOK, Uops

(* Where a thread is while it has uops in flight, and where a flush leaves it. *)
LEMMA OldestTyped ==
  ASSUME TypeOK, NEW t \in Threads
  PROVE  /\ InFlight(t) # {} => Oldest(t) \in Uops(t)
         /\ Oldest(t) \in Uops(t) => Oldest(t) \in InFlight(t) /\ prog[t][Oldest(t)].som - 1 \in 0..Len(prog[t])
         /\ Oldest(t) = head[t] + 1 /\ head[t] \in Nat
<1>1. /\ Len(prog[t]) \in Nat /\ Uops(t) = 1..Len(prog[t]) /\ head[t] \in 0..Len(prog[t])
      /\ \A i \in Uops(t) : prog[t][i].som \in 1..i
  BY ProgramTyped
<1> QED
  BY <1>1 DEF Oldest, InFlight

LEMMA NextTyped == TypeOK /\ LocksOfLoads /\ [Next]_vars => TypeOK'
<1> SUFFICES ASSUME TypeOK, LocksOfLoads, [Next]_vars PROVE TypeOK'
  OBVIOUS
<1>1. ASSUME NEW t \in Threads, NEW i \in Uops(t), Issue(t, i) PROVE TypeOK'
  BY <1>1, IssueTyped
<1>2. ASSUME NEW t \in Threads, NEW i \in Uops(t), Annul(t, i) PROVE TypeOK'
  <2> DEFINE S == {j \in InFlight(t) : j >= i}
  <2>1. Resets(t, S) /\ UNCHANGED <<prog, head, lsap, loaded, queued, mem>>
    BY <1>2 DEF Annul, Resets
  <2>2. interlocks' \in [Chunks -> Threads \cup {None}]
    BY <1>2 DEF Annul, Unlock, TypeOK
  <2>3. flushes' \in 0..MaxFlushes
    BY <1>2, QueueAssumption DEF Annul, TypeOK
  <2> HIDE DEF S
  <2> QED
    BY <2>1, <2>2, <2>3, ResetStepTyped DEF TypeOK
<1>3. ASSUME NEW t \in Threads, FenceWakeup(t) PROVE TypeOK'
  <2> DEFINE i == Oldest(t)
             e == [rob[t][i] EXCEPT !.addrvalid = TRUE, !.datavalid = TRUE]
  <2>1. /\ i \in Uops(t) /\ SetEntry(t, i, e)
        /\ UNCHANGED <<prog, head, lsap, loaded, mem, flushes>>
    BY <1>3 DEF FenceWakeup
  <2>2. interlocks' \in [Chunks -> Threads \cup {None}] /\ queued' \in [Threads -> SUBSET Chunks]
    BY <1>3 DEF FenceWakeup, Unlock, TypeOK
  <2>3. rob[t][i] \in Entries
    BY <2>1 DEF TypeOK
  <2> HIDE DEF i
  <2>4. e \in Entries
    BY <2>3 DEF Entries
  <2> HIDE DEF e
  <2> QED
    BY <2>1, <2>2, <2>4, SetStepTyped DEF TypeOK
<1>4. ASSUME NEW t \in Threads, Commit(t) PROVE TypeOK'
  <2> DEFINE i == Oldest(t)  op == prog[t][i]  e == rob[t][i]
  <2>1. /\ i \in Uops(t)
        /\ queued' = [queued EXCEPT ![t] = IF e.lock THEN @ \cup {op.chunk} ELSE @]
        /\ mem' = IF op.kind # "st" THEN mem
                  ELSE [mem EXCEPT ![op.chunk] =
                          [b \in Bytes |-> IF b \in e.mask THEN e.data[b] ELSE mem[op.chunk][b]]]
        /\ SetEntry(t, i, Dispatched(prog[t], i))
        /\ head' = [head EXCEPT ![t] = i]
        /\ UNCHANGED <<prog, lsap, loaded, interlocks, flushes>>
    BY <1>4 DEF Commit, MacroOpReady
  <2>2. /\ i \in 1..Len(prog[t]) /\ prog[t] \in Seq(Ops) /\ Len(prog[t]) \in Nat
        /\ op.kind # "mf" => op.chunk \in Chunks
    BY <2>1, ProgramTyped
  <2>3. e.lock => op.kind = "ld"
    BY <2>1 DEF LocksOfLoads
  <2>4. e \in Entries
    BY <2>1 DEF TypeOK
  <2>5. e.data \in [Bytes -> Tags]
    BY <2>4 DEF Entries
  <2> HIDE DEF i, op, e
  <2>6. queued' \in [Threads -> SUBSET Chunks]
    BY <2>1, <2>2, <2>3 DEF TypeOK
  <2>7. mem' \in [Chunks -> [Bytes -> Tags]]
    <3>1. CASE op.kind # "st"
      BY <2>1, <3>1 DEF TypeOK
    <3>2. CASE op.kind = "st"
      <4> DEFINE new == [b \in Bytes |-> IF b \in e.mask THEN e.data[b] ELSE mem[op.chunk][b]]
      <4>1. op.chunk \in Chunks
        BY <2>2, <3>2
      <4>2. new \in [Bytes -> Tags]
        BY <2>5, <4>1 DEF TypeOK
      <4>3. mem' = [mem EXCEPT ![op.chunk] = new]
        BY <2>1, <3>2
      <4> HIDE DEF new
      <4> QED
        BY <4>2, <4>3 DEF TypeOK
    <3> QED
      BY <3>1, <3>2
  <2>8. Dispatched(prog[t], i) \in Entries
    BY <2>2, DispatchedTyped
  <2>9. RobOK'
    BY <2>1, <2>8, SetTyped
  <2>10. head' \in [Threads -> Nat] /\ \A u \in Threads : head'[u] <= Len(prog[u])
    BY <2>1, <2>2 DEF TypeOK
  <2> QED
    BY <2>1, <2>6, <2>7, <2>9, <2>10 DEF TypeOK, RobOK, Uops
<1>5. ASSUME NEW t \in Threads, Flush(t) PROVE TypeOK'
  <2>1. /\ Resets(t, Uops(t)) /\ head' = [head EXCEPT ![t] = prog[t][Oldest(t)].som - 1]
        /\ flushes' = flushes + 1 /\ flushes < MaxFlushes /\ InFlight(t) # {}
        /\ UNCHANGED <<prog, lsap, loaded, mem>>
    BY <1>5 DEF Flush, Redispatch, Resets
  <2>2. interlocks' \in [Chunks -> Threads \cup {None}] /\ queued' \in [Threads -> SUBSET Chunks]
    BY <1>5 DEF Flush, Redispatch, Unlock, TypeOK
  <2>3. prog[t][Oldest(t)].som - 1 \in 0..Len(prog[t]) /\ Len(prog[t]) \in Nat
    BY <2>1, OldestTyped, ProgramTyped
  <2>4. head' \in [Threads -> Nat] /\ \A u \in Threads : head'[u] <= Len(prog[u])
    BY <2>1, <2>3 DEF TypeOK
  <2>5. flushes' \in 0..MaxFlushes
    BY <2>1, QueueAssumption DEF TypeOK
  <2> QED
    BY <2>1, <2>2, <2>4, <2>5, ResetStepTyped
<1>6. CASE NextCycle
  BY <1>6 DEF NextCycle, TypeOK, Uops
<1>7. CASE UNCHANGED vars
  BY <1>7 DEF vars, TypeOK, Uops
<1> QED
  BY <1>1, <1>2, <1>3, <1>4, <1>5, <1>6, <1>7 DEF Next

--------------------------------------------------------------------------------
(* Locks *)

(* A thread holds a chunk exactly if one of its entries locked it or its   *)
(* release is queued; never two entries, nor an entry and the queue.       *)
LocksExact ==
  \A t \in Threads, c \in Chunks :
    interlocks[c] = t <=>
      c \in queued[t] \/ \E i \in Uops(t) : rob[t][i].lock /\ prog[t][i].chunk = c
OneLockEach ==
  \A t \in Threads : \A i \in Uops(t) : rob[t][i].lock =>
    /\ prog[t][i].chunk \notin queued[t]
    /\ \A j \in Uops(t) : rob[t][j].lock /\ prog[t][j].chunk = prog[t][i].chunk => i = j

Locks == LocksOfLoads /\ LocksExact /\ OneLockEach

LEMMA LocksAgree == TypeOK /\ Locks => LocksAccounted
<1> SUFFICES ASSUME TypeOK, Locks, NEW c \in Chunks, NEW t \in Threads
             PROVE  interlocks[c] = t <=> c \in Held(t, InFlight(t)) \cup queued[t]
  BY DEF LocksAccounted
<1>1. c \in Held(t, InFlight(t)) <=> \E i \in Uops(t) : rob[t][i].lock /\ prog[t][i].chunk = c
  BY DEF Held, InFlight, Locks, LocksOfLoads
<1> QED
  BY <1>1 DEF Locks, LocksExact

(* The entries S of a thread give their locks back, and the queue gives    *)
(* back Q; all other entries keep what they have.                          *)
Released(t, S, Q) ==
  /\ Q \subseteq queued[t]
  /\ queued' = [queued EXCEPT ![t] = @ \ Q]
  /\ interlocks' = [c \in Chunks |-> IF c \in Held(t, S) \cup Q THEN None ELSE interlocks[c]]
  /\ \A i \in Uops(t) : rob'[t][i].lock <=> rob[t][i].lock /\ i \notin S
  /\ \A u \in Threads \ {t} : \A i \in Uops(u) : rob'[u][i].lock <=> rob[u][i].lock

LEMMA ReleaseKeepsLocks ==
  ASSUME TypeOK, Locks, NEW t \in Threads, NEW S \in SUBSET Uops(t), NEW Q, Released(t, S, Q),
         prog' = prog,
         \A u \in Threads : \A i \in Uops(u) : rob'[u][i].lock => i > head'[u]
  PROVE  Locks'
<1>1. /\ \A u \in Threads : Uops(u)' = Uops(u)
      /\ \A u \in Threads \ {t} : queued'[u] = queued[u]
      /\ queued'[t] = queued[t] \ Q
  BY DEF Uops, Released, TypeOK
<1>2. LocksOfLoads'
  BY <1>1 DEF Released, Locks, LocksOfLoads
<1>3. OneLockEach'
  BY <1>1 DEF Released, Locks, OneLockEach
<1>4. LocksExact'
  <2> SUFFICES ASSUME NEW u \in Threads, NEW c \in Chunks
               PROVE  interlocks'[c] = u <=>
                        \/ c \in queued'[u]
                        \/ \E i \in Uops(u) : rob'[u][i].lock /\ prog[u][i].chunk = c
    BY <1>1 DEF LocksExact
  <2>1. interlocks[c] = u <=>
          c \in queued[u] \/ \E i \in Uops(u) : rob[u][i].lock /\ prog[u][i].chunk = c
    BY DEF Locks, LocksExact
  <2>2. c \in Held(t, S) <=> \E i \in S : rob[t][i].lock /\ prog[t][i].chunk = c
    BY DEF Held
  <2>3. CASE c \in Held(t, S) \cup Q
    <3>1. interlocks[c] = t
      BY <2>2, <2>3 DEF Released, Locks, LocksExact
    <3>2. interlocks'[c] = None /\ None # u
      BY <2>3, QueueAssumption DEF Released
    <3>3. CASE u # t
      <4>1. ~(c \in queued[u]) /\ ~ \E i \in Uops(u) : rob[u][i].lock /\ prog[u][i].chunk = c
        BY <2>1, <3>1, <3>3
      <4> QED
        BY <1>1, <3>2, <3>3, <4>1 DEF Released
    <3>4. CASE u = t /\ c \in Held(t, S)
      <4>1. PICK i \in S : rob[t][i].lock /\ prog[t][i].chunk = c
        BY <2>2, <3>4
      <4>2. c \notin queued[t] /\ \A j \in Uops(t) : rob[t][j].lock /\ prog[t][j].chunk = c => j = i
        BY <4>1 DEF Locks, OneLockEach
      <4> QED
        BY <1>1, <3>2, <3>4, <4>1, <4>2 DEF Released
    <3>5. CASE u = t /\ c \in Q
      <4>1. ~ \E j \in Uops(t) : rob[t][j].lock /\ prog[t][j].chunk = c
        BY <3>5 DEF Locks, OneLockEach, Released
      <4> QED
        BY <1>1, <3>2, <3>5, <4>1 DEF Released
    <3> QED
      BY <2>3, <3>3, <3>4, <3>5
  <2>4. CASE c \notin Held(t, S) \cup Q
    <3>1. interlocks'[c] = interlocks[c]
      BY <2>4 DEF Released
    <3>2. CASE u = t
      BY <1>1, <2>1, <2>2, <2>4, <3>1, <3>2 DEF Released
    <3>3. CASE u # t
      BY <1>1, <2>1, <3>1, <3>3 DEF Released
    <3> QED
      BY <3>2, <3>3
  <2> QED
    BY <2>3, <2>4
<1> QED
  BY <1>2, <1>3, <1>4 DEF Locks

LEMMA InitLocks == Init => Locks
<1> SUFFICES ASSUME Init PROVE Locks
  OBVIOUS
<1>1. ASSUME NEW t \in Threads, NEW i \in Uops(t) PROVE ~rob[t][i].lock
  BY <1>1 DEF Init, Dispatched
<1>2. \A t \in Threads : queued[t] = {}
  BY DEF Init
<1>3. \A t \in Threads, c \in Chunks : interlocks[c] # t
  BY QueueAssumption DEF Init
<1> QED
  BY <1>1, <1>2, <1>3 DEF Locks, LocksOfLoads, LocksExact, OneLockEach

(* An entry changes without its lock. *)
LEMMA SetKeepsLocks ==
  ASSUME TypeOK, Locks, NEW t \in Threads, NEW i \in Uops(t), NEW e, SetEntry(t, i, e),
         e.lock <=> rob[t][i].lock, UNCHANGED <<prog, head, interlocks, queued>>
  PROVE  Locks'
<1>1. \A u \in Threads : \A j \in Uops(u) : rob'[u][j].lock <=> rob[u][j].lock
  <2>1. RobOK
    BY DEF TypeOK, RobOK
  <2> QED
    BY <2>1, SetFacts
<1>2. \A u \in Threads : Uops(u)' = Uops(u)
  BY DEF Uops
<1> QED
  BY <1>1, <1>2 DEF Locks, LocksOfLoads, LocksExact, OneLockEach

LEMMA ResetKeepsLocks ==
  ASSUME TypeOK, Locks, NEW t \in Threads, NEW S \in SUBSET Uops(t), NEW Q, Resets(t, S),
         Q \subseteq queued[t], queued' = [queued EXCEPT ![t] = @ \ Q],
         Unlock(Held(t, S) \cup Q), prog' = prog,
         \/ head' = head
         \/ S = Uops(t) /\ \A u \in Threads \ {t} : head'[u] = head[u]
  PROVE  Locks'
<1>1. /\ \A u \in Threads \ {t} : rob'[u] = rob[u]
      /\ \A i \in Uops(t) :
           rob'[t][i] = IF i \in S THEN Dispatched(prog[t], i) ELSE rob[t][i]
  <2>1. RobOK
    BY DEF TypeOK, RobOK
  <2> QED
    BY <2>1, ResetFacts
<1>2. \A i \in Uops(t) : ~Dispatched(prog[t], i).lock
  BY DEF Dispatched
<1>3. /\ \A i \in Uops(t) : rob'[t][i].lock <=> rob[t][i].lock /\ i \notin S
      /\ \A u \in Threads \ {t} : \A i \in Uops(u) : rob'[u][i].lock <=> rob[u][i].lock
  BY <1>1, <1>2
<1>4. Released(t, S, Q)
  BY <1>3 DEF Released, Unlock
<1>5. \A u \in Threads : \A i \in Uops(u) : rob'[u][i].lock => i > head'[u]
  BY <1>3 DEF Locks, LocksOfLoads
<1> QED
  BY <1>4, <1>5, ReleaseKeepsLocks

(* A load that takes a lock finds the chunk free, so nobody else has it. *)
LEMMA LoadKeepsLocks ==
  ASSUME TypeOK, Locks, NEW t \in Threads, NEW i \in Uops(t), LoadIssues(t, i)
  PROVE  Locks'
<1> DEFINE c == prog[t][i].chunk
           e == [rob[t][i] EXCEPT !.issued = TRUE, !.addrvalid = TRUE,
                   !.datavalid = TRUE, !.rs = Source(t, i),
                   !.lock = prog[t][i].locked, !.data = Loaded(t, i)]
<1>1. /\ SetEntry(t, i, e) /\ prog[t][i].kind = "ld" /\ i > head[t]
      /\ interlocks[c] = None
      /\ interlocks' = IF prog[t][i].locked THEN [interlocks EXCEPT ![c] = t] ELSE interlocks
      /\ UNCHANGED <<prog, head, queued>>
  BY DEF LoadIssues, CanIssue, InFlight
<1>2. e.lock = prog[t][i].locked /\ c \in Chunks
  <2>1. rob[t][i] \in Entries
    BY EntryTyped
  <2>2. c \in Chunks
    BY <1>1, ProgramTyped
  <2> QED
    BY <2>1, <2>2 DEF Entries
<1> HIDE DEF e
<1>3. /\ rob'[t][i] = e
      /\ \A u \in Threads : \A j \in Uops(u) : u # t \/ j # i => rob'[u][j] = rob[u][j]
  <2>1. RobOK
    BY DEF TypeOK, RobOK
  <2> QED
    BY <1>1, <2>1, SetFacts
<1>4. \A u \in Threads : Uops(u)' = Uops(u)
  BY <1>1 DEF Uops
<1>5. \A u \in Threads : c \notin queued[u] /\ \A j \in Uops(u) : ~(rob[u][j].lock /\ prog[u][j].chunk = c)
  BY <1>1, <1>2, QueueAssumption DEF Locks, LocksExact
<1>6. ~rob[t][i].lock
  BY <1>5
<1>7. \A u \in Threads : \A j \in Uops(u) :
        rob'[u][j].lock <=> rob[u][j].lock \/ (u = t /\ j = i /\ prog[t][i].locked)
  BY <1>2, <1>3, <1>6
<1>8. LocksOfLoads'
  BY <1>1, <1>4, <1>7 DEF Locks, LocksOfLoads
<1>9. OneLockEach'
  BY <1>1, <1>4, <1>5, <1>7 DEF Locks, OneLockEach
<1>10. LocksExact'
  <2> SUFFICES ASSUME NEW u \in Threads, NEW d \in Chunks
               PROVE  interlocks'[d] = u <=>
                        \/ d \in queued[u]
                        \/ \E j \in Uops(u) : rob'[u][j].lock /\ prog[u][j].chunk = d
    BY <1>1, <1>4 DEF LocksExact
  <2>1. interlocks[d] = u <=>
          d \in queued[u] \/ \E j \in Uops(u) : rob[u][j].lock /\ prog[u][j].chunk = d
    BY DEF Locks, LocksExact
  <2>2. interlocks'[d] = IF prog[t][i].locked /\ d = c THEN t ELSE interlocks[d]
    BY <1>1, <1>2 DEF TypeOK
  <2>3. CASE prog[t][i].locked /\ d = c
    BY <1>5, <1>7, <2>2, <2>3
  <2>4. CASE ~(prog[t][i].locked /\ d = c)
    BY <1>7, <2>1, <2>2, <2>4
  <2> QED
    BY <2>3, <2>4
<1> QED
  BY <1>8, <1>9, <1>10 DEF Locks

(* When a load commits, its lock moves to the queue. *)
LEMMA CommitKeepsLocks ==
  ASSUME TypeOK, Locks, NEW t \in Threads, Commit(t)
  PROVE  Locks'
<1> DEFINE i == Oldest(t)
           c == prog[t][i].chunk
<1>1. /\ i \in Uops(t) /\ i = head[t] + 1
      /\ SetEntry(t, i, Dispatched(prog[t], i)) /\ head' = [head EXCEPT ![t] = i]
      /\ queued' = [queued EXCEPT ![t] = IF rob[t][i].lock THEN @ \cup {c} ELSE @]
      /\ UNCHANGED <<prog, interlocks>>
  BY DEF Commit, MacroOpReady, Oldest
<1>2. /\ rob'[t][i] = Dispatched(prog[t], i)
      /\ \A u \in Threads : \A j \in Uops(u) : u # t \/ j # i => rob'[u][j] = rob[u][j]
  <2>1. RobOK
    BY DEF TypeOK, RobOK
  <2> QED
    BY <1>1, <2>1, SetFacts
<1>3. ~Dispatched(prog[t], i).lock /\ head[t] \in Nat
  BY OldestTyped DEF Dispatched
<1> HIDE DEF i
<1>4. \A u \in Threads : Uops(u)' = Uops(u) /\ Uops(u) \subseteq Nat
  BY <1>1, ProgramTyped DEF Uops
<1>5. \A u \in Threads : \A j \in Uops(u) :
        rob'[u][j].lock <=> rob[u][j].lock /\ ~(u = t /\ j = i)
  BY <1>2, <1>3
<1>6. /\ \A u \in Threads \ {t} : queued'[u] = queued[u] /\ head'[u] = head[u]
      /\ queued'[t] = (IF rob[t][i].lock THEN queued[t] \cup {c} ELSE queued[t])
      /\ head'[t] = i
  BY <1>1 DEF TypeOK
<1>7. LocksOfLoads'
  <2>1. \A j \in Uops(t) : j > head[t] /\ j # i => j > i
    BY <1>1, <1>3, <1>4
  <2> QED
    BY <1>1, <1>4, <1>5, <1>6, <2>1 DEF Locks, LocksOfLoads
<1>8. OneLockEach'
  BY <1>1, <1>4, <1>5, <1>6 DEF Locks, OneLockEach
<1>9. LocksExact'
  <2> SUFFICES ASSUME NEW u \in Threads, NEW d \in Chunks
               PROVE  interlocks[d] = u <=>
                        \/ d \in queued'[u]
                        \/ \E j \in Uops(u) : rob'[u][j].lock /\ prog[u][j].chunk = d
    BY <1>1, <1>4 DEF LocksExact
  <2>1. interlocks[d] = u <=>
          d \in queued[u] \/ \E j \in Uops(u) : rob[u][j].lock /\ prog[u][j].chunk = d
    BY DEF Locks, LocksExact
  <2>2. CASE u # t
    BY <1>5, <1>6, <2>1, <2>2
  <2>3. CASE u = t /\ ~rob[t][i].lock
    BY <1>5, <1>6, <2>1, <2>3
  <2>4. CASE u = t /\ rob[t][i].lock
    BY <1>1, <1>5, <1>6, <2>1, <2>4
  <2> QED
    BY <2>2, <2>3, <2>4
<1> QED
  BY <1>7, <1>8, <1>9 DEF Locks

LEMMA NextKeepsLocks == TypeOK /\ Locks /\ [Next]_vars => Locks'
<1> SUFFICES ASSUME TypeOK, Locks, [Next]_vars PROVE Locks'
  OBVIOUS
<1>1. ASSUME NEW t \in Threads, NEW i \in Uops(t), Issue(t, i) PROVE Locks'
  <2>0. /\ rob[t][i] \in Entries
        /\ Replayed(rob[t][i], Source(t, i)) \in Entries
        /\ Replayed(rob[t][i], Source(t, i)).lock = rob[t][i].lock
    BY EntryTyped DEF Entries, Replayed
  <2>1. CASE \/ LoadWaits(t, i) \/ LoadLockedOut(t, i) \/ StoreForwardsInParallel(t, i)
             \/ StoreLockedOut(t, i)
    <3>1. /\ SetEntry(t, i, Replayed(rob[t][i], Source(t, i)))
          /\ UNCHANGED <<prog, head, interlocks, queued>>
      BY <2>1 DEF LoadWaits, LoadLockedOut, StoreForwardsInParallel, StoreLockedOut
    <3> QED
      BY <2>0, <3>1, SetKeepsLocks
  <2>2. CASE LoadIssues(t, i)
    BY <2>2, LoadKeepsLocks
  <2>3. CASE StoreWaits(t, i)
    <3> DEFINE e == [Replayed(rob[t][i], Source(t, i)) EXCEPT !.second = TRUE]
    <3>1. SetEntry(t, i, e) /\ UNCHANGED <<prog, head, interlocks, queued>>
      BY <2>3 DEF StoreWaits
    <3>2. e.lock <=> rob[t][i].lock
      BY <2>0 DEF Entries
    <3> HIDE DEF e
    <3> QED
      BY <3>1, <3>2, SetKeepsLocks
  <2>4. CASE StoreIssues(t, i)
    <3> DEFINE s == Source(t, i)
               e == [rob[t][i] EXCEPT !.issued = TRUE, !.addrvalid = TRUE,
                       !.datavalid = TRUE, !.second = TRUE, !.rs = s,
                       !.mask = prog[t][i].bytes \cup (IF s = 0 THEN {} ELSE rob[t][s].mask),
                       !.data = Merged(t, i)]
    <3>1. SetEntry(t, i, e) /\ UNCHANGED <<prog, head, interlocks, queued>>
      BY <2>4 DEF StoreIssues
    <3>2. e.lock <=> rob[t][i].lock
      BY <2>0 DEF Entries
    <3> HIDE DEF e
    <3> QED
      BY <3>1, <3>2, SetKeepsLocks
  <2>5. CASE FenceIssues(t, i)
    <3> DEFINE e == [rob[t][i] EXCEPT !.issued = TRUE]
    <3>1. SetEntry(t, i, e) /\ UNCHANGED <<prog, head, interlocks, queued>>
      BY <2>5 DEF FenceIssues
    <3>2. e.lock <=> rob[t][i].lock
      BY <2>0 DEF Entries
    <3> HIDE DEF e
    <3> QED
      BY <3>1, <3>2, SetKeepsLocks
  <2>6. CASE StoreAliases(t, i)
    <3> DEFINE S == {j \in InFlight(t) : j >= i}
    <3>1. /\ Resets(t, S) /\ Unlock(Held(t, S) \cup queued[t])
          /\ queued' = [queued EXCEPT ![t] = {}]
          /\ UNCHANGED <<prog, head>>
      BY <2>6 DEF StoreAliases, Redispatch, Resets
    <3>2. S \in SUBSET Uops(t) /\ queued' = [queued EXCEPT ![t] = @ \ queued[t]]
      BY <3>1 DEF InFlight
    <3> HIDE DEF S
    <3> QED
      BY <3>1, <3>2, ResetKeepsLocks
  <2> QED
    BY <1>1, <2>1, <2>2, <2>3, <2>4, <2>5, <2>6 DEF Issue
<1>2. ASSUME NEW t \in Threads, NEW i \in Uops(t), Annul(t, i) PROVE Locks'
  <2> DEFINE S == {j \in InFlight(t) : j >= i}
  <2>1. Resets(t, S) /\ Unlock(Held(t, S)) /\ UNCHANGED <<prog, head, queued>>
    BY <1>2 DEF Annul, Resets
  <2>2. S \in SUBSET Uops(t)
    BY DEF InFlight
  <2> HIDE DEF S
  <2> DEFINE Q == {}
  <2>3. /\ Q \subseteq queued[t] /\ Held(t, S) \cup Q = Held(t, S)
        /\ queued' = [queued EXCEPT ![t] = @ \ Q]
    BY <2>1 DEF TypeOK
  <2> HIDE DEF Q
  <2>4. Unlock(Held(t, S) \cup Q)
    BY <2>1, <2>3
  <2> QED
    BY <2>1, <2>2, <2>3, <2>4, ResetKeepsLocks
<1>3. ASSUME NEW t \in Threads, FenceWakeup(t) PROVE Locks'
  <2> DEFINE i == Oldest(t)
             e == [rob[t][i] EXCEPT !.addrvalid = TRUE, !.datavalid = TRUE]
  <2>1. /\ i \in Uops(t) /\ SetEntry(t, i, e) /\ Unlock(queued[t])
        /\ queued' = [queued EXCEPT ![t] = {}] /\ UNCHANGED <<prog, head>>
    BY <1>3 DEF FenceWakeup
  <2>2. rob[t][i] \in Entries
    BY <2>1 DEF TypeOK
  <2> HIDE DEF i
  <2>3. e.lock = rob[t][i].lock
    BY <2>2 DEF Entries
  <2> HIDE DEF e
  <2>4. \A u \in Threads : \A j \in Uops(u) : rob'[u][j].lock <=> rob[u][j].lock
    <3>1. RobOK
      BY DEF TypeOK, RobOK
    <3> QED
      BY <2>1, <2>3, <3>1, SetFacts
  <2>5. Held(t, {}) = {}
    BY DEF Held
  <2>6. Released(t, {}, queued[t])
    BY <2>1, <2>4, <2>5 DEF Released, Unlock
  <2>7. \A u \in Threads : \A j \in Uops(u) : rob'[u][j].lock => j > head'[u]
    BY <2>1, <2>4 DEF Locks, LocksOfLoads
  <2> QED
    BY <2>1, <2>6, <2>7, ReleaseKeepsLocks
<1>4. ASSUME NEW t \in Threads, Commit(t) PROVE Locks'
  BY <1>4, CommitKeepsLocks
<1>5. ASSUME NEW t \in Threads, Flush(t) PROVE Locks'
  <2>1. /\ Resets(t, Uops(t)) /\ Unlock(Held(t, Uops(t)) \cup queued[t])
        /\ queued' = [queued EXCEPT ![t] = {}]
        /\ head' = [head EXCEPT ![t] = prog[t][Oldest(t)].som - 1]
        /\ UNCHANGED prog
    BY <1>5 DEF Flush, Redispatch, Resets
  <2>2. /\ queued' = [queued EXCEPT ![t] = @ \ queued[t]]
        /\ \A u \in Threads \ {t} : head'[u] = head[u]
    BY <2>1 DEF TypeOK
  <2> QED
    BY <2>1, <2>2, ResetKeepsLocks
<1>6. CASE NextCycle \/ UNCHANGED vars
  <2>1. UNCHANGED <<prog, rob, head, interlocks, queued>>
    BY <1>6 DEF NextCycle, vars
  <2> QED
    BY <2>1 DEF Locks, LocksOfLoads, LocksExact, OneLockEach, Uops
<1> QED
  BY <1>1, <1>2, <1>3, <1>4, <1>5, <1>6 DEF Next

(* The queues keep their types: uops, entries, locks and the data that     *)
(* loads and stores pass along, and no thread commits past its program or  *)
(* flushes back before its start.                                          *)
THEOREM QueueTypeCorrect == Spec => []TypeOK
<1>1. Init => TypeOK /\ Locks
  BY InitTyped, InitLocks
<1>2. TypeOK /\ Locks /\ [Next]_vars => TypeOK' /\ Locks'
  BY NextTyped, NextKeepsLocks DEF Locks
<1> QED
  BY <1>1, <1>2, PTL DEF Spec

(* No lock outlives the load that took it and no release hits another's    *)
(* chunk: through replay, redispatch, annulment, flushes and commits, a    *)
(* thread holds exactly the chunks that its loads in flight have locked or *)
(* whose release is queued (LocksAccounted).                               *)
THEOREM LocksSound == Spec => []LocksAccounted
<1>1. Init => TypeOK /\ Locks
  BY InitTyped, InitLocks
<1>2. TypeOK /\ Locks /\ [Next]_vars => TypeOK' /\ Locks'
  BY NextTyped, NextKeepsLocks DEF Locks
<1> QED
  BY <1>1, <1>2, LocksAgree, PTL DEF Spec

--------------------------------------------------------------------------------
(* Fences *)

(* Fence i, not complete, holds uop j of its thread back. *)
Holds(t, i, j) ==
  /\ i \in InFlight(t) /\ j \in InFlight(t) /\ j > i
  /\ prog[t][i].kind = "mf" /\ prog[t][j].kind \in prog[t][i].holds
  /\ ~rob[t][i].addrvalid

FencesOldest ==
  \A t \in Threads : \A i \in InFlight(t) :
    prog[t][i].kind = "mf" /\ rob[t][i].addrvalid => i = Oldest(t)

StoresIssued ==
  \A t \in Threads : \A i \in Uops(t) :
    prog[t][i].kind = "st" /\ rob[t][i].datavalid => rob[t][i].issued

(* What is held back has not issued, and a load waits for a fence from its *)
(* dispatch on: that fence or a later one.                                 *)
HeldBack ==
  \A t \in Threads : \A i, j \in Uops(t) : Holds(t, i, j) =>
    /\ ~rob[t][j].issued
    /\ prog[t][j].kind = "ld" =>
         rob[t][j].rs \in i..(j - 1) /\ prog[t][rob[t][j].rs].kind = "mf"

Fences == FencesOldest /\ StoresIssued /\ HeldBack

LEMMA FencesAgree == TypeOK /\ Fences => FencesHold
<1> SUFFICES ASSUME TypeOK, Fences, NEW t \in Threads, NEW i \in InFlight(t),
                    prog[t][i].kind = "mf"
             PROVE  IF rob[t][i].addrvalid THEN i = Oldest(t)
                    ELSE \A j \in InFlight(t) :
                           j > i /\ prog[t][j].kind \in prog[t][i].holds => ~rob[t][j].issued
  BY DEF FencesHold
<1>1. InFlight(t) \subseteq Uops(t)
  BY DEF InFlight
<1> QED
  BY <1>1 DEF Fences, FencesOldest, HeldBack, Holds

(* Dispatch puts an uop behind the last fence that holds it back. *)
LEMMA NearestFenceIn ==
  ASSUME NEW p \in Seq(Ops), NEW j \in 1..Len(p), NEW i \in 1..(j - 1),
         p[i].kind = "mf", p[j].kind \in p[i].holds
  PROVE  NearestFence(p, j) \in i..(j - 1) /\ p[NearestFence(p, j)].kind = "mf"
<1> DEFINE F == {k \in 1..(j - 1) : p[k].kind = "mf" /\ p[j].kind \in p[k].holds}
<1>1. F \in SUBSET (1..(j - 1)) /\ j - 1 \in Nat /\ i \in F /\ \A k \in F : p[k].kind = "mf"
  OBVIOUS
<1>2. NearestFence(p, j) = Greatest(F)
  BY DEF NearestFence
<1> HIDE DEF F
<1>3. Greatest(F) \in F /\ i <= Greatest(F) /\ Greatest(F) \in 0..(j - 1)
  BY <1>1, GreatestIn
<1> QED
  BY <1>1, <1>2, <1>3

(* A load that a fence holds back waits for its rs operand ... *)
LEMMA HeldLoadWaits ==
  ASSUME TypeOK, Fences, NEW t \in Threads, NEW i \in Uops(t), NEW j \in Uops(t), Holds(t, i, j)
  PROVE  ~CanIssue(t, j, "ld")
<1> SUFFICES ASSUME CanIssue(t, j, "ld") PROVE FALSE
  OBVIOUS
<1> DEFINE r == rob[t][j].rs
<1>1. /\ prog[t][j].kind = "ld" /\ r \in i..(j - 1) /\ prog[t][r].kind = "mf"
      /\ OperandReady(t, r) /\ i > head[t] /\ i \in Uops(t) /\ ~rob[t][i].addrvalid
  BY DEF CanIssue, Fences, HeldBack, Holds, InFlight
<1>2. Uops(t) = 1..Len(prog[t]) /\ Len(prog[t]) \in Nat /\ head[t] \in Nat
  BY ProgramTyped
<1> HIDE DEF r
<1>3. r \in InFlight(t)
  BY <1>1, <1>2 DEF InFlight
<1>4. r = head[t] + 1
  BY <1>1, <1>3 DEF OperandReady, Complete, Fences, FencesOldest, Oldest
<1>5. r = i
  BY <1>1, <1>2, <1>4
<1> QED
  BY <1>1, <1>3, <1>5 DEF OperandReady, Complete

(* ... and a store finds the fence, or a store behind it, in its way. *)
LEMMA HeldStoreWaits ==
  ASSUME TypeOK, Fences, NEW t \in Threads, NEW i \in Uops(t), NEW j \in Uops(t), Holds(t, i, j)
  PROVE  ~(prog[t][j].kind = "st" /\ Resolved(t, Source(t, j)))
<1> SUFFICES ASSUME prog[t][j].kind = "st", Resolved(t, Source(t, j)) PROVE FALSE
  OBVIOUS
<1> DEFINE s == Source(t, j)
<1>1. i \in Sources(t, j)
  BY DEF Sources, OlderStores, Holds
<1>2. s \in Sources(t, j) /\ i <= s /\ s \in Uops(t) /\ s \in InFlight(t) /\ s # 0
  BY <1>1, SourceTyped, ProgramTyped DEF InFlight
<1>3. rob[t][s].addrvalid /\ rob[t][s].datavalid
  BY <1>2 DEF Resolved
<1>4. prog[t][s].kind # "mf"
  BY <1>2, <1>3 DEF Sources
<1>5. prog[t][s].kind = "st"
  BY <1>2, <1>4, SourceTyped, ProgramTyped DEF Ops
<1> HIDE DEF s
<1>6. Holds(t, i, s)
  <2>1. s > i
    BY <1>2, <1>4, ProgramTyped DEF Holds
  <2> QED
    BY <1>2, <1>5, <2>1 DEF Holds
<1> QED
  BY <1>2, <1>3, <1>5, <1>6 DEF Fences, StoresIssued, HeldBack

LEMMA InitFences == Init => Fences
<1> SUFFICES ASSUME Init PROVE Fences
  OBVIOUS
<1>1. TypeOK
  BY InitTyped
<1>2. ASSUME NEW t \in Threads, NEW i \in Uops(t)
      PROVE  /\ rob[t][i] = Dispatched(prog[t], i) /\ ~rob[t][i].issued
             /\ ~rob[t][i].addrvalid /\ ~rob[t][i].datavalid
             /\ rob[t][i].rs = NearestFence(prog[t], i)
  BY DEF Init, Dispatched
<1>3. ASSUME NEW t \in Threads, NEW i \in Uops(t), NEW j \in Uops(t), Holds(t, i, j)
      PROVE  rob[t][j].rs \in i..(j - 1) /\ prog[t][rob[t][j].rs].kind = "mf"
  <2>1. /\ prog[t] \in Seq(Ops) /\ j \in 1..Len(prog[t]) /\ i \in 1..(j - 1)
        /\ prog[t][i].kind = "mf" /\ prog[t][j].kind \in prog[t][i].holds
    BY <1>1, <1>3, ProgramTyped DEF Holds
  <2> QED
    BY <1>2, <2>1, NearestFenceIn
<1> QED
  BY <1>2, <1>3 DEF Fences, FencesOldest, StoresIssued, HeldBack, InFlight

(* One entry is set: a fence completes only as the oldest uop, and what is *)
(* held back neither issues nor waits for something else.                  *)
LEMMA SetKeepsFences ==
  ASSUME TypeOK, Fences, NEW t \in Threads, NEW i \in Uops(t), NEW e, SetEntry(t, i, e),
         UNCHANGED <<prog, head>>,
         prog[t][i].kind = "mf" =>
           /\ e.addrvalid => rob[t][i].addrvalid \/ i = Oldest(t)
           /\ rob[t][i].addrvalid => e.addrvalid,
         prog[t][i].kind = "st" /\ e.datavalid => e.issued,
         \A k \in Uops(t) : Holds(t, k, i) =>
           ~e.issued /\ (prog[t][i].kind = "ld" => e.rs = rob[t][i].rs)
  PROVE  Fences'
<1>1. /\ rob'[t][i] = e
      /\ \A u \in Threads : \A j \in Uops(u) : u # t \/ j # i => rob'[u][j] = rob[u][j]
  <2>1. RobOK
    BY DEF TypeOK, RobOK
  <2> QED
    BY <2>1, SetFacts
<1>2. \A u \in Threads : Uops(u)' = Uops(u) /\ InFlight(u)' = InFlight(u) /\ Oldest(u)' = Oldest(u)
  BY DEF Uops, InFlight, Oldest
<1>3. \A u \in Threads : InFlight(u) \subseteq Uops(u)
  BY DEF InFlight
<1>4. FencesOldest'
  BY <1>1, <1>2, <1>3 DEF Fences, FencesOldest
<1>5. StoresIssued'
  BY <1>1, <1>2 DEF Fences, StoresIssued
<1>6. ASSUME NEW u \in Threads, NEW k \in Uops(u), NEW j \in Uops(u), Holds(u, k, j)'
      PROVE  Holds(u, k, j)
  BY <1>1, <1>2, <1>6 DEF Holds
<1>7. HeldBack'
  <2> SUFFICES ASSUME NEW u \in Threads, NEW k \in Uops(u), NEW j \in Uops(u), Holds(u, k, j)'
               PROVE  /\ ~rob'[u][j].issued
                      /\ prog[u][j].kind = "ld" =>
                           rob'[u][j].rs \in k..(j - 1) /\ prog[u][rob'[u][j].rs].kind = "mf"
    BY <1>2 DEF HeldBack
  <2>1. Holds(u, k, j)
    BY <1>6
  <2>2. /\ ~rob[u][j].issued
        /\ prog[u][j].kind = "ld" =>
             rob[u][j].rs \in k..(j - 1) /\ prog[u][rob[u][j].rs].kind = "mf"
    BY <2>1 DEF Fences, HeldBack
  <2>3. CASE u = t /\ j = i
    BY <1>1, <2>1, <2>2, <2>3
  <2>4. CASE ~(u = t /\ j = i)
    BY <1>1, <2>2, <2>4
  <2> QED
    BY <2>3, <2>4
<1> QED
  BY <1>4, <1>5, <1>7 DEF Fences

(* Entries are dispatched again together with everything behind them. *)
LEMMA ResetKeepsFences ==
  ASSUME TypeOK, Fences, NEW t \in Threads, NEW S \in SUBSET Uops(t), Resets(t, S), prog' = prog,
         \A i \in S : \A j \in Uops(t) : j > i => j \in S,
         \/ head' = head
         \/ S = Uops(t) /\ \A u \in Threads \ {t} : head'[u] = head[u]
  PROVE  Fences'
<1>1. /\ \A u \in Threads \ {t} : rob'[u] = rob[u]
      /\ \A i \in Uops(t) :
           rob'[t][i] = IF i \in S THEN Dispatched(prog[t], i) ELSE rob[t][i]
  <2>1. RobOK
    BY DEF TypeOK, RobOK
  <2> QED
    BY <2>1, ResetFacts
<1>2. \A u \in Threads : Uops(u)' = Uops(u)
  BY DEF Uops
<1>3. \A u \in Threads : u # t \/ S # Uops(t) => InFlight(u)' = InFlight(u) /\ Oldest(u)' = Oldest(u)
  BY DEF InFlight, Oldest, Uops
<1>4. \A i \in Uops(t) :
        LET d == Dispatched(prog[t], i)
        IN  ~d.issued /\ ~d.addrvalid /\ ~d.datavalid /\ d.rs = NearestFence(prog[t], i)
  BY DEF Dispatched
<1>5. FencesOldest'
  <2> SUFFICES ASSUME NEW u \in Threads, NEW i \in InFlight(u)',
                      prog[u][i].kind = "mf", rob'[u][i].addrvalid
               PROVE  i = Oldest(u)'
    BY DEF FencesOldest
  <2>1. i \in Uops(u)
    BY <1>2 DEF InFlight
  <2>2. CASE u = t /\ i \in S
    BY <1>1, <1>4, <2>1, <2>2
  <2>3. CASE u # t \/ i \notin S
    <3>1. rob'[u][i] = rob[u][i] /\ (u # t \/ S # Uops(t))
      BY <1>1, <2>1, <2>3
    <3> QED
      BY <1>3, <3>1 DEF Fences, FencesOldest
  <2> QED
    BY <2>2, <2>3
<1>6. StoresIssued'
  BY <1>1, <1>2, <1>4 DEF Fences, StoresIssued
<1>7. HeldBack'
  <2> SUFFICES ASSUME NEW u \in Threads, NEW k \in Uops(u), NEW j \in Uops(u), Holds(u, k, j)'
               PROVE  /\ ~rob'[u][j].issued
                      /\ prog[u][j].kind = "ld" =>
                           rob'[u][j].rs \in k..(j - 1) /\ prog[u][rob'[u][j].rs].kind = "mf"
    BY <1>2 DEF HeldBack
  <2>1. j > k /\ prog[u][k].kind = "mf" /\ prog[u][j].kind \in prog[u][k].holds
    BY DEF Holds
  <2>2. CASE u = t /\ j \in S
    <3>1. prog[t] \in Seq(Ops) /\ j \in 1..Len(prog[t]) /\ k \in 1..(j - 1)
      BY <2>1, <2>2, ProgramTyped
    <3>2. NearestFence(prog[t], j) \in k..(j - 1) /\ prog[t][NearestFence(prog[t], j)].kind = "mf"
      BY <2>1, <2>2, <3>1, NearestFenceIn
    <3> QED
      BY <1>1, <1>4, <2>2, <3>2
  <2>3. CASE u # t \/ j \notin S
    <3>1. /\ rob'[u][j] = rob[u][j] /\ rob'[u][k] = rob[u][k]
          /\ u # t \/ S # Uops(t)
      BY <1>1, <2>1, <2>3
    <3>2. Holds(u, k, j)
      BY <1>3, <3>1 DEF Holds
    <3> QED
      BY <3>1, <3>2 DEF Fences, HeldBack
  <2> QED
    BY <2>2, <2>3
<1> QED
  BY <1>5, <1>6, <1>7 DEF Fences

(* The oldest uop leaves, complete. *)
LEMMA CommitKeepsFences ==
  ASSUME TypeOK, Fences, NEW t \in Threads, Commit(t)
  PROVE  Fences'
<1> DEFINE i == Oldest(t)
<1>1. /\ i \in Uops(t) /\ SetEntry(t, i, Dispatched(prog[t], i))
      /\ head' = [head EXCEPT ![t] = i] /\ prog' = prog
  BY DEF Commit, MacroOpReady
<1>2. /\ rob'[t][i] = Dispatched(prog[t], i)
      /\ \A u \in Threads : \A j \in Uops(u) : u # t \/ j # i => rob'[u][j] = rob[u][j]
  <2>1. RobOK
    BY DEF TypeOK, RobOK
  <2> QED
    BY <1>1, <2>1, SetFacts
<1>3. /\ head[t] \in Nat /\ i = head[t] + 1 /\ \A u \in Threads : Uops(u) \subseteq Nat
      /\ \A u \in Threads : head'[u] = IF u = t THEN i ELSE head[u]
  <2>1. head[t] \in Nat /\ i = head[t] + 1
    BY OldestTyped
  <2>2. \A u \in Threads : Uops(u) \subseteq Nat
    BY ProgramTyped
  <2> HIDE DEF i
  <2>3. \A u \in Threads : head'[u] = IF u = t THEN i ELSE head[u]
    BY <1>1 DEF TypeOK
  <2> QED
    BY <2>1, <2>2, <2>3
<1>4. \A u \in Threads : Uops(u)' = Uops(u) /\ InFlight(u) \subseteq Uops(u)
  BY <1>1 DEF Uops, InFlight
<1>5. \A u \in Threads : InFlight(u)' = InFlight(u) \ (IF u = t THEN {i} ELSE {})
  BY <1>3, <1>4 DEF InFlight
<1>6. \A u \in Threads \ {t} : Oldest(u)' = Oldest(u)
  BY <1>3 DEF Oldest
<1>7. ~Dispatched(prog[t], i).addrvalid /\ ~Dispatched(prog[t], i).datavalid
  BY DEF Dispatched
<1> HIDE DEF i
<1>8. FencesOldest'
  <2> SUFFICES ASSUME NEW u \in Threads, NEW k \in InFlight(u)',
                      prog[u][k].kind = "mf", rob'[u][k].addrvalid
               PROVE  k = Oldest(u)'
    BY <1>1 DEF FencesOldest
  <2>1. k \in InFlight(u) /\ rob'[u][k] = rob[u][k]
    BY <1>2, <1>4, <1>5
  <2>2. k = Oldest(u)
    BY <2>1 DEF Fences, FencesOldest
  <2>3. u # t
    BY <1>5, <2>2 DEF i
  <2> QED
    BY <1>6, <2>2, <2>3
<1>9. StoresIssued'
  BY <1>1, <1>2, <1>4, <1>7 DEF Fences, StoresIssued
<1>10. HeldBack'
  <2> SUFFICES ASSUME NEW u \in Threads, NEW k \in Uops(u), NEW j \in Uops(u), Holds(u, k, j)'
               PROVE  /\ ~rob'[u][j].issued
                      /\ prog[u][j].kind = "ld" =>
                           rob'[u][j].rs \in k..(j - 1) /\ prog[u][rob'[u][j].rs].kind = "mf"
    BY <1>1, <1>4 DEF HeldBack
  <2>1. /\ k \in InFlight(u) /\ j \in InFlight(u)
        /\ rob'[u][j] = rob[u][j] /\ rob'[u][k] = rob[u][k]
    BY <1>2, <1>5 DEF Holds
  <2>2. Holds(u, k, j)
    BY <1>1, <2>1 DEF Holds
  <2> QED
    BY <2>1, <2>2 DEF Fences, HeldBack
<1> QED
  BY <1>8, <1>9, <1>10 DEF Fences

LEMMA NextKeepsFences == TypeOK /\ Fences /\ [Next]_vars => Fences'
<1> SUFFICES ASSUME TypeOK, Fences, [Next]_vars PROVE Fences'
  OBVIOUS
<1>1. ASSUME NEW t \in Threads, NEW i \in Uops(t), Issue(t, i) PROVE Fences'
  <2> DEFINE s == Source(t, i)
             r == Replayed(rob[t][i], s)
  <2>0. /\ rob[t][i] \in Entries /\ r \in Entries
        /\ r.issued = rob[t][i].issued /\ ~r.datavalid
    <3>1. /\ rob[t][i] \in Entries /\ r \in Entries
          /\ r = [rob[t][i] EXCEPT !.addrvalid = TRUE, !.datavalid = FALSE, !.rs = s]
      BY EntryTyped
    <3> HIDE DEF r, s
    <3> QED
      BY <3>1 DEF Entries
  <2> HIDE DEF r
  <2>1. CASE LoadWaits(t, i) \/ LoadLockedOut(t, i)
    <3>1. /\ SetEntry(t, i, r) /\ CanIssue(t, i, "ld") /\ prog[t][i].kind = "ld"
          /\ UNCHANGED <<prog, head>>
      BY <2>1 DEF LoadWaits, LoadLockedOut, r, CanIssue
    <3>2. \A k \in Uops(t) : ~Holds(t, k, i)
      BY <3>1, HeldLoadWaits
    <3> QED
      BY <3>1, <3>2, SetKeepsFences
  <2>2. CASE LoadIssues(t, i)
    <3> DEFINE e == [rob[t][i] EXCEPT !.issued = TRUE, !.addrvalid = TRUE,
                       !.datavalid = TRUE, !.rs = s,
                       !.lock = prog[t][i].locked, !.data = Loaded(t, i)]
    <3>1. /\ SetEntry(t, i, e) /\ CanIssue(t, i, "ld") /\ prog[t][i].kind = "ld"
          /\ UNCHANGED <<prog, head>>
      BY <2>2 DEF LoadIssues, CanIssue
    <3> HIDE DEF e
    <3>2. \A k \in Uops(t) : ~Holds(t, k, i)
      BY <3>1, HeldLoadWaits
    <3> QED
      BY <3>1, <3>2, SetKeepsFences
  <2>3. CASE StoreForwardsInParallel(t, i) \/ StoreLockedOut(t, i)
    <3>1. /\ SetEntry(t, i, r) /\ prog[t][i].kind = "st" /\ ~rob[t][i].issued
          /\ UNCHANGED <<prog, head>>
      BY <2>3 DEF StoreForwardsInParallel, StoreLockedOut, StoreReady, r, CanIssue
    <3> QED
      BY <2>0, <3>1, SetKeepsFences
  <2>4. CASE StoreWaits(t, i)
    <3> DEFINE e == [r EXCEPT !.second = TRUE]
    <3>1. /\ SetEntry(t, i, e) /\ prog[t][i].kind = "st" /\ ~rob[t][i].issued
          /\ UNCHANGED <<prog, head>>
      BY <2>4 DEF StoreWaits, CanIssue, r
    <3>2. e.issued = r.issued /\ e.datavalid = r.datavalid
      BY <2>0 DEF Entries
    <3> HIDE DEF e
    <3> QED
      BY <2>0, <3>1, <3>2, SetKeepsFences
  <2>5. CASE StoreIssues(t, i)
    <3> DEFINE e == [rob[t][i] EXCEPT !.issued = TRUE, !.addrvalid = TRUE,
                       !.datavalid = TRUE, !.second = TRUE, !.rs = s,
                       !.mask = prog[t][i].bytes \cup (IF s = 0 THEN {} ELSE rob[t][s].mask),
                       !.data = Merged(t, i)]
    <3>1. /\ SetEntry(t, i, e) /\ prog[t][i].kind = "st" /\ Resolved(t, Source(t, i))
          /\ UNCHANGED <<prog, head>>
      BY <2>5 DEF StoreIssues, StoreReady, CanIssue
    <3>2. e.issued
      BY <2>0 DEF Entries
    <3> HIDE DEF e
    <3>3. \A k \in Uops(t) : ~Holds(t, k, i)
      BY <3>1, HeldStoreWaits
    <3> QED
      BY <3>1, <3>2, <3>3, SetKeepsFences
  <2>6. CASE FenceIssues(t, i)
    <3> DEFINE e == [rob[t][i] EXCEPT !.issued = TRUE]
    <3>1. SetEntry(t, i, e) /\ prog[t][i].kind = "mf" /\ UNCHANGED <<prog, head>>
      BY <2>6 DEF FenceIssues, CanIssue
    <3>2. e.addrvalid = rob[t][i].addrvalid
      BY <2>0 DEF Entries
    <3>3. \A k \in Uops(t) : ~Holds(t, k, i)
      BY <3>1, ProgramTyped DEF Holds, Ops
    <3> HIDE DEF e
    <3> QED
      BY <3>1, <3>2, <3>3, SetKeepsFences
  <2>7. CASE StoreAliases(t, i)
    <3> DEFINE S == {j \in InFlight(t) : j >= i}
    <3>1. Resets(t, S) /\ UNCHANGED <<prog, head>>
      BY <2>7 DEF StoreAliases, Redispatch, Resets
    <3>2. S \in SUBSET Uops(t) /\ \A k \in S : \A j \in Uops(t) : j > k => j \in S
      BY ProgramTyped DEF InFlight
    <3> HIDE DEF S
    <3> QED
      BY <3>1, <3>2, ResetKeepsFences
  <2> QED
    BY <1>1, <2>1, <2>2, <2>3, <2>4, <2>5, <2>6, <2>7 DEF Issue
<1>2. ASSUME NEW t \in Threads, NEW i \in Uops(t), Annul(t, i) PROVE Fences'
  <2> DEFINE S == {j \in InFlight(t) : j >= i}
  <2>1. Resets(t, S) /\ UNCHANGED <<prog, head>>
    BY <1>2 DEF Annul, Resets
  <2>2. S \in SUBSET Uops(t) /\ \A k \in S : \A j \in Uops(t) : j > k => j \in S
    BY ProgramTyped DEF InFlight
  <2> HIDE DEF S
  <2> QED
    BY <2>1, <2>2, ResetKeepsFences
<1>3. ASSUME NEW t \in Threads, FenceWakeup(t) PROVE Fences'
  <2> DEFINE i == Oldest(t)
             e == [rob[t][i] EXCEPT !.addrvalid = TRUE, !.datavalid = TRUE]
  <2>1. /\ i \in Uops(t) /\ SetEntry(t, i, e) /\ prog[t][i].kind = "mf"
        /\ UNCHANGED <<prog, head>>
    BY <1>3 DEF FenceWakeup
  <2>2. rob[t][i] \in Entries
    BY <2>1 DEF TypeOK
  <2>3. \A k \in Uops(t) : ~Holds(t, k, i)
    BY <2>1, ProgramTyped DEF Holds, Ops
  <2>4. i = Oldest(t)
    OBVIOUS
  <2> HIDE DEF i
  <2>5. e.addrvalid
    BY <2>2 DEF Entries
  <2> HIDE DEF e
  <2> QED
    BY <2>1, <2>3, <2>4, <2>5, SetKeepsFences
<1>4. ASSUME NEW t \in Threads, Commit(t) PROVE Fences'
  BY <1>4, CommitKeepsFences
<1>5. ASSUME NEW t \in Threads, Flush(t) PROVE Fences'
  <2>1. /\ Resets(t, Uops(t)) /\ prog' = prog
        /\ head' = [head EXCEPT ![t] = prog[t][Oldest(t)].som - 1]
    BY <1>5 DEF Flush, Redispatch, Resets
  <2>2. \A u \in Threads \ {t} : head'[u] = head[u]
    BY <2>1 DEF TypeOK
  <2> QED
    BY <2>1, <2>2, ResetKeepsFences
<1>6. CASE NextCycle \/ UNCHANGED vars
  <2>1. UNCHANGED <<prog, rob, head>>
    BY <1>6 DEF NextCycle, vars
  <2> QED
    BY <2>1 DEF Fences, FencesOldest, StoresIssued, HeldBack, Holds, InFlight, Oldest, Uops
<1> QED
  BY <1>1, <1>2, <1>3, <1>4, <1>5, <1>6 DEF Next

(* Fences order memory: whatever is replayed, redispatched, annulled or    *)
(* flushed, a fence completes only as the oldest uop of its thread, and    *)
(* until then no load or store that it holds back has issued (FencesHold). *)
THEOREM FencesSound == Spec => []FencesHold
<1>1. Init => TypeOK /\ Locks /\ Fences
  BY InitTyped, InitLocks, InitFences
<1>2. TypeOK /\ Locks /\ Fences /\ [Next]_vars => TypeOK' /\ Locks' /\ Fences'
  BY NextTyped, NextKeepsLocks, NextKeepsFences DEF Locks
<1> QED
  BY <1>1, <1>2, FencesAgree, PTL DEF Spec

--------------------------------------------------------------------------------
(* Data *)

(* A thread that alone stores to a chunk in a program. *)
PrivateIn(p, t, c) ==
  \A u \in Threads \ {t} : \A i \in 1..Len(p[u]) : p[u][i].kind = "st" => p[u][i].chunk # c

(* The issued stores before i whose bytes a load or a store at i sees.     *)
Writers(t, i, b) ==
  {j \in InFlight(t) :
     /\ j < i /\ prog[t][j].kind = "st" /\ rob[t][j].issued
     /\ prog[t][j].chunk = prog[t][i].chunk /\ b \in prog[t][j].bytes}

(* v is what the last of them stores, or else what memory holds.           *)
Sees(t, i, b, v) ==
  \/ Writers(t, i, b) = {} /\ v = mem[prog[t][i].chunk][b]
  \/ \E j \in Writers(t, i, b) : v = <<t, j>> /\ \A k \in Writers(t, i, b) : k <= j

Known ==
  \A t \in Threads : \A i \in Uops(t) :
    /\ rob[t][i].issued /\ prog[t][i].kind # "mf" => rob[t][i].addrvalid
    /\ prog[t][i].kind = "ld" => (rob[t][i].lock <=> rob[t][i].issued /\ prog[t][i].locked)

(* A store issues after all older stores of its chunk.                     *)
StoresInOrder ==
  \A t \in Threads : \A i, j \in InFlight(t) :
    /\ j < i /\ prog[t][i].kind = "st" /\ prog[t][j].kind = "st"
    /\ prog[t][j].chunk = prog[t][i].chunk /\ rob[t][i].issued
    => rob[t][j].issued

(* v is what the last store of the thread to the byte left, with no fence  *)
(* for stores between it and the store i.                                  *)
Rewrites(t, i, b, v) == \E j \in InOrder!LastStore(t, i, b) : v = <<t, j>>

(* What an issued load or store carries is what it sees, if nobody else    *)
(* writes its chunk; the bytes a store merged are its thread's own.        *)
LoadSees(t, i) ==
  /\ prog[t][i].kind = "ld" /\ rob[t][i].issued
  /\ PrivateIn(prog, t, prog[t][i].chunk) \/ rob[t][i].lock
  => \A b \in prog[t][i].bytes : Sees(t, i, b, rob[t][i].data[b])
StoreSees(t, i) ==
  prog[t][i].kind = "st" /\ rob[t][i].issued =>
    /\ prog[t][i].bytes \subseteq rob[t][i].mask
    /\ \A b \in prog[t][i].bytes : rob[t][i].data[b] = <<t, i>>
    /\ \A b \in rob[t][i].mask \ prog[t][i].bytes :
         /\ PrivateIn(prog, t, prog[t][i].chunk) => Sees(t, i, b, rob[t][i].data[b])
         /\ Rewrites(t, i, b, rob[t][i].data[b])
    /\ \A b \in Bytes \ rob[t][i].mask : Writers(t, i, b) = {}
Seen == \A t \in Threads : \A i \in InFlight(t) : LoadSees(t, i) /\ StoreSees(t, i)

(* The locked load i has committed and the store j of its instruction has  *)
(* not: the lock is kept and the whole instruction has issued.             *)
Updating(t, i, j) ==
  /\ i <= head[t] /\ j > head[t]
  /\ prog[t][i].kind = "ld" /\ prog[t][i].locked
  /\ prog[t][j].kind = "st" /\ prog[t][j].locked
  /\ prog[t][i].som = prog[t][j].som /\ prog[t][i].chunk = prog[t][j].chunk
Updates ==
  \A t \in Threads : \A i, j \in Uops(t) : Updating(t, i, j) =>
    /\ prog[t][i].chunk \in queued[t]
    /\ \A k \in InFlight(t) : k <= prog[t][i].eom => rob[t][k].issued

Data == Known /\ StoresInOrder /\ Seen /\ Updates /\ DOMAIN arf = Threads

(* The uops between the ends that an uop knows are of its instruction.     *)
LEMMA SameInstruction ==
  ASSUME TypeOK, NEW t \in Threads, NEW i \in Uops(t)
  PROVE  /\ prog[t][i].som \in 1..i /\ prog[t][i].eom \in i..Len(prog[t])
         /\ prog[t][i].som \in Uops(t) /\ prog[t][i].eom \in Uops(t)
         /\ \A k \in prog[t][i].som..prog[t][i].eom :
              k \in Uops(t) /\ prog[t][k].som = prog[t][i].som /\ prog[t][k].eom = prog[t][i].eom
         /\ prog[t][i].kind = "ld" /\ prog[t][i].locked =>
              /\ FullFence(prog[t][prog[t][i].som]) /\ FullFence(prog[t][prog[t][i].eom])
              /\ \A k \in prog[t][i].som + 1..prog[t][i].eom - 1 : prog[t][k].kind # "mf"
              /\ \A k \in prog[t][i].som..i : prog[t][k].kind # "st"
<1>1. prog \in Programs /\ i \in 1..Len(prog[t]) /\ Len(prog[t]) \in Nat /\ i \in Nat
  BY ProgramTyped DEF TypeOK, Uops
<1>2. prog[t][i].som \in 1..i /\ prog[t][i].eom \in i..Len(prog[t])
  BY <1>1, QueueAssumption
<1>3. \A k \in prog[t][i].som..prog[t][i].eom : k \in Uops(t)
  BY <1>1, <1>2 DEF Uops
<1>4. prog[t][i].som \in Uops(t) /\ prog[t][i].eom \in Uops(t)
  BY <1>1, <1>2 DEF Uops
<1>5. /\ \A k \in prog[t][i].som..prog[t][i].eom :
           prog[t][k].som = prog[t][i].som /\ prog[t][k].eom = prog[t][i].eom
      /\ prog[t][i].kind = "ld" /\ prog[t][i].locked =>
           /\ FullFence(prog[t][prog[t][i].som]) /\ FullFence(prog[t][prog[t][i].eom])
           /\ \A k \in prog[t][i].som + 1..prog[t][i].eom - 1 : prog[t][k].kind # "mf"
           /\ \A k \in prog[t][i].som..i : prog[t][k].kind # "st"
  BY <1>1, InstructionsAssumption
<1> QED
  BY <1>2, <1>3, <1>4, <1>5

(* A locked load issues only when no store before it is in flight: those   *)
(* of older instructions are before its first fence, its own are behind.   *)
LEMMA LockedFirst ==
  ASSUME TypeOK, Fences, NEW t \in Threads, NEW i \in InFlight(t),
         prog[t][i].kind = "ld", prog[t][i].locked,
         CanIssue(t, i, "ld") \/ rob[t][i].issued,
         NEW j \in InFlight(t), j < i
  PROVE  prog[t][j].kind # "st"
<1> DEFINE f == prog[t][i].som
<1>1. /\ f \in 1..i /\ f \in Uops(t) /\ FullFence(prog[t][f])
      /\ \A k \in f..i : prog[t][k].kind # "st"
  BY SameInstruction DEF InFlight
<1>2. /\ i \in Uops(t) /\ j \in Uops(t) /\ i \in Nat /\ j \in Nat /\ f \in Nat
      /\ head[t] \in Nat /\ j > head[t] /\ i > head[t]
  BY <1>1, ProgramTyped DEF InFlight
<1> HIDE DEF f
<1>3. CASE f <= j
  <2>1. j \in f..i
    BY <1>2, <1>3
  <2> QED
    BY <1>1, <2>1
<1>4. CASE j < f
  <2>1. f > head[t] /\ f # Oldest(t) /\ f < i
    <3>1. f # i
      BY <1>1 DEF FullFence
    <3> QED
      BY <1>1, <1>2, <1>4, <3>1 DEF Oldest
  <2>2. Holds(t, f, i)
    BY <1>1, <1>2, <2>1 DEF Holds, FullFence, Fences, FencesOldest, InFlight
  <2>3. ~rob[t][i].issued
    BY <1>1, <1>2, <2>2 DEF Fences, HeldBack
  <2>4. ~CanIssue(t, i, "ld")
    BY <1>1, <1>2, <2>2, HeldLoadWaits
  <2> QED
    BY <2>3, <2>4
<1> QED
  BY <1>2, <1>3, <1>4

(* During an update the store lies between the fences of the instruction,  *)
(* the last of them is still to complete, and there is none before it.     *)
LEMMA UpdateFenced ==
  ASSUME TypeOK, Fences, NEW t \in Threads, NEW i \in Uops(t), NEW j \in Uops(t),
         Updating(t, i, j)
  PROVE  /\ j < prog[t][i].eom /\ prog[t][j].eom = prog[t][i].eom
         /\ prog[t][i].eom \in InFlight(t) /\ FullFence(prog[t][prog[t][i].eom])
         /\ ~rob[t][prog[t][i].eom].addrvalid
         /\ \A k \in i..j : prog[t][k].kind # "mf"
<1> DEFINE f == prog[t][i].som
           l == prog[t][i].eom
<1>1. /\ f \in 1..i /\ l \in i..Len(prog[t]) /\ l \in Uops(t) /\ f \in Uops(t)
      /\ \A k \in f..l : prog[t][k].som = f /\ prog[t][k].eom = l
      /\ FullFence(prog[t][f]) /\ FullFence(prog[t][l])
      /\ \A k \in f + 1..l - 1 : prog[t][k].kind # "mf"
  BY SameInstruction DEF Updating
<1>2. /\ prog[t][j].som = f /\ j <= prog[t][j].eom
      /\ \A k \in f..prog[t][j].eom : prog[t][k].som = f /\ prog[t][k].eom = prog[t][j].eom
      /\ f <= j
  BY SameInstruction, ProgramTyped DEF Updating
<1>3. i \in Nat /\ j \in Nat /\ f \in Nat /\ l \in Nat /\ head[t] \in Nat /\ prog[t][j].eom \in Nat
  BY <1>1, SameInstruction, ProgramTyped
<1> HIDE DEF f, l
<1>4. i # f /\ j # l /\ i < j
  <2>1. /\ prog[t][i].kind = "ld" /\ prog[t][j].kind = "st" /\ i <= head[t] /\ j > head[t]
        /\ prog[t][f].kind = "mf" /\ prog[t][l].kind = "mf"
    BY <1>1 DEF Updating, FullFence
  <2> QED
    BY <1>3, <2>1
<1>5. prog[t][j].eom = l
  <2>1. prog[t][f].eom = l
    BY <1>1, <1>3
  <2>2. prog[t][f].eom = prog[t][j].eom
    BY <1>2, <1>3
  <2> QED
    BY <2>1, <2>2
<1>6. j < l
  BY <1>2, <1>3, <1>4, <1>5
<1>7. l \in InFlight(t)
  BY <1>1, <1>3, <1>6 DEF InFlight, Updating
<1>8. ~rob[t][l].addrvalid
  <2>1. j >= Oldest(t) /\ Oldest(t) \in Nat
    BY <1>3 DEF Updating, Oldest
  <2>2. l # Oldest(t)
    BY <1>3, <1>6, <2>1
  <2> QED
    BY <1>1, <1>7, <2>2 DEF Fences, FencesOldest, FullFence
<1>9. \A k \in i..j : k \in f + 1..l - 1
  BY <1>1, <1>3, <1>4, <1>6
<1> QED
  BY <1>1, <1>5, <1>6, <1>7, <1>8, <1>9 DEF l

(* An entry sees the same as long as the stores before it and its chunk    *)
(* do not change.                                                          *)
LEMMA WritersSame ==
  ASSUME NEW t \in Threads, NEW i \in Uops(t), prog' = prog, head'[t] = head[t],
         \A j \in InFlight(t) :
           j < i /\ prog[t][j].kind = "st" /\ prog[t][j].chunk = prog[t][i].chunk =>
             (rob'[t][j].issued <=> rob[t][j].issued)
  PROVE  \A b : Writers(t, i, b)' = Writers(t, i, b)
<1>1. InFlight(t)' = InFlight(t)
  BY DEF InFlight, Uops
<1> QED
  BY <1>1 DEF Writers

LEMMA RewritesSame ==
  ASSUME NEW t, NEW i, NEW b, NEW v, prog' = prog
  PROVE  Rewrites(t, i, b, v)' <=> Rewrites(t, i, b, v)
BY DEF Rewrites, InOrder!LastStore, InOrder!Writes

LEMMA SeenSame ==
  ASSUME NEW t \in Threads, NEW i \in Uops(t), prog' = prog, head'[t] = head[t],
         rob'[t][i] = rob[t][i], LoadSees(t, i), StoreSees(t, i),
         PrivateIn(prog, t, prog[t][i].chunk) \/ rob[t][i].lock =>
           mem'[prog[t][i].chunk] = mem[prog[t][i].chunk],
         prog[t][i].kind \in {"ld", "st"} /\ rob[t][i].issued =>
           \A j \in InFlight(t) :
             j < i /\ prog[t][j].kind = "st" /\ prog[t][j].chunk = prog[t][i].chunk =>
               (rob'[t][j].issued <=> rob[t][j].issued)
  PROVE  LoadSees(t, i)' /\ StoreSees(t, i)'
<1>1. CASE ~(prog[t][i].kind \in {"ld", "st"} /\ rob[t][i].issued)
  BY <1>1 DEF LoadSees, StoreSees
<1>2. CASE prog[t][i].kind \in {"ld", "st"} /\ rob[t][i].issued
  <2>1. \A b : Writers(t, i, b)' = Writers(t, i, b)
    BY <1>2, WritersSame
  <2>2. CASE PrivateIn(prog, t, prog[t][i].chunk) \/ rob[t][i].lock
    <3>1. \A b, v : Sees(t, i, b, v)' <=> Sees(t, i, b, v)
      BY <2>1, <2>2 DEF Sees
    <3> QED
      BY <2>1, <3>1, RewritesSame DEF LoadSees, StoreSees
  <2>3. CASE ~(PrivateIn(prog, t, prog[t][i].chunk) \/ rob[t][i].lock)
    BY <2>1, <2>3, RewritesSame DEF LoadSees, StoreSees
  <2> QED
    BY <2>2, <2>3
<1> QED
  BY <1>1, <1>2

LEMMA InitData == Init => Data
<1> SUFFICES ASSUME Init PROVE Data
  OBVIOUS
<1>1. \A t \in Threads : \A i \in Uops(t) : ~rob[t][i].issued /\ ~rob[t][i].lock
  BY DEF Init, Dispatched
<1>2. \A t \in Threads : head[t] = 0 /\ Uops(t) \subseteq Nat /\ InFlight(t) \subseteq Uops(t)
  BY InitTyped, ProgramTyped DEF Init, InFlight
<1>3. Known /\ StoresInOrder /\ Seen
  BY <1>1, <1>2 DEF Known, StoresInOrder, Seen, LoadSees, StoreSees
<1>4. ASSUME NEW t \in Threads, NEW i \in Uops(t), NEW j \in Uops(t) PROVE ~Updating(t, i, j)
  <2>1. i \in 1..Len(prog[t]) /\ Len(prog[t]) \in Nat /\ head[t] = 0
    BY <1>2, InitTyped, ProgramTyped DEF Uops
  <2> QED
    BY <2>1 DEF Updating
<1>5. DOMAIN arf = Threads
  BY DEF Init
<1> QED
  BY <1>3, <1>4, <1>5 DEF Data, Updates

(* One entry is set: an uop that has issued stays issued, what it carries  *)
(* is what it sees, and no issued uop behind it could have seen it.        *)
LEMMA SetKeepsData ==
  ASSUME TypeOK, Data, NEW t \in Threads, NEW i \in Uops(t), NEW e, SetEntry(t, i, e),
         UNCHANGED <<prog, head, mem, arf>>,
         \A u \in Threads : \A k, j \in Uops(u) : Updating(u, k, j) => queued'[u] = queued[u],
         rob[t][i].issued => e.issued,
         e.issued /\ prog[t][i].kind # "mf" => e.addrvalid,
         prog[t][i].kind = "ld" => (e.lock <=> e.issued /\ prog[t][i].locked),
         prog[t][i].kind = "st" /\ e.issued => \A j \in InFlight(t) :
           j < i /\ prog[t][j].kind = "st" /\ prog[t][j].chunk = prog[t][i].chunk =>
             rob[t][j].issued,
         prog[t][i].kind = "st" /\ e.issued /\ ~rob[t][i].issued => \A k \in InFlight(t) :
           /\ k > i /\ prog[t][k].kind \in {"ld", "st"}
           /\ prog[t][k].chunk = prog[t][i].chunk
           => ~rob[t][k].issued,
         LoadSees(t, i)', StoreSees(t, i)'
  PROVE  Data'
<1>1. /\ rob'[t][i] = e
      /\ \A u \in Threads : \A j \in Uops(u) : u # t \/ j # i => rob'[u][j] = rob[u][j]
  <2>1. RobOK
    BY DEF TypeOK, RobOK
  <2> QED
    BY <2>1, SetFacts
<1>2. \A u \in Threads : Uops(u)' = Uops(u) /\ InFlight(u)' = InFlight(u) /\ InFlight(u) \subseteq Uops(u)
  BY DEF Uops, InFlight
<1>3. Known'
  BY <1>1, <1>2 DEF Data, Known
<1>4. \A u \in Threads : \A j \in Uops(u) : rob[u][j].issued => rob'[u][j].issued
  BY <1>1
<1>5. StoresInOrder'
  <2> SUFFICES ASSUME NEW u \in Threads, NEW k \in InFlight(u), NEW j \in InFlight(u),
                      j < k, prog[u][k].kind = "st", prog[u][j].kind = "st",
                      prog[u][j].chunk = prog[u][k].chunk, rob'[u][k].issued
               PROVE  rob'[u][j].issued
    BY <1>2 DEF StoresInOrder
  <2>1. CASE u = t /\ k = i
    BY <1>1, <1>2, <1>4, <2>1
  <2>2. CASE ~(u = t /\ k = i)
    <3>1. rob[u][k].issued
      BY <1>1, <1>2, <2>2
    <3>2. rob[u][j].issued
      BY <3>1 DEF Data, StoresInOrder
    <3> QED
      BY <1>2, <1>4, <3>2
  <2> QED
    BY <2>1, <2>2
<1>6. Seen'
  <2> SUFFICES ASSUME NEW u \in Threads, NEW k \in InFlight(u)
               PROVE  LoadSees(u, k)' /\ StoreSees(u, k)'
    BY <1>2 DEF Seen
  <2>1. CASE u = t /\ k = i
    BY <2>1
  <2>2. CASE ~(u = t /\ k = i)
    <3>1. /\ k \in Uops(u) /\ head'[u] = head[u] /\ rob'[u][k] = rob[u][k]
          /\ LoadSees(u, k) /\ StoreSees(u, k) /\ k \in Nat /\ i \in Nat
      BY <1>1, <1>2, <2>2, ProgramTyped DEF Data, Seen
    <3>2. ASSUME prog[u][k].kind \in {"ld", "st"}, rob[u][k].issued, NEW j \in InFlight(u),
                 j < k, prog[u][j].kind = "st", prog[u][j].chunk = prog[u][k].chunk
          PROVE  rob'[u][j].issued <=> rob[u][j].issued
      <4>1. CASE u = t /\ j = i
        BY <1>1, <3>1, <3>2, <4>1
      <4>2. CASE ~(u = t /\ j = i)
        BY <1>1, <1>2, <4>2
      <4> QED
        BY <4>1, <4>2
    <3>3. mem' = mem
      OBVIOUS
    <3> QED
      BY <3>1, <3>2, <3>3, SeenSame
  <2> QED
    BY <2>1, <2>2
<1>7. Updates'
  <2> SUFFICES ASSUME NEW u \in Threads, NEW k \in Uops(u), NEW j \in Uops(u), Updating(u, k, j)'
               PROVE  /\ prog[u][k].chunk \in queued'[u]
                      /\ \A m \in InFlight(u) : m <= prog[u][k].eom => rob'[u][m].issued
    BY <1>2 DEF Updates
  <2>1. Updating(u, k, j)
    BY DEF Updating
  <2> QED
    BY <1>2, <1>4, <2>1 DEF Data, Updates
<1> QED
  BY <1>3, <1>5, <1>6, <1>7 DEF Data

(* What does not issue, and a fence, changes nothing that anyone sees.     *)
LEMMA QuietKeepsData ==
  ASSUME TypeOK, Data, NEW t \in Threads, NEW i \in Uops(t), NEW e, SetEntry(t, i, e),
         UNCHANGED <<prog, head, mem, arf>>,
         \A u \in Threads : \A k, j \in Uops(u) : Updating(u, k, j) => queued'[u] = queued[u],
         \/ ~rob[t][i].issued /\ ~e.issued /\ (e.lock <=> rob[t][i].lock)
         \/ prog[t][i].kind = "mf" /\ (rob[t][i].issued => e.issued)
  PROVE  Data'
<1>1. rob'[t][i] = e
  BY SetFacts DEF TypeOK, RobOK
<1>2. LoadSees(t, i)' /\ StoreSees(t, i)'
  BY <1>1 DEF LoadSees, StoreSees
<1>3. prog[t][i].kind = "ld" => (rob[t][i].lock <=> rob[t][i].issued /\ prog[t][i].locked)
  BY DEF Data, Known
<1> QED
  BY <1>2, <1>3, SetKeepsData

(* Entries are dispatched again together with everything behind them.      *)
LEMMA ResetKeepsData ==
  ASSUME TypeOK, Data, NEW t \in Threads, NEW S \in SUBSET Uops(t), Resets(t, S),
         UNCHANGED <<prog, mem, arf>>,
         \A i \in S : \A j \in Uops(t) : j > i => j \in S,
         \A u \in Threads \ {t} : head'[u] = head[u] /\ queued'[u] = queued[u],
         head'[t] = head[t] \/ S = Uops(t),
         \A i, j \in Uops(t) : Updating(t, i, j)' =>
           /\ head'[t] = head[t] /\ queued'[t] = queued[t]
           /\ \A k \in S : k > prog[t][i].eom
  PROVE  Data'
<1>1. /\ \A u \in Threads \ {t} : rob'[u] = rob[u]
      /\ \A i \in Uops(t) :
           rob'[t][i] = IF i \in S THEN Dispatched(prog[t], i) ELSE rob[t][i]
  <2>1. RobOK
    BY DEF TypeOK, RobOK
  <2> QED
    BY <2>1, ResetFacts
<1>2. \A u \in Threads : Uops(u)' = Uops(u) /\ InFlight(u) \subseteq Uops(u) /\ InFlight(u)' \subseteq Uops(u)
  BY DEF Uops, InFlight
<1>3. \A u \in Threads : u # t \/ S # Uops(t) => head'[u] = head[u] /\ InFlight(u)' = InFlight(u)
  BY DEF InFlight, Uops
<1>4. \A i \in Uops(t) : ~Dispatched(prog[t], i).issued /\ ~Dispatched(prog[t], i).lock
  BY DEF Dispatched
<1>5. Known'
  BY <1>1, <1>2, <1>4 DEF Data, Known
<1>6. ASSUME NEW u \in Threads, NEW k \in InFlight(u)', rob'[u][k].issued
      PROVE  /\ u # t \/ k \notin S
             /\ u # t \/ S # Uops(t)
             /\ k \in InFlight(u) /\ rob[u][k].issued /\ rob'[u][k] = rob[u][k]
  <2>1. k \in Uops(u)
    BY <1>2
  <2>2. u # t \/ k \notin S
    BY <1>1, <1>4, <1>6, <2>1
  <2>3. rob'[u][k] = rob[u][k] /\ (u # t \/ S # Uops(t))
    BY <1>1, <2>1, <2>2
  <2> QED
    BY <1>3, <1>6, <2>2, <2>3
<1>7. ASSUME NEW u \in Threads, NEW k \in InFlight(u)', rob'[u][k].issued,
             NEW j \in Uops(u), j < k
      PROVE  rob'[u][j] = rob[u][j]
  <2>1. k \in Uops(u) /\ k \in Nat /\ j \in Nat
    BY <1>2, ProgramTyped
  <2>2. u # t \/ j \notin S
    BY <1>6, <1>7, <2>1
  <2> QED
    BY <1>1, <2>2
<1>8. StoresInOrder'
  <2> SUFFICES ASSUME NEW u \in Threads, NEW k \in InFlight(u)', NEW j \in InFlight(u)',
                      j < k, prog[u][k].kind = "st", prog[u][j].kind = "st",
                      prog[u][j].chunk = prog[u][k].chunk, rob'[u][k].issued
               PROVE  rob'[u][j].issued
    BY DEF StoresInOrder
  <2>1. k \in InFlight(u) /\ j \in InFlight(u) /\ rob[u][k].issued
    BY <1>3, <1>6
  <2>2. rob[u][j].issued
    BY <2>1 DEF Data, StoresInOrder
  <2> QED
    BY <1>2, <1>7, <2>2
<1>9. Seen'
  <2> SUFFICES ASSUME NEW u \in Threads, NEW k \in InFlight(u)'
               PROVE  LoadSees(u, k)' /\ StoreSees(u, k)'
    BY DEF Seen
  <2>1. CASE ~rob'[u][k].issued
    BY <2>1 DEF LoadSees, StoreSees
  <2>2. CASE rob'[u][k].issued
    <3>1. k \in InFlight(u) /\ k \in Uops(u) /\ rob'[u][k] = rob[u][k] /\ head'[u] = head[u]
      BY <1>2, <1>3, <1>6, <2>2
    <3>2. LoadSees(u, k) /\ StoreSees(u, k)
      BY <3>1 DEF Data, Seen
    <3>3. \A j \in InFlight(u) : j < k => (rob'[u][j].issued <=> rob[u][j].issued)
      BY <1>2, <1>7, <2>2
    <3>4. mem' = mem
      OBVIOUS
    <3> QED
      BY <3>1, <3>2, <3>3, <3>4, SeenSame
  <2> QED
    BY <2>1, <2>2
<1>10. Updates'
  <2> SUFFICES ASSUME NEW u \in Threads, NEW i \in Uops(u), NEW j \in Uops(u), Updating(u, i, j)'
               PROVE  /\ prog[u][i].chunk \in queued'[u]
                      /\ \A k \in InFlight(u)' : k <= prog[u][i].eom => rob'[u][k].issued
    BY <1>2 DEF Updates
  <2>1. head'[u] = head[u] /\ queued'[u] = queued[u] /\ InFlight(u)' = InFlight(u)
    BY DEF InFlight, Uops
  <2>2. Updating(u, i, j)
    BY <2>1 DEF Updating
  <2>3. /\ prog[u][i].chunk \in queued[u]
        /\ \A k \in InFlight(u) : k <= prog[u][i].eom => rob[u][k].issued
    BY <2>2 DEF Data, Updates
  <2>4. ASSUME NEW k \in InFlight(u), k <= prog[u][i].eom PROVE rob'[u][k] = rob[u][k]
    <3>1. k \in Nat /\ prog[u][i].eom \in Nat /\ k \in Uops(u)
      BY <1>2, ProgramTyped, SameInstruction
    <3>2. u # t \/ k \notin S
      BY <2>4, <3>1
    <3> QED
      BY <1>1, <3>1, <3>2
  <2> QED
    BY <2>1, <2>3, <2>4
<1> QED
  BY <1>5, <1>8, <1>9, <1>10 DEF Data

(* A store that is passed over by a store, or by any uop with its address, *)
(* is the source or older than the source.                                 *)
LEMMA WriterIsSource ==
  ASSUME TypeOK, Data, NEW t \in Threads, NEW i \in Uops(t), prog[t][i].kind \in {"ld", "st"},
         NEW j \in InFlight(t), j < i, prog[t][j].kind = "st",
         prog[t][j].chunk = prog[t][i].chunk, rob[t][j].issued \/ prog[t][i].kind = "st"
  PROVE  j \in Sources(t, i) /\ j <= Source(t, i) /\ Source(t, i) # 0
<1>1. j \in Uops(t) /\ j \in Nat /\ j # 0
  BY ProgramTyped DEF InFlight
<1>2. rob[t][j].issued => rob[t][j].addrvalid
  BY <1>1 DEF Data, Known
<1>3. j \in Sources(t, i)
  BY <1>2 DEF Sources, OlderStores, SameChunk
<1>4. j <= Source(t, i) /\ Source(t, i) \in Nat
  BY <1>3, SourceTyped
<1> QED
  BY <1>1, <1>3, <1>4

(* A source that is resolved is an issued store of the chunk; it has the   *)
(* bytes that an uop behind it sees, unless memory has them.               *)
LEMMA SourceIssued ==
  ASSUME TypeOK, Fences, Data, NEW t \in Threads, NEW i \in Uops(t),
         Resolved(t, Source(t, i)), Source(t, i) # 0
  PROVE  LET s == Source(t, i)
         IN  /\ s \in InFlight(t) /\ s \in Uops(t) /\ s < i
             /\ prog[t][s].kind = "st" /\ prog[t][s].chunk = prog[t][i].chunk /\ rob[t][s].issued
<1> DEFINE s == Source(t, i)
<1>1. /\ s \in Sources(t, i) /\ s \in Uops(t) /\ s < i /\ prog[t][s].kind # "ld" /\ s > head[t]
      /\ rob[t][s].addrvalid /\ rob[t][s].datavalid
  BY SourceTyped DEF Resolved
<1> HIDE DEF s
<1>2. prog[t][s].kind # "mf" /\ prog[t][s].chunk = prog[t][i].chunk
  BY <1>1 DEF Sources, SameChunk
<1>3. prog[t][s].kind = "st"
  BY <1>1, <1>2, ProgramTyped DEF Ops
<1>4. rob[t][s].issued
  BY <1>1, <1>3 DEF Fences, StoresIssued
<1> QED
  BY <1>1, <1>2, <1>3, <1>4 DEF InFlight, s

LEMMA SourceSees ==
  ASSUME TypeOK, Fences, Data, NEW t \in Threads, NEW i \in Uops(t),
         prog[t][i].kind \in {"ld", "st"}, Resolved(t, Source(t, i)), NEW b \in Bytes
  PROVE  LET s == Source(t, i)
         IN  IF s # 0 /\ b \in rob[t][s].mask
             THEN PrivateIn(prog, t, prog[t][i].chunk) => Sees(t, i, b, rob[t][s].data[b])
             ELSE Writers(t, i, b) = {}
<1> DEFINE s == Source(t, i)
<1>1. \A j \in Writers(t, i, b) : s # 0 /\ j <= s
  <2> SUFFICES ASSUME NEW j \in Writers(t, i, b) PROVE s # 0 /\ j <= s
    OBVIOUS
  <2> QED
    BY WriterIsSource DEF Writers
<1>2. CASE s = 0
  BY <1>1, <1>2
<1>3. CASE s # 0
  <2>1. /\ s \in InFlight(t) /\ s \in Uops(t) /\ s < i
        /\ prog[t][s].kind = "st" /\ prog[t][s].chunk = prog[t][i].chunk /\ rob[t][s].issued
    BY <1>3, SourceIssued
  <2> HIDE DEF s
  <2>2. StoreSees(t, s) /\ rob[t][s].mask \in SUBSET Bytes
    BY <2>1 DEF Data, Seen, TypeOK, Entries
  <2>3. s \in Nat /\ i \in Nat /\ Writers(t, i, b) \subseteq Nat /\ Writers(t, s, b) \subseteq Nat
    BY <2>1, ProgramTyped DEF Writers, InFlight
  <2>4. CASE b \in prog[t][s].bytes
    <3>1. s \in Writers(t, i, b)
      BY <2>1, <2>4 DEF Writers
    <3>2. b \in rob[t][s].mask /\ rob[t][s].data[b] = <<t, s>>
      BY <2>1, <2>2, <2>4 DEF StoreSees
    <3>3. Sees(t, i, b, rob[t][s].data[b])
      BY <1>1, <3>1, <3>2 DEF Sees
    <3> QED
      BY <1>3, <3>2, <3>3 DEF s
  <2>5. CASE b \notin prog[t][s].bytes
    <3>1. Writers(t, i, b) = Writers(t, s, b)
      <4>1. ASSUME NEW j \in Writers(t, i, b) PROVE j \in Writers(t, s, b)
        <5>1. j # s /\ j <= s /\ j \in Nat
          BY <1>1, <2>3, <2>5, <4>1 DEF Writers
        <5>2. j < s
          BY <2>3, <5>1
        <5> QED
          BY <2>1, <4>1, <5>2 DEF Writers
      <4>2. ASSUME NEW j \in Writers(t, s, b) PROVE j \in Writers(t, i, b)
        <5>1. j < i
          BY <2>1, <2>3, <4>2 DEF Writers
        <5> QED
          BY <2>1, <4>2, <5>1 DEF Writers
      <4> QED
        BY <4>1, <4>2
    <3>2. CASE b \in rob[t][s].mask
      <4>1. PrivateIn(prog, t, prog[t][i].chunk) => Sees(t, s, b, rob[t][s].data[b])
        BY <2>1, <2>2, <2>5, <3>2 DEF StoreSees
      <4>2. PrivateIn(prog, t, prog[t][i].chunk) => Sees(t, i, b, rob[t][s].data[b])
        BY <2>1, <3>1, <4>1 DEF Sees
      <4> QED
        BY <1>3, <3>2, <4>2 DEF s
    <3>3. CASE b \notin rob[t][s].mask
      <4>1. Writers(t, s, b) = {}
        BY <2>1, <2>2, <3>3 DEF StoreSees
      <4> QED
        BY <1>3, <3>1, <3>3, <4>1 DEF s
    <3> QED
      BY <3>2, <3>3
  <2> QED
    BY <2>4, <2>5
<1> QED
  BY <1>2, <1>3

(* A load takes what it sees.                                              *)
LEMMA LoadKeepsData ==
  ASSUME TypeOK, Fences, Data, NEW t \in Threads, NEW i \in Uops(t), LoadIssues(t, i)
  PROVE  Data'
<1> DEFINE e == [rob[t][i] EXCEPT !.issued = TRUE, !.addrvalid = TRUE,
                   !.datavalid = TRUE, !.rs = Source(t, i),
                   !.lock = prog[t][i].locked, !.data = Loaded(t, i)]
<1>1. /\ SetEntry(t, i, e) /\ prog[t][i].kind = "ld" /\ Resolved(t, Source(t, i))
      /\ ~rob[t][i].issued /\ UNCHANGED <<prog, head, queued, mem, arf>>
      /\ CanIssue(t, i, "ld") /\ i \in InFlight(t)
  BY DEF LoadIssues, CanIssue
<1>2. e.issued /\ e.addrvalid /\ e.lock = prog[t][i].locked /\ e.data = Loaded(t, i)
  <2>1. rob[t][i] \in Entries
    BY EntryTyped
  <2> QED
    BY <2>1 DEF Entries
<1> HIDE DEF e
<1>3. rob'[t][i] = e /\ \A j \in Uops(t) : j # i => rob'[t][j] = rob[t][j]
  BY <1>1, SetFacts DEF TypeOK, RobOK
<1>4. \A b : Writers(t, i, b)' = Writers(t, i, b)
  BY <1>1, <1>3, WritersSame DEF InFlight
<1>5. ASSUME PrivateIn(prog, t, prog[t][i].chunk) \/ e.lock, NEW b \in prog[t][i].bytes
      PROVE  Sees(t, i, b, e.data[b])
  <2>1. b \in Bytes
    BY ProgramTyped DEF Ops
  <2>2. e.data[b] = IF Source(t, i) # 0 /\ b \in rob[t][Source(t, i)].mask
                    THEN rob[t][Source(t, i)].data[b] ELSE mem[prog[t][i].chunk][b]
    BY <1>2, <2>1 DEF Loaded
  <2>3. IF Source(t, i) # 0 /\ b \in rob[t][Source(t, i)].mask
        THEN PrivateIn(prog, t, prog[t][i].chunk) => Sees(t, i, b, rob[t][Source(t, i)].data[b])
        ELSE Writers(t, i, b) = {}
    BY <1>1, <2>1, SourceSees
  <2>4. CASE prog[t][i].locked
    <3>1. \A j \in InFlight(t) : j < i => prog[t][j].kind # "st"
      BY <1>1, <2>4, LockedFirst
    <3>2. Source(t, i) = 0
      BY <1>1, <3>1, SourceIssued
    <3> QED
      BY <2>2, <2>3, <3>2 DEF Sees
  <2>5. CASE ~prog[t][i].locked
    BY <1>2, <1>5, <2>2, <2>3, <2>5 DEF Sees
  <2> QED
    BY <2>4, <2>5
<1>6. LoadSees(t, i)' /\ StoreSees(t, i)'
  <2>1. \A b, v : Sees(t, i, b, v)' <=> Sees(t, i, b, v)
    BY <1>1, <1>4 DEF Sees
  <2> QED
    BY <1>1, <1>3, <1>5, <2>1 DEF LoadSees, StoreSees
<1> QED
  BY <1>1, <1>2, <1>6, SetKeepsData

(* A store has its own bytes over those of the store before it.            *)
LEMMA StoreKeepsData ==
  ASSUME TypeOK, Fences, Data, NEW t \in Threads, NEW i \in Uops(t), StoreIssues(t, i)
  PROVE  Data'
<1> DEFINE s == Source(t, i)
           mask == prog[t][i].bytes \cup (IF s = 0 THEN {} ELSE rob[t][s].mask)
           e == [rob[t][i] EXCEPT !.issued = TRUE, !.addrvalid = TRUE,
                   !.datavalid = TRUE, !.second = TRUE, !.rs = s,
                   !.mask = mask, !.data = Merged(t, i)]
<1>1. /\ SetEntry(t, i, e) /\ prog[t][i].kind = "st" /\ Resolved(t, Source(t, i))
      /\ ~rob[t][i].issued /\ Aliases(t, i) = {} /\ i \in InFlight(t)
      /\ UNCHANGED <<prog, head, queued, mem, arf>>
  BY DEF StoreIssues, StoreReady, CanIssue
<1> HIDE DEF mask
<1>2. e.issued /\ e.addrvalid /\ e.mask = mask /\ e.data = Merged(t, i)
  <2>1. rob[t][i] \in Entries
    BY EntryTyped
  <2> QED
    BY <2>1 DEF Entries
<1> HIDE DEF e
<1>3. rob'[t][i] = e /\ \A j \in Uops(t) : j # i => rob'[t][j] = rob[t][j]
  BY <1>1, SetFacts DEF TypeOK, RobOK
<1>4. \A b : Writers(t, i, b)' = Writers(t, i, b)
  <2>1. \A j \in InFlight(t) : j < i => rob'[t][j] = rob[t][j]
    BY <1>1, <1>3, ProgramTyped DEF InFlight
  <2> QED
    BY <1>1, <2>1, WritersSame
<1>5. s # 0 => /\ s \in InFlight(t) /\ s \in Uops(t) /\ s < i
               /\ prog[t][s].kind = "st" /\ prog[t][s].chunk = prog[t][i].chunk
               /\ rob[t][s].issued
  BY <1>1, SourceIssued
<1>6. InFlight(t) \subseteq Uops(t) /\ Uops(t) \subseteq Nat /\ i \in Nat
  BY ProgramTyped DEF InFlight
<1>7. ASSUME NEW j \in InFlight(t), j < i, prog[t][j].kind = "st",
             prog[t][j].chunk = prog[t][i].chunk
      PROVE  rob[t][j].issued
  <2>1. s # 0 /\ j <= s
    BY <1>1, <1>7, WriterIsSource
  <2>2. CASE j = s
    BY <1>5, <2>1, <2>2
  <2>3. CASE j # s
    <3>1. j < s
      BY <1>5, <1>6, <2>1, <2>3
    <3> QED
      BY <1>5, <1>7, <2>1, <3>1 DEF Data, StoresInOrder
  <2> QED
    BY <2>2, <2>3
<1>8. ASSUME NEW k \in InFlight(t), k > i, prog[t][k].kind \in {"ld", "st"},
             prog[t][k].chunk = prog[t][i].chunk
      PROVE  ~rob[t][k].issued
  <2>1. CASE prog[t][k].kind = "st"
    BY <1>1, <1>6, <1>8, <2>1 DEF Data, StoresInOrder
  <2>2. CASE prog[t][k].kind = "ld"
    <3>1. rob[t][k].issued => rob[t][k].addrvalid
      BY <1>6, <2>2 DEF Data, Known
    <3> QED
      BY <1>1, <1>8, <2>2, <3>1 DEF Aliases, SameChunk
  <2> QED
    BY <1>8, <2>1, <2>2
<1>9. ASSUME s # 0, NEW k \in Uops(t), s < k, k < i
      PROVE  /\ ~(prog[t][k].kind = "st" /\ prog[t][k].chunk = prog[t][i].chunk)
             /\ ~(prog[t][k].kind = "mf" /\ "st" \in prog[t][k].holds)
  <2>1. k \in InFlight(t) /\ k # Oldest(t)
    BY <1>5, <1>6, <1>9, ProgramTyped DEF Oldest, InFlight
  <2>2. k \notin Sources(t, i)
    BY <1>5, <1>6, <1>9, SourceTyped
  <2>3. ~(prog[t][k].kind = "mf" /\ "st" \in prog[t][k].holds)
    BY <1>1, <1>9, <2>1, <2>2 DEF Sources, OlderStores, Fences, FencesOldest
  <2>4. ~(prog[t][k].kind = "st" /\ prog[t][k].chunk = prog[t][i].chunk)
    BY <1>1, <1>9, <2>1, <2>2, WriterIsSource
  <2> QED
    BY <2>3, <2>4
<1>10. StoreSees(t, i)' /\ LoadSees(t, i)'
  <2>1. prog[t][i].bytes \subseteq mask /\ prog[t][i].bytes \subseteq Bytes
    BY ProgramTyped DEF mask, Ops
  <2>2. \A b \in prog[t][i].bytes : e.data[b] = <<t, i>>
    BY <1>2, <2>1 DEF Merged
  <2>3. ASSUME NEW b \in mask \ prog[t][i].bytes
        PROVE  /\ PrivateIn(prog, t, prog[t][i].chunk) => Sees(t, i, b, e.data[b])
               /\ Rewrites(t, i, b, e.data[b])
    <3>1. s # 0 /\ b \in rob[t][s].mask
      BY <2>3 DEF mask
    <3>2. b \in Bytes
      BY <1>5, <3>1 DEF TypeOK, Entries
    <3>3. e.data[b] = rob[t][s].data[b]
      BY <1>2, <2>3, <3>1, <3>2 DEF Merged
    <3>4. PrivateIn(prog, t, prog[t][i].chunk) => Sees(t, i, b, rob[t][s].data[b])
      BY <1>1, <3>1, <3>2, SourceSees
    <3>5. StoreSees(t, s)
      BY <1>5, <3>1 DEF Data, Seen
    <3>6. CASE b \in prog[t][s].bytes
      <4>1. rob[t][s].data[b] = <<t, s>>
        BY <1>5, <3>1, <3>5, <3>6 DEF StoreSees
      <4>2. s \in InOrder!LastStore(t, i, b)
        <5>1. s \in 1..(i - 1)
          BY <1>5, <1>6, <3>1
        <5>2. \A k \in (s + 1)..(i - 1) : k \in Uops(t) /\ s < k /\ k < i
          BY <1>5, <1>6, <3>1, ProgramTyped
        <5> QED
          BY <1>5, <1>9, <3>1, <3>6, <5>1, <5>2 DEF InOrder!LastStore, InOrder!Writes
      <4> QED
        BY <3>3, <3>4, <4>1, <4>2 DEF Rewrites
    <3>7. CASE b \notin prog[t][s].bytes
      <4>1. PICK j \in InOrder!LastStore(t, s, b) : rob[t][s].data[b] = <<t, j>>
        BY <1>5, <3>1, <3>5, <3>7 DEF StoreSees, Rewrites
      <4>2. j \in InOrder!LastStore(t, i, b)
        <5>1. j \in 1..(s - 1) /\ j \in 1..(i - 1) /\ s \in Nat /\ i \in Nat
          BY <1>5, <1>6, <3>1, <4>1 DEF InOrder!LastStore
        <5>2. \A k \in (j + 1)..(i - 1) :
                \/ k \in (j + 1)..(s - 1)
                \/ k = s
                \/ k \in Uops(t) /\ s < k /\ k < i
          BY <1>5, <1>6, <3>1, <5>1, ProgramTyped
        <5> QED
          BY <1>5, <1>9, <3>1, <3>7, <4>1, <5>1, <5>2 DEF InOrder!LastStore, InOrder!Writes
      <4> QED
        BY <3>3, <3>4, <4>1, <4>2 DEF Rewrites
    <3> QED
      BY <3>6, <3>7
  <2>4. ASSUME NEW b \in Bytes \ mask PROVE Writers(t, i, b) = {}
    <3>1. ~(s # 0 /\ b \in rob[t][s].mask)
      BY <2>4 DEF mask
    <3> QED
      BY <1>1, <2>4, <3>1, SourceSees
  <2>5. \A b, v : Sees(t, i, b, v)' <=> Sees(t, i, b, v)
    BY <1>1, <1>4 DEF Sees
  <2> QED
    BY <1>1, <1>2, <1>3, <1>4, <2>1, <2>2, <2>3, <2>4, <2>5, RewritesSame DEF StoreSees, LoadSees
<1> HIDE DEF s
<1> QED
  BY <1>1, <1>2, <1>7, <1>8, <1>10, SetKeepsData

(* What a commit leaves in the chunk of a store: its own bytes over what   *)
(* was there, and if others write the chunk too, perhaps what the last     *)
(* stores of its thread left.                                              *)
Stored(t, i, again) ==
  [b \in Bytes |->
     IF b \in prog[t][i].bytes THEN <<t, i>>
     ELSE IF b \in again THEN <<t, CHOOSE j \in InOrder!LastStore(t, i, b) : TRUE>>
     ELSE mem[prog[t][i].chunk][b]]

LEMMA LastStoreUnique ==
  ASSUME TypeOK, NEW t \in Threads, NEW i \in Uops(t), NEW b,
         NEW j \in InOrder!LastStore(t, i, b), NEW k \in InOrder!LastStore(t, i, b)
  PROVE  j = k
<1>1. j \in 1..(i - 1) /\ k \in 1..(i - 1) /\ i \in Nat
  BY ProgramTyped DEF InOrder!LastStore
<1>2. ~(j < k) /\ ~(k < j)
  BY <1>1 DEF InOrder!LastStore
<1> QED
  BY <1>1, <1>2

LEMMA CommitShape ==
  ASSUME TypeOK, Data, NEW t \in Threads, Commit(t), prog[t][Oldest(t)].kind = "st"
  PROVE  \E again \in SUBSET Bytes :
           /\ \A b \in again : InOrder!LastStore(t, Oldest(t), b) # {}
           /\ PrivateIn(prog, t, prog[t][Oldest(t)].chunk) => again = {}
           /\ mem' = [mem EXCEPT ![prog[t][Oldest(t)].chunk] = Stored(t, Oldest(t), again)]
<1> DEFINE i == Oldest(t)
           c == prog[t][i].chunk
           e == rob[t][i]
           old == [b \in Bytes |-> IF b \in e.mask THEN e.data[b] ELSE mem[c][b]]
           again == {b \in e.mask \ prog[t][i].bytes : ~PrivateIn(prog, t, c)}
<1>1. /\ i \in Uops(t) /\ prog[t][i].kind = "st" /\ e.issued
      /\ mem' = [mem EXCEPT ![c] = old]
  BY DEF Commit, MacroOpReady, Complete
<1>2. i \in InFlight(t) /\ i = head[t] + 1 /\ head[t] \in Nat
  BY <1>1, OldestTyped
<1> HIDE DEF i
<1>3. StoreSees(t, i) /\ again \in SUBSET Bytes
  BY <1>1, <1>2 DEF Data, Seen, TypeOK, Entries
<1>4. \A b : Writers(t, i, b) = {}
  BY <1>1, <1>2, ProgramTyped DEF Writers, InFlight
<1>5. ASSUME NEW b \in again
      PROVE  /\ InOrder!LastStore(t, i, b) # {}
             /\ e.data[b] = <<t, CHOOSE j \in InOrder!LastStore(t, i, b) : TRUE>>
  <2>1. PICK j \in InOrder!LastStore(t, i, b) : e.data[b] = <<t, j>>
    BY <1>1, <1>3 DEF StoreSees, Rewrites
  <2>2. (CHOOSE k \in InOrder!LastStore(t, i, b) : TRUE) \in InOrder!LastStore(t, i, b)
    BY <2>1
  <2>3. (CHOOSE k \in InOrder!LastStore(t, i, b) : TRUE) = j
    BY <1>1, <2>1, <2>2, LastStoreUnique
  <2> QED
    BY <2>1, <2>3
<1>6. ASSUME NEW b \in Bytes PROVE old[b] = Stored(t, i, again)[b]
  <2>1. CASE b \in prog[t][i].bytes
    BY <1>1, <1>3, <2>1 DEF StoreSees, Stored
  <2>2. CASE b \in again
    BY <1>5, <2>2 DEF Stored
  <2>3. CASE b \in (e.mask \ prog[t][i].bytes) \ again
    <3>1. Sees(t, i, b, e.data[b])
      BY <1>1, <1>3, <2>3 DEF StoreSees
    <3> QED
      BY <1>4, <2>3, <3>1 DEF Sees, Stored
  <2>4. CASE b \notin e.mask
    BY <1>1, <1>3, <2>4 DEF StoreSees, Stored
  <2> QED
    BY <2>1, <2>2, <2>3, <2>4
<1>7. old = Stored(t, i, again)
  BY <1>6 DEF Stored
<1>8. PrivateIn(prog, t, c) => again = {}
  OBVIOUS
<1> HIDE DEF old, again
<1> QED
  BY <1>1, <1>3, <1>5, <1>7, <1>8 DEF i

(* The oldest uop leaves the queues for memory, and nobody behind it or in *)
(* another thread sees a difference.                                       *)
LEMMA CommitKeepsData ==
  ASSUME TypeOK, Locks, Fences, Data, NEW t \in Threads, Commit(t)
  PROVE  Data'
<1> DEFINE i == Oldest(t)
           c == prog[t][i].chunk
<1>1. /\ i \in Uops(t) /\ SetEntry(t, i, Dispatched(prog[t], i)) /\ rob[t][i].issued
      /\ \A k \in i..prog[t][i].eom : rob[t][k].issued
      /\ head' = [head EXCEPT ![t] = i] /\ prog' = prog
      /\ queued' = [queued EXCEPT ![t] = IF rob[t][i].lock THEN @ \cup {c} ELSE @]
      /\ prog[t][i].kind = "st" => ~HeldByOther(t, c)
      /\ prog[t][i].kind # "st" => mem' = mem
      /\ DOMAIN arf' = DOMAIN arf
  BY DEF Commit, MacroOpReady, Complete
<1>2. prog[t][i].kind = "st" =>
        \E again \in SUBSET Bytes : /\ PrivateIn(prog, t, c) => again = {}
                                    /\ mem' = [mem EXCEPT ![c] = Stored(t, i, again)]
  BY CommitShape
<1>3. i = head[t] + 1 /\ head[t] \in Nat /\ i \in InFlight(t)
  BY <1>1, OldestTyped
<1> HIDE DEF i
<1>4. /\ rob'[t][i] = Dispatched(prog[t], i)
      /\ \A u \in Threads : \A j \in Uops(u) : u # t \/ j # i => rob'[u][j] = rob[u][j]
  BY <1>1, SetFacts DEF TypeOK, RobOK
<1>5. /\ \A u \in Threads \ {t} : head'[u] = head[u] /\ queued'[u] = queued[u]
      /\ head'[t] = i /\ queued[t] \subseteq queued'[t] /\ (rob[t][i].lock => c \in queued'[t])
  BY <1>1 DEF TypeOK
<1>6. \A u \in Threads : /\ Uops(u)' = Uops(u) /\ InFlight(u) \subseteq Uops(u) /\ Uops(u) \subseteq Nat
                         /\ InFlight(u)' = InFlight(u) \ (IF u = t THEN {i} ELSE {})
  <2>1. \A u \in Threads : Uops(u)' = Uops(u) /\ InFlight(u) \subseteq Uops(u) /\ Uops(u) \subseteq Nat
    BY <1>1, ProgramTyped DEF Uops, InFlight
  <2> QED
    BY <1>3, <1>5, <2>1 DEF InFlight
<1>7. \A j \in Uops(t) : ~Dispatched(prog[t], j).issued /\ ~Dispatched(prog[t], j).lock
  BY DEF Dispatched
<1>8. Known'
  BY <1>1, <1>4, <1>6, <1>7 DEF Data, Known
<1>9. ASSUME NEW u \in Threads, NEW k \in InFlight(u)'
      PROVE  k \in InFlight(u) /\ k \in Uops(u) /\ k \in Nat /\ rob'[u][k] = rob[u][k]
             /\ (u = t => k > i)
  <2>1. k \in InFlight(u) /\ (u = t => k # i)
    BY <1>6, <1>9
  <2> QED
    BY <1>3, <1>4, <1>6, <2>1 DEF InFlight
<1>10. StoresInOrder'
  BY <1>1, <1>9 DEF Data, StoresInOrder
<1>11. ASSUME NEW k \in InFlight(t)', prog[t][k].kind \in {"ld", "st"}, NEW b \in Bytes
       PROVE  /\ Writers(t, k, b)' = Writers(t, k, b) \ {i}
              /\ i \in Writers(t, k, b) <=>
                   prog[t][i].kind = "st" /\ prog[t][k].chunk = c /\ b \in prog[t][i].bytes
  <2>1. Writers(t, k, b)' = Writers(t, k, b) \ {i}
    BY <1>1, <1>6, <1>9 DEF Writers
  <2> QED
    BY <1>1, <1>3, <1>9, <1>11, <2>1 DEF Writers
<1>12. ASSUME NEW k \in InFlight(t)', prog[t][k].kind \in {"ld", "st"}, NEW b \in Bytes, NEW v,
              Sees(t, k, b, v),
              prog[t][i].kind = "st" => PrivateIn(prog, t, prog[t][k].chunk)
       PROVE  Sees(t, k, b, v)'
  <2>1. /\ Writers(t, k, b)' = Writers(t, k, b) \ {i}
        /\ i \in Writers(t, k, b) <=>
             prog[t][i].kind = "st" /\ prog[t][k].chunk = c /\ b \in prog[t][i].bytes
        /\ prog[t][k].chunk \in Chunks /\ mem \in [Chunks -> [Bytes -> Tags]]
    BY <1>9, <1>11, <1>12, ProgramTyped DEF TypeOK
  <2>2. CASE i \notin Writers(t, k, b)
    <3>1. mem'[prog[t][k].chunk][b] = mem[prog[t][k].chunk][b]
      <4>1. CASE prog[t][i].kind # "st"
        BY <1>1, <4>1
      <4>2. CASE prog[t][i].kind = "st" /\ prog[t][k].chunk # c
        BY <1>2, <2>1, <4>2
      <4>3. CASE prog[t][i].kind = "st" /\ prog[t][k].chunk = c
        <5>1. mem' = [mem EXCEPT ![c] = Stored(t, i, {})]
          BY <1>2, <1>12, <4>3
        <5>2. Stored(t, i, {})[b] = mem[c][b]
          BY <2>1, <2>2, <4>3 DEF Stored
        <5> QED
          BY <2>1, <4>3, <5>1, <5>2
      <4> QED
        BY <4>1, <4>2, <4>3
    <3> QED
      BY <1>1, <1>12, <2>1, <2>2, <3>1 DEF Sees
  <2>3. CASE i \in Writers(t, k, b)
    <3>1. PICK j \in Writers(t, k, b) : v = <<t, j>> /\ \A m \in Writers(t, k, b) : m <= j
      BY <1>12, <2>3 DEF Sees
    <3>2. \A m \in Writers(t, k, b) : m \in Nat /\ m >= i
      BY <1>3, <1>6 DEF Writers, InFlight
    <3>3. CASE j = i
      <4>1. Writers(t, k, b)' = {}
        <5>1. \A m \in Writers(t, k, b) : m = i
          BY <1>3, <3>1, <3>2, <3>3
        <5> QED
          BY <2>1, <5>1
      <4>2. mem'[prog[t][k].chunk][b] = <<t, i>>
        BY <1>2, <2>1, <2>3 DEF Stored
      <4> QED
        BY <1>1, <3>1, <3>3, <4>1, <4>2 DEF Sees
    <3>4. CASE j # i
      BY <2>1, <3>1, <3>4 DEF Sees
    <3> QED
      BY <3>3, <3>4
  <2> QED
    BY <2>2, <2>3
<1>13. Seen'
  <2> SUFFICES ASSUME NEW u \in Threads, NEW k \in InFlight(u)'
               PROVE  LoadSees(u, k)' /\ StoreSees(u, k)'
    BY DEF Seen
  <2>1. k \in InFlight(u) /\ k \in Uops(u) /\ rob'[u][k] = rob[u][k]
    BY <1>9
  <2>2. LoadSees(u, k) /\ StoreSees(u, k) /\ prog[u][k].bytes \subseteq Bytes /\ rob[u][k].mask \subseteq Bytes
    BY <2>1, ProgramTyped DEF Data, Seen, Ops, TypeOK, Entries
  <2>3. CASE u = t
    <3>1. CASE prog[t][k].kind \in {"ld", "st"}
      <4>1. prog[t][k].kind = "ld" /\ rob[t][k].issued /\ rob[t][k].lock => prog[t][i].kind # "st"
        BY <1>3, <1>9, <2>1, <2>3, LockedFirst DEF Data, Known
      <4>2. LoadSees(t, k)'
        BY <1>1, <1>12, <2>1, <2>2, <2>3, <3>1, <4>1 DEF LoadSees
      <4>3. StoreSees(t, k)'
        BY <1>1, <1>11, <1>12, <2>1, <2>2, <2>3, <3>1, RewritesSame DEF StoreSees
      <4> QED
        BY <2>3, <4>2, <4>3
    <3>2. CASE prog[t][k].kind \notin {"ld", "st"}
      BY <1>1, <2>3, <3>2 DEF LoadSees, StoreSees
    <3> QED
      BY <3>1, <3>2
  <2>4. CASE u # t /\ prog[u][k].kind = "mf"
    BY <1>1, <2>4 DEF LoadSees, StoreSees
  <2>5. CASE u # t /\ prog[u][k].kind # "mf"
    <3>0. prog[u][k].chunk \in Chunks /\ mem \in [Chunks -> [Bytes -> Tags]]
      BY <2>1, <2>5, ProgramTyped DEF TypeOK
    <3>1. ASSUME PrivateIn(prog, u, prog[u][k].chunk) \/ rob[u][k].lock
          PROVE  mem'[prog[u][k].chunk] = mem[prog[u][k].chunk]
      <4>1. CASE prog[t][i].kind # "st"
        BY <1>1, <4>1
      <4>2. CASE prog[t][i].kind = "st"
        <5>1. c # prog[u][k].chunk
          <6>1. CASE PrivateIn(prog, u, prog[u][k].chunk)
            BY <1>1, <2>5, <4>2, <6>1 DEF PrivateIn, Uops
          <6>2. CASE rob[u][k].lock
            <7>1. c \in Chunks
              BY <1>1, <4>2, ProgramTyped
            <7>2. prog[u][k].chunk = c => interlocks[c] = u
              BY <2>1, <6>2, <7>1 DEF Locks, LocksExact
            <7>3. interlocks[c] \in {t, None}
              BY <1>1, <4>2 DEF HeldByOther
            <7> QED
              BY <2>5, <7>2, <7>3, QueueAssumption
          <6> QED
            BY <3>1, <6>1, <6>2
        <5> QED
          BY <1>2, <3>0, <4>2, <5>1
      <4> QED
        BY <4>1, <4>2
    <3>2. \A j \in InFlight(u) : rob'[u][j].issued <=> rob[u][j].issued
      BY <1>4, <1>6, <2>5
    <3>3. head'[u] = head[u]
      BY <1>5, <2>5
    <3> QED
      BY <1>1, <2>1, <2>2, <3>1, <3>2, <3>3, SeenSame
  <2> QED
    BY <2>3, <2>4, <2>5
<1>14. Updates'
  <2> SUFFICES ASSUME NEW u \in Threads, NEW k \in Uops(u), NEW j \in Uops(u), Updating(u, k, j)'
               PROVE  /\ prog[u][k].chunk \in queued'[u]
                      /\ \A m \in InFlight(u)' : m <= prog[u][k].eom => rob'[u][m].issued
    BY <1>1, <1>6 DEF Updates
  <2>1. CASE u = t /\ k = i
    <3>1. rob[t][i].lock
      BY <1>1, <2>1 DEF Data, Known, Updating
    <3>2. \A m \in InFlight(t)' : m <= prog[t][i].eom => m \in i..prog[t][i].eom
      BY <1>1, <1>3, <1>9, SameInstruction
    <3> QED
      BY <1>1, <1>5, <1>9, <2>1, <3>1, <3>2
  <2>2. CASE ~(u = t /\ k = i)
    <3>1. Updating(u, k, j)
      <4>1. CASE u # t
        BY <1>1, <1>5, <4>1 DEF Updating
      <4>2. CASE u = t
        <5>1. k <= i /\ j > i /\ k # i /\ k \in Nat /\ j \in Nat
          BY <1>1, <1>5, <1>6, <2>2, <4>2 DEF Updating
        <5>2. k <= head[t] /\ j > head[t]
          BY <1>3, <5>1
        <5> QED
          BY <1>1, <4>2, <5>2 DEF Updating
      <4> QED
        BY <4>1, <4>2
    <3>2. /\ prog[u][k].chunk \in queued[u]
          /\ \A m \in InFlight(u) : m <= prog[u][k].eom => rob[u][m].issued
      BY <3>1 DEF Data, Updates
    <3> QED
      BY <1>5, <1>9, <3>2
  <2> QED
    BY <2>1, <2>2
<1> QED
  BY <1>1, <1>8, <1>10, <1>13, <1>14 DEF Data

(* A flush ends every update: the thread is back before the instruction.   *)
LEMMA FlushEndsUpdates ==
  ASSUME TypeOK, NEW t \in Threads, Flush(t), NEW i \in Uops(t), NEW j \in Uops(t)
  PROVE  ~Updating(t, i, j)'
<1> SUFFICES ASSUME Updating(t, i, j)' PROVE FALSE
  OBVIOUS
<1> DEFINE o == Oldest(t)
           f == prog[t][o].som
<1>1. InFlight(t) # {} /\ prog' = prog /\ head' = [head EXCEPT ![t] = f - 1]
  BY DEF Flush
<1>2. o \in Uops(t)
  BY <1>1, OldestTyped
<1> HIDE DEF o
<1>3. f \in 1..o /\ f \in Uops(t) /\ prog[t][f].som = f
  <2>1. /\ f \in 1..o /\ f \in Uops(t) /\ o \in Nat
        /\ o <= prog[t][o].eom /\ prog[t][o].eom \in Nat
        /\ \A k \in f..prog[t][o].eom : prog[t][k].som = f
    BY <1>2, SameInstruction, ProgramTyped
  <2> HIDE DEF f
  <2>2. f \in f..prog[t][o].eom
    BY <2>1
  <2> QED
    BY <2>1, <2>2
<1> HIDE DEF f
<1>4. i <= f - 1 /\ j > f - 1 /\ prog[t][i].som = prog[t][j].som
  BY <1>1 DEF Updating, TypeOK
<1>5. /\ i \in Nat /\ j \in Nat /\ f \in Nat /\ prog[t][i].som \in 1..i /\ prog[t][j].eom \in Nat
      /\ j <= prog[t][j].eom /\ prog[t][j].som \in Nat
      /\ \A k \in prog[t][j].som..prog[t][j].eom : prog[t][k].som = prog[t][j].som
  BY <1>3, SameInstruction, ProgramTyped
<1>6. f \in prog[t][j].som..prog[t][j].eom
  BY <1>4, <1>5
<1>7. prog[t][f].som = prog[t][i].som
  BY <1>4, <1>5, <1>6
<1> QED
  BY <1>3, <1>4, <1>5, <1>7

LEMMA NextKeepsData ==
  ASSUME TypeOK, Locks, Fences, Data, [Next]_vars
  PROVE  Data'
<1>1. ASSUME NEW t \in Threads, NEW i \in Uops(t), Issue(t, i) PROVE Data'
  <2> DEFINE s == Source(t, i)
             r == Replayed(rob[t][i], s)
  <2>0. /\ rob[t][i] \in Entries /\ r \in Entries
        /\ r.issued = rob[t][i].issued /\ r.lock = rob[t][i].lock
    <3>1. /\ rob[t][i] \in Entries /\ r \in Entries
          /\ r = [rob[t][i] EXCEPT !.addrvalid = TRUE, !.datavalid = FALSE, !.rs = s]
      BY EntryTyped
    <3> HIDE DEF r, s
    <3> QED
      BY <3>1 DEF Entries
  <2> HIDE DEF r
  <2>1. CASE LoadWaits(t, i) \/ LoadLockedOut(t, i) \/ StoreForwardsInParallel(t, i)
             \/ StoreLockedOut(t, i)
    <3>1. SetEntry(t, i, r) /\ ~rob[t][i].issued /\ UNCHANGED <<prog, head, queued, mem, arf>>
      BY <2>1 DEF LoadWaits, LoadLockedOut, StoreForwardsInParallel, StoreLockedOut, StoreReady,
                  CanIssue, r
    <3> QED
      BY <2>0, <3>1, QuietKeepsData
  <2>2. CASE LoadIssues(t, i)
    BY <2>2, LoadKeepsData
  <2>3. CASE StoreWaits(t, i)
    <3> DEFINE e == [r EXCEPT !.second = TRUE]
    <3>1. SetEntry(t, i, e) /\ ~rob[t][i].issued /\ UNCHANGED <<prog, head, queued, mem, arf>>
      BY <2>3 DEF StoreWaits, CanIssue, r
    <3>2. e.issued = r.issued /\ e.lock = r.lock
      BY <2>0 DEF Entries
    <3> HIDE DEF e
    <3> QED
      BY <2>0, <3>1, <3>2, QuietKeepsData
  <2>4. CASE StoreIssues(t, i)
    BY <2>4, StoreKeepsData
  <2>5. CASE FenceIssues(t, i)
    <3> DEFINE e == [rob[t][i] EXCEPT !.issued = TRUE]
    <3>1. SetEntry(t, i, e) /\ prog[t][i].kind = "mf" /\ UNCHANGED <<prog, head, queued, mem, arf>>
      BY <2>5 DEF FenceIssues, CanIssue
    <3>2. e.issued
      BY <2>0 DEF Entries
    <3> HIDE DEF e
    <3> QED
      BY <3>1, <3>2, QuietKeepsData
  <2>6. CASE StoreAliases(t, i)
    <3> DEFINE S == {j \in InFlight(t) : j >= i}
    <3>1. /\ Resets(t, S) /\ UNCHANGED <<prog, head, mem, arf>>
          /\ queued' = [queued EXCEPT ![t] = {}]
          /\ i \in InFlight(t) /\ prog[t][i].kind = "st" /\ ~rob[t][i].issued
          /\ Resolved(t, Source(t, i))
      BY <2>6 DEF StoreAliases, StoreReady, CanIssue, Redispatch, Resets
    <3>2. S \in SUBSET Uops(t) /\ \A k \in S : \A j \in Uops(t) : j > k => j \in S
      BY ProgramTyped DEF InFlight
    <3>3. \A u \in Threads \ {t} : queued'[u] = queued[u]
      BY <3>1 DEF TypeOK
    <3>4. ASSUME NEW k \in Uops(t), NEW j \in Uops(t), Updating(t, k, j)' PROVE FALSE
      <4>1. Updating(t, k, j)
        BY <3>1, <3>4 DEF Updating
      <4> DEFINE l == prog[t][k].eom
      <4>2. /\ l \in InFlight(t) /\ l \in Uops(t) /\ l \in Nat /\ FullFence(prog[t][l])
            /\ ~rob[t][l].addrvalid
        BY <4>1, UpdateFenced, SameInstruction
      <4>3. \A m \in InFlight(t) : m <= l => rob[t][m].issued
        BY <4>1 DEF Data, Updates
      <4> HIDE DEF l
      <4>4. i > l
        BY <3>1, <4>2, <4>3, ProgramTyped
      <4>5. Holds(t, l, i)
        BY <3>1, <4>2, <4>4 DEF Holds, FullFence
      <4> QED
        BY <3>1, <4>2, <4>5, HeldStoreWaits
    <3> HIDE DEF S
    <3> QED
      BY <3>1, <3>2, <3>3, <3>4, ResetKeepsData
  <2> QED
    BY <1>1, <2>1, <2>2, <2>3, <2>4, <2>5, <2>6 DEF Issue
<1>2. ASSUME NEW t \in Threads, NEW i \in Uops(t), Annul(t, i) PROVE Data'
  <2> DEFINE S == {j \in InFlight(t) : j >= i}
  <2>1. /\ Resets(t, S) /\ UNCHANGED <<prog, head, queued, mem, arf>>
        /\ i \in InFlight(t) /\ prog[t][i].som = i
    BY <1>2 DEF Annul, Resets
  <2>2. S \in SUBSET Uops(t) /\ \A k \in S : \A j \in Uops(t) : j > k => j \in S
    BY ProgramTyped DEF InFlight
  <2>3. ASSUME NEW k \in Uops(t), NEW j \in Uops(t), Updating(t, k, j)', NEW m \in S
        PROVE  m > prog[t][k].eom
    <3>1. /\ k <= head[t] /\ k \in Nat /\ i \in Nat /\ m \in Nat /\ m >= i /\ i > head[t]
          /\ head[t] \in Nat
      BY <2>1, <2>3, ProgramTyped DEF Updating, InFlight
    <3>2. /\ prog[t][k].som \in 1..k /\ prog[t][k].eom \in Nat
          /\ \A n \in prog[t][k].som..prog[t][k].eom : prog[t][n].som = prog[t][k].som
      BY SameInstruction, ProgramTyped
    <3>3. i \notin prog[t][k].som..prog[t][k].eom
      BY <2>1, <3>1, <3>2
    <3> QED
      BY <3>1, <3>2, <3>3
  <2> HIDE DEF S
  <2> QED
    BY <2>1, <2>2, <2>3, ResetKeepsData
<1>3. ASSUME NEW t \in Threads, FenceWakeup(t) PROVE Data'
  <2> DEFINE o == Oldest(t)
             e == [rob[t][o] EXCEPT !.addrvalid = TRUE, !.datavalid = TRUE]
  <2>1. /\ o \in Uops(t) /\ SetEntry(t, o, e) /\ prog[t][o].kind = "mf"
        /\ queued' = [queued EXCEPT ![t] = {}] /\ UNCHANGED <<prog, head, mem, arf>>
    BY <1>3 DEF FenceWakeup
  <2>2. rob[t][o] \in Entries
    BY <2>1 DEF TypeOK
  <2>3. o = head[t] + 1 /\ head[t] \in Nat
    BY OldestTyped
  <2> HIDE DEF o
  <2>4. e.issued = rob[t][o].issued
    BY <2>2 DEF Entries
  <2> HIDE DEF e
  <2>5. ASSUME NEW u \in Threads, NEW k \in Uops(u), NEW j \in Uops(u), Updating(u, k, j)
        PROVE  queued'[u] = queued[u]
    <3>1. CASE u # t
      BY <2>1, <3>1 DEF TypeOK
    <3>2. CASE u = t
      <4>1. \A m \in k..j : prog[t][m].kind # "mf"
        BY <2>5, <3>2, UpdateFenced
      <4>2. o \in k..j
        BY <2>3, <2>5, <3>2, ProgramTyped DEF Updating
      <4> QED
        BY <2>1, <4>1, <4>2
    <3> QED
      BY <3>1, <3>2
  <2> QED
    BY <2>1, <2>4, <2>5, QuietKeepsData
<1>4. ASSUME NEW t \in Threads, Commit(t) PROVE Data'
  BY <1>4, CommitKeepsData
<1>5. ASSUME NEW t \in Threads, Flush(t) PROVE Data'
  <2>1. /\ Resets(t, Uops(t)) /\ UNCHANGED <<prog, mem, arf>>
        /\ head' = [head EXCEPT ![t] = prog[t][Oldest(t)].som - 1]
        /\ queued' = [queued EXCEPT ![t] = {}]
    BY <1>5 DEF Flush, Redispatch, Resets
  <2>2. \A u \in Threads \ {t} : head'[u] = head[u] /\ queued'[u] = queued[u]
    BY <2>1 DEF TypeOK
  <2>3. \A i, j \in Uops(t) : ~Updating(t, i, j)'
    BY <1>5, FlushEndsUpdates
  <2> QED
    BY <2>1, <2>2, <2>3, ResetKeepsData
<1>6. CASE NextCycle \/ UNCHANGED vars
  <2>1. UNCHANGED <<prog, rob, head, queued, mem, arf>>
    BY <1>6 DEF NextCycle, vars
  <2>2. Known' /\ StoresInOrder' /\ Updates' /\ DOMAIN arf' = Threads
    BY <2>1 DEF Data, Known, StoresInOrder, Updates, Updating, InFlight, Uops
  <2>3. ASSUME NEW t \in Threads, NEW i \in InFlight(t)' PROVE LoadSees(t, i)' /\ StoreSees(t, i)'
    <3>1. i \in Uops(t) /\ LoadSees(t, i) /\ StoreSees(t, i)
      BY <2>1 DEF Data, Seen, InFlight, Uops
    <3> QED
      BY <2>1, <3>1, SeenSame
  <2> QED
    BY <2>2, <2>3 DEF Data, Seen
<1> QED
  BY <1>1, <1>2, <1>3, <1>4, <1>5, <1>6 DEF Next

--------------------------------------------------------------------------------
(* The queues as an in-order memory *)

LEMMA PrivateAgree ==
  ASSUME NEW t, NEW c PROVE InOrder!Private(t, c) <=> PrivateIn(prog, t, c)
BY DEF InOrder!Private, InOrder!Uops, PrivateIn

(* A commit executes the uop, and nobody else is in an update of a chunk   *)
(* that it stores to.                                                      *)
LEMMA CommitExecutes ==
  ASSUME TypeOK, Locks, Fences, Data, NEW t \in Threads, Commit(t)
  PROVE  InOrder!Load(t) \/ InOrder!Store(t) \/ InOrder!Fence(t)
<1> DEFINE i == Oldest(t)
           op == prog[t][i]
           e == rob[t][i]
<1>1. /\ i \in Uops(t) /\ e.issued
      /\ op.kind = "st" => ~HeldByOther(t, op.chunk)
      /\ op.kind # "st" => mem' = mem
      /\ arf' = IF op.kind = "ld"
                THEN [arf EXCEPT ![t] = [b \in op.bytes |-> e.data[b]]] ELSE arf
      /\ head' = [head EXCEPT ![t] = i] /\ prog' = prog
  BY DEF Commit, MacroOpReady, Complete
<1>2. op.kind = "st" =>
        \E again \in SUBSET Bytes :
          /\ \A b \in again : InOrder!LastStore(t, i, b) # {}
          /\ PrivateIn(prog, t, op.chunk) => again = {}
          /\ mem' = [mem EXCEPT ![op.chunk] = Stored(t, i, again)]
  BY CommitShape
<1>3. i = head[t] + 1 /\ head[t] \in Nat /\ i \in InFlight(t)
  BY <1>1, OldestTyped
<1> HIDE DEF i
<1>4. op.kind \in {"ld", "st", "mf"} /\ Len(prog[t]) \in Nat /\ Uops(t) = 1..Len(prog[t])
  BY <1>1, ProgramTyped DEF Ops
<1>5. InOrder!Step(t, op.kind)
  <2>1. head[t] < Len(prog[t])
    BY <1>1, <1>3, <1>4
  <2>2. head' = [head EXCEPT ![t] = head[t] + 1]
    BY <1>1, <1>3
  <2> QED
    BY <1>1, <1>3, <2>1, <2>2 DEF InOrder!Step
<1>6. CASE op.kind = "mf"
  BY <1>1, <1>5, <1>6 DEF InOrder!Fence
<1>7. CASE op.kind = "ld"
  <2>1. arf' = [arf EXCEPT ![t] = [b \in op.bytes |-> e.data[b]]] /\ DOMAIN arf = Threads
    BY <1>1, <1>7 DEF Data
  <2>2. \A u \in Threads \ {t} : arf'[u] = arf[u]
    BY <2>1
  <2>3. ASSUME InOrder!Private(t, op.chunk) \/ op.locked
        PROVE  arf'[t] = [b \in op.bytes |-> mem[op.chunk][b]]
    <3>1. PrivateIn(prog, t, op.chunk) \/ e.lock
      BY <1>1, <1>7, <2>3, PrivateAgree DEF Data, Known
    <3>2. LoadSees(t, i)
      BY <1>3 DEF Data, Seen
    <3>3. \A b : Writers(t, i, b) = {}
      BY <1>3, ProgramTyped DEF Writers, InFlight
    <3>4. \A b \in op.bytes : e.data[b] = mem[op.chunk][b]
      BY <1>1, <1>7, <3>1, <3>2, <3>3 DEF LoadSees, Sees
    <3>5. [b \in op.bytes |-> e.data[b]] = [b \in op.bytes |-> mem[op.chunk][b]]
      BY <3>4
    <3>6. arf'[t] = [b \in op.bytes |-> e.data[b]]
      BY <2>1
    <3> QED
      BY <3>5, <3>6
  <2>4. mem' = mem
    BY <1>1, <1>7
  <2> QED
    BY <1>3, <1>5, <1>7, <2>2, <2>3, <2>4 DEF InOrder!Load
<1>8. CASE op.kind = "st"
  <2>1. ASSUME NEW u \in Threads \ {t}, InOrder!InUpdate(u, op.chunk) PROVE FALSE
    <3>1. PICK k \in 1..head[u], j \in Uops(u) \ (1..head[u]) :
            /\ prog[u][k].locked /\ prog[u][k].kind = "ld"
            /\ prog[u][j].locked /\ prog[u][j].kind = "st"
            /\ prog[u][k].som = prog[u][j].som
            /\ prog[u][k].chunk = op.chunk /\ prog[u][j].chunk = op.chunk
      BY <2>1 DEF InOrder!InUpdate, InOrder!Uops, Uops
    <3>2. /\ head[u] \in 0..Len(prog[u]) /\ Uops(u) = 1..Len(prog[u]) /\ Len(prog[u]) \in Nat
      BY ProgramTyped
    <3>3. k \in Uops(u) /\ j \in Uops(u) /\ Updating(u, k, j)
      BY <3>1, <3>2 DEF Updating
    <3>4. op.chunk \in queued[u] /\ op.chunk \in Chunks
      BY <1>1, <1>8, <3>1, <3>3, ProgramTyped DEF Data, Updates
    <3>5. interlocks[op.chunk] = u
      BY <3>4 DEF Locks, LocksExact
    <3> QED
      BY <1>1, <1>8, <2>1, <3>5, QueueAssumption DEF HeldByOther
  <2>2. arf' = arf
    BY <1>1, <1>8
  <2>3. PICK again \in SUBSET Bytes :
          /\ \A b \in again : InOrder!LastStore(t, i, b) # {}
          /\ PrivateIn(prog, t, op.chunk) => again = {}
          /\ mem' = [mem EXCEPT ![op.chunk] = Stored(t, i, again)]
    BY <1>2, <1>8
  <2>4. again \in SUBSET InOrder!Again(t, i)
    BY <2>3, PrivateAgree DEF InOrder!Again
  <2>5. mem' = [mem EXCEPT ![op.chunk] =
                  [b \in Bytes |->
                     IF b \in op.bytes THEN <<t, i>>
                     ELSE IF b \in again THEN <<t, CHOOSE j \in InOrder!LastStore(t, i, b) : TRUE>>
                     ELSE @[b]]]
    BY <2>3 DEF Stored
  <2> QED
    BY <1>5, <1>8, <2>1, <2>2, <2>4, <2>5 DEF InOrder!Store, Oldest, i
<1> QED
  BY <1>4, <1>6, <1>7, <1>8

(* A flush restarts the instruction, or finds the thread at its start.     *)
LEMMA FlushRestarts ==
  ASSUME TypeOK, NEW t \in Threads, Flush(t)
  PROVE  InOrder!Restart(t) \/ UNCHANGED InOrder!mvars
<1>1. /\ InFlight(t) # {} /\ head' = [head EXCEPT ![t] = prog[t][Oldest(t)].som - 1]
      /\ UNCHANGED <<prog, mem, arf>>
  BY DEF Flush
<1>2. /\ Oldest(t) = head[t] + 1 /\ head[t] \in Nat /\ Oldest(t) \in 1..Len(prog[t])
      /\ Len(prog[t]) \in Nat /\ prog[t][Oldest(t)].som \in 1..Oldest(t)
  BY <1>1, OldestTyped, ProgramTyped
<1>3. CASE head[t] = 0
  <2>1. prog[t][Oldest(t)].som - 1 = head[t]
    BY <1>2, <1>3
  <2>2. head' = head
    BY <1>1, <2>1 DEF TypeOK
  <2> QED
    BY <1>1, <2>2 DEF InOrder!mvars
<1>4. CASE head[t] # 0
  <2>1. 0 < head[t] /\ head[t] < Len(prog[t])
    BY <1>2, <1>4
  <2>2. head' = [head EXCEPT ![t] = prog[t][head[t] + 1].som - 1]
    BY <1>1, <1>2
  <2> QED
    BY <1>1, <2>1, <2>2 DEF InOrder!Restart
<1> QED
  BY <1>3, <1>4

LEMMA NextImplements ==
  ASSUME TypeOK, Locks, Fences, Data, [Next]_vars
  PROVE  [InOrder!Next]_(InOrder!mvars)
<1>1. ASSUME NEW t \in Threads, NEW i \in Uops(t), Issue(t, i) PROVE UNCHANGED InOrder!mvars
  BY <1>1 DEF Issue, LoadWaits, LoadLockedOut, LoadIssues, StoreWaits, StoreForwardsInParallel,
              StoreAliases, StoreLockedOut, StoreIssues, FenceIssues, InOrder!mvars
<1>2. ASSUME NEW t \in Threads, NEW i \in Uops(t), Annul(t, i) PROVE UNCHANGED InOrder!mvars
  BY <1>2 DEF Annul, InOrder!mvars
<1>3. ASSUME NEW t \in Threads, FenceWakeup(t) PROVE UNCHANGED InOrder!mvars
  BY <1>3 DEF FenceWakeup, InOrder!mvars
<1>4. ASSUME NEW t \in Threads, Commit(t) PROVE InOrder!Next
  BY <1>4, CommitExecutes DEF InOrder!Next
<1>5. ASSUME NEW t \in Threads, Flush(t) PROVE InOrder!Next \/ UNCHANGED InOrder!mvars
  BY <1>5, FlushRestarts DEF InOrder!Next
<1>6. CASE NextCycle \/ UNCHANGED vars
  BY <1>6 DEF NextCycle, vars, InOrder!mvars
<1> QED
  BY <1>1, <1>2, <1>3, <1>4, <1>5, <1>6 DEF Next

(* The queues are invisible: loads that ran ahead of older stores, stores  *)
(* merged with stores, fences, locks, redispatch, annulment and flushes    *)
(* leave exactly the commits of threads that execute in order and update   *)
(* locked chunks without interruption (InOrderMemory).  All that merging   *)
(* shows is that a store may write bytes of its thread's own last stores   *)
(* to a shared chunk once more.                                            *)
THEOREM QueuesImplementMemory == Spec => ImplementsInOrderMemory
<1>1. Init => TypeOK /\ Locks /\ Fences /\ Data
  BY InitTyped, InitLocks, InitFences, InitData
<1>2. TypeOK /\ Locks /\ Fences /\ Data /\ [Next]_vars => TypeOK' /\ Locks' /\ Fences' /\ Data'
  BY NextTyped, NextKeepsLocks, NextKeepsFences, NextKeepsData DEF Locks
<1>3. Init => InOrder!Init
  BY DEF Init, InOrder!Init
<1>4. TypeOK /\ Locks /\ Fences /\ Data /\ [Next]_vars => [InOrder!Next]_(InOrder!mvars)
  BY NextImplements
<1> QED
  BY <1>1, <1>2, <1>3, <1>4, PTL DEF Spec, InOrder!Spec, ImplementsInOrderMemory

--------------------------------------------------------------------------------
(* No lock is taken twice *)

(* Load k has committed, its lock on c is queued, and the fence that ends  *)
(* its instruction has yet to complete.                                    *)
Releasing(t, c, k) ==
  /\ k <= head[t] /\ prog[t][k].kind = "ld" /\ prog[t][k].locked /\ prog[t][k].chunk = c
  /\ prog[t][k].eom > head[t] /\ ~rob[t][prog[t][k].eom].addrvalid
QueuedFenced ==
  \A t \in Threads : \A c \in queued[t] : \E k \in Uops(t) : Releasing(t, c, k)

(* A load of the chunk behind the instruction of a locked load finds its   *)
(* last fence in the way, one before it can issue only before the first,   *)
(* and in the instruction there is none.                                   *)
LEMMA NoDoubleLock ==
  ASSUME TypeOK, Locks, Fences, Known, QueuedFenced, \A p \in Programs : LockedAlone(p)
  PROVE  NoDoubleLocking
<1> SUFFICES ASSUME NEW t \in Threads, NEW i \in InFlight(t), CanIssue(t, i, "ld"),
                    interlocks[prog[t][i].chunk] = t
             PROVE  FALSE
  BY DEF NoDoubleLocking
<1> DEFINE c == prog[t][i].chunk
<1>1. /\ prog[t][i].kind = "ld" /\ ~rob[t][i].issued /\ i \in Uops(t) /\ i > head[t] /\ c \in Chunks
      /\ i \in Nat /\ head[t] \in Nat /\ Uops(t) = 1..Len(prog[t])
  BY ProgramTyped DEF CanIssue, InFlight
<1>2. LockedAlone(prog)
  BY DEF TypeOK
<1>3. ASSUME NEW k \in Uops(t), prog[t][k].kind = "ld", prog[t][k].locked, prog[t][k].chunk = c, k # i
      PROVE  i < prog[t][k].som \/ i > prog[t][k].eom
  <2>1. i \notin prog[t][k].som..prog[t][k].eom
    BY <1>1, <1>2, <1>3 DEF LockedAlone
  <2> QED
    BY <1>1, <2>1, SameInstruction, ProgramTyped
<1>4. ASSUME NEW k \in Uops(t), prog[t][k].kind = "ld", prog[t][k].locked,
             prog[t][k].eom \in InFlight(t), ~rob[t][prog[t][k].eom].addrvalid,
             i > prog[t][k].eom
      PROVE  FALSE
  <2>1. prog[t][k].eom \in Uops(t) /\ FullFence(prog[t][prog[t][k].eom])
    BY <1>4, SameInstruction
  <2>2. Holds(t, prog[t][k].eom, i)
    BY <1>1, <1>4, <2>1 DEF Holds, FullFence
  <2> QED
    BY <1>1, <2>1, <2>2, HeldLoadWaits
<1>5. CASE c \in queued[t]
  <2>1. PICK k \in Uops(t) : Releasing(t, c, k)
    BY <1>5 DEF QueuedFenced
  <2>2. prog[t][k].som <= k /\ k < i /\ k # i /\ prog[t][k].som \in Nat /\ k \in Nat
    BY <1>1, <2>1, SameInstruction, ProgramTyped DEF Releasing
  <2>3. i > prog[t][k].eom
    BY <1>1, <1>3, <2>1, <2>2 DEF Releasing
  <2>4. prog[t][k].eom \in InFlight(t)
    BY <2>1, SameInstruction DEF Releasing, InFlight
  <2> QED
    BY <1>4, <2>1, <2>3, <2>4 DEF Releasing
<1>6. CASE \E k \in Uops(t) : rob[t][k].lock /\ prog[t][k].chunk = c
  <2>1. PICK k \in Uops(t) : rob[t][k].lock /\ prog[t][k].chunk = c
    BY <1>6
  <2>2. /\ prog[t][k].kind = "ld" /\ k > head[t] /\ prog[t][k].locked /\ rob[t][k].issued
        /\ k # i /\ k \in Nat
    BY <1>1, <2>1 DEF Locks, LocksOfLoads, Known
  <2> DEFINE f == prog[t][k].som
             l == prog[t][k].eom
  <2>3. /\ f \in 1..k /\ l \in Nat /\ k <= l /\ f \in Uops(t) /\ l \in Uops(t)
        /\ FullFence(prog[t][f]) /\ FullFence(prog[t][l])
    BY <2>2, SameInstruction
  <2>4. k # f /\ k # l
    BY <2>2, <2>3 DEF FullFence
  <2>5. i < f \/ i > l
    BY <1>3, <2>1, <2>2
  <2> HIDE DEF f, l
  <2>6. CASE i > l
    <3>1. l \in InFlight(t) /\ l # Oldest(t)
      BY <1>1, <2>2, <2>3, <2>4 DEF InFlight, Oldest
    <3>2. ~rob[t][l].addrvalid
      BY <2>3, <3>1 DEF Fences, FencesOldest, FullFence
    <3> QED
      BY <1>4, <2>2, <2>6, <3>1, <3>2 DEF l
  <2>7. CASE i < f
    <3>1. f \in InFlight(t) /\ f # Oldest(t)
      BY <1>1, <2>3, <2>7 DEF InFlight, Oldest
    <3>2. ~rob[t][f].addrvalid
      BY <2>3, <3>1 DEF Fences, FencesOldest, FullFence
    <3>3. f < k
      BY <2>2, <2>3, <2>4
    <3>4. Holds(t, f, k)
      BY <2>2, <2>3, <3>1, <3>2, <3>3 DEF Holds, FullFence, InFlight
    <3> QED
      BY <2>2, <2>3, <3>4 DEF Fences, HeldBack
  <2> QED
    BY <2>5, <2>6, <2>7
<1> QED
  BY <1>1, <1>5, <1>6 DEF Locks, LocksExact

(* Until the fence completes, nothing changes for what is queued.          *)
LEMMA FencedKept ==
  ASSUME TypeOK, QueuedFenced, NEW t \in Threads, UNCHANGED <<prog, head>>,
         \A u \in Threads : queued'[u] \subseteq queued[u],
         \A u \in Threads \ {t} : rob'[u] = rob[u],
         queued'[t] = {} \/ \A i \in InFlight(t) :
           prog[t][i].kind = "mf" /\ ~rob[t][i].addrvalid => ~rob'[t][i].addrvalid
  PROVE  QueuedFenced'
<1> SUFFICES ASSUME NEW u \in Threads, NEW c \in queued'[u]
             PROVE  \E k \in Uops(u) : Releasing(u, c, k)'
  BY DEF QueuedFenced, Uops
<1>1. PICK k \in Uops(u) : Releasing(u, c, k)
  BY DEF QueuedFenced
<1>2. /\ prog[u][k].eom \in Uops(u) /\ prog[u][prog[u][k].eom].kind = "mf"
      /\ prog[u][k].eom \in InFlight(u)
  BY <1>1, SameInstruction DEF Releasing, FullFence, InFlight
<1>3. ~rob'[u][prog[u][k].eom].addrvalid
  <2>1. CASE u = t
    BY <1>1, <1>2, <2>1 DEF Releasing
  <2>2. CASE u # t
    BY <1>1, <2>2 DEF Releasing
  <2> QED
    BY <2>1, <2>2
<1> QED
  BY <1>1, <1>3 DEF Releasing

LEMMA SetKeepsFenced ==
  ASSUME TypeOK, QueuedFenced, NEW t \in Threads, NEW i \in Uops(t), NEW e, SetEntry(t, i, e),
         UNCHANGED <<prog, head, queued>>,
         prog[t][i].kind = "mf" => (e.addrvalid <=> rob[t][i].addrvalid)
  PROVE  QueuedFenced'
<1>1. /\ rob'[t][i] = e
      /\ \A u \in Threads : \A j \in Uops(u) : u # t \/ j # i => rob'[u][j] = rob[u][j]
  BY SetFacts DEF TypeOK, RobOK
<1>2. \A u \in Threads \ {t} : rob'[u] = rob[u]
  BY DEF SetEntry, TypeOK
<1>3. \A j \in InFlight(t) : prog[t][j].kind = "mf" /\ ~rob[t][j].addrvalid => ~rob'[t][j].addrvalid
  BY <1>1 DEF InFlight
<1> QED
  BY <1>2, <1>3, FencedKept

LEMMA ResetKeepsFenced ==
  ASSUME TypeOK, QueuedFenced, NEW t \in Threads, NEW S \in SUBSET Uops(t), Resets(t, S),
         UNCHANGED <<prog, head>>, queued' = queued \/ queued' = [queued EXCEPT ![t] = {}]
  PROVE  QueuedFenced'
<1>1. /\ \A u \in Threads \ {t} : rob'[u] = rob[u]
      /\ \A i \in Uops(t) :
           rob'[t][i] = IF i \in S THEN Dispatched(prog[t], i) ELSE rob[t][i]
  BY ResetFacts DEF TypeOK, RobOK
<1>2. \A u \in Threads : queued'[u] \subseteq queued[u]
  BY DEF TypeOK
<1>3. \A j \in InFlight(t) : ~rob[t][j].addrvalid => ~rob'[t][j].addrvalid
  <2>1. \A j \in Uops(t) : ~Dispatched(prog[t], j).addrvalid
    BY DEF Dispatched
  <2> QED
    BY <1>1, <2>1 DEF InFlight
<1> QED
  BY <1>1, <1>2, <1>3, FencedKept

(* A lock is queued when its load commits, before the fence; the fence     *)
(* commits only when it is complete.                                       *)
LEMMA CommitKeepsFenced ==
  ASSUME TypeOK, Locks, Fences, Known, QueuedFenced, NEW t \in Threads, Commit(t)
  PROVE  QueuedFenced'
<1> DEFINE i == Oldest(t)
<1>1. /\ i \in Uops(t) /\ SetEntry(t, i, Dispatched(prog[t], i)) /\ Complete(t, i)
      /\ head' = [head EXCEPT ![t] = i] /\ prog' = prog
      /\ queued' = [queued EXCEPT ![t] = IF rob[t][i].lock THEN @ \cup {prog[t][i].chunk} ELSE @]
  BY DEF Commit, MacroOpReady
<1>2. i = head[t] + 1 /\ head[t] \in Nat /\ i \in InFlight(t)
  BY <1>1, OldestTyped
<1>3. FencesOldest => \A j \in InFlight(t) : prog[t][j].kind = "mf" /\ rob[t][j].addrvalid => j = i
  BY DEF FencesOldest
<1> HIDE DEF i
<1>4. \A u \in Threads : \A j \in Uops(u) : u # t \/ j # i => rob'[u][j] = rob[u][j]
  BY <1>1, SetFacts DEF TypeOK, RobOK
<1>5. /\ \A u \in Threads \ {t} : head'[u] = head[u] /\ queued'[u] = queued[u]
      /\ head'[t] = i
      /\ queued'[t] = IF rob[t][i].lock THEN queued[t] \cup {prog[t][i].chunk} ELSE queued[t]
  BY <1>1 DEF TypeOK
<1> SUFFICES ASSUME NEW u \in Threads, NEW c \in queued'[u]
             PROVE  \E k \in Uops(u) : Releasing(u, c, k)'
  BY <1>1 DEF QueuedFenced, Uops
<1>6. CASE c \in queued[u]
  <2>1. PICK k \in Uops(u) : Releasing(u, c, k)
    BY <1>6 DEF QueuedFenced
  <2> DEFINE l == prog[u][k].eom
  <2>2. l \in Uops(u) /\ prog[u][l].kind = "mf" /\ l \in Nat /\ k \in Nat /\ l > head[u] /\ ~rob[u][l].addrvalid
    BY <2>1, SameInstruction, ProgramTyped DEF Releasing, FullFence
  <2> HIDE DEF l
  <2>3. u # t \/ l # i
    BY <1>1, <2>2 DEF Complete
  <2>4. ~rob'[u][l].addrvalid
    BY <1>4, <2>2, <2>3
  <2>5. l > head'[u] /\ k <= head'[u]
    <3>1. CASE u # t
      BY <1>5, <2>1, <2>2, <3>1 DEF Releasing
    <3>2. CASE u = t
      BY <1>2, <1>5, <2>1, <2>2, <2>3, <3>2 DEF Releasing
    <3> QED
      BY <3>1, <3>2
  <2> QED
    BY <1>1, <2>1, <2>4, <2>5 DEF Releasing, l
<1>7. CASE c \notin queued[u]
  <2>1. u = t /\ rob[t][i].lock /\ c = prog[t][i].chunk
    BY <1>5, <1>7
  <2>2. prog[t][i].kind = "ld" /\ prog[t][i].locked
    BY <1>1, <2>1 DEF Locks, LocksOfLoads, Known
  <2> DEFINE l == prog[t][i].eom
  <2>3. l \in Uops(t) /\ prog[t][l].kind = "mf" /\ l \in Nat /\ i <= l
    BY <1>1, <2>2, SameInstruction DEF FullFence
  <2> HIDE DEF l
  <2>4. i # l /\ i < l /\ l \in InFlight(t)
    <3>1. i # l
      BY <2>2, <2>3
    <3> QED
      BY <1>2, <2>3, <3>1 DEF InFlight
  <2>5. ~rob'[t][l].addrvalid
    BY <1>3, <1>4, <2>3, <2>4 DEF Fences
  <2>6. i <= head'[t] /\ l > head'[t]
    BY <1>2, <1>5, <2>4
  <2>7. PICK n \in Uops(t) : n = i
    BY <1>1
  <2>8. Releasing(u, c, n)'
    BY <1>1, <2>1, <2>2, <2>5, <2>6, <2>7 DEF Releasing, l
  <2> QED
    BY <2>1, <2>8
<1> QED
  BY <1>6, <1>7

LEMMA NextKeepsFenced ==
  ASSUME TypeOK, Locks, Fences, Known, QueuedFenced, [Next]_vars
  PROVE  QueuedFenced'
<1>1. ASSUME NEW t \in Threads, NEW i \in Uops(t), Issue(t, i) PROVE QueuedFenced'
  <2>1. CASE LoadWaits(t, i) \/ LoadLockedOut(t, i) \/ LoadIssues(t, i)
    BY <1>1, <2>1, SetKeepsFenced DEF LoadWaits, LoadLockedOut, LoadIssues, CanIssue
  <2>2. CASE \/ StoreWaits(t, i) \/ StoreForwardsInParallel(t, i) \/ StoreLockedOut(t, i)
             \/ StoreIssues(t, i)
    BY <1>1, <2>2, SetKeepsFenced DEF StoreWaits, StoreForwardsInParallel, StoreLockedOut,
       StoreIssues, StoreReady, CanIssue
  <2>3. CASE FenceIssues(t, i)
    <3> DEFINE e == [rob[t][i] EXCEPT !.issued = TRUE]
    <3>1. SetEntry(t, i, e) /\ UNCHANGED <<prog, head, queued>>
      BY <2>3 DEF FenceIssues
    <3>2. rob[t][i] \in Entries
      BY EntryTyped
    <3>3. e.addrvalid = rob[t][i].addrvalid
      BY <3>2 DEF Entries
    <3> HIDE DEF e
    <3> QED
      BY <3>1, <3>3, SetKeepsFenced
  <2>4. CASE StoreAliases(t, i)
    <3> DEFINE S == {j \in InFlight(t) : j >= i}
    <3>1. /\ Resets(t, S) /\ UNCHANGED <<prog, head>> /\ queued' = [queued EXCEPT ![t] = {}]
          /\ S \in SUBSET Uops(t)
      BY <2>4 DEF StoreAliases, Redispatch, Resets, InFlight
    <3> HIDE DEF S
    <3> QED
      BY <3>1, ResetKeepsFenced
  <2> QED
    BY <1>1, <2>1, <2>2, <2>3, <2>4 DEF Issue
<1>2. ASSUME NEW t \in Threads, NEW i \in Uops(t), Annul(t, i) PROVE QueuedFenced'
  <2> DEFINE S == {j \in InFlight(t) : j >= i}
  <2>1. Resets(t, S) /\ UNCHANGED <<prog, head, queued>> /\ S \in SUBSET Uops(t)
    BY <1>2 DEF Annul, Resets, InFlight
  <2> HIDE DEF S
  <2> QED
    BY <2>1, ResetKeepsFenced
<1>3. ASSUME NEW t \in Threads, FenceWakeup(t) PROVE QueuedFenced'
  <2>1. queued' = [queued EXCEPT ![t] = {}] /\ UNCHANGED <<prog, head>>
    BY <1>3 DEF FenceWakeup
  <2>2. \A u \in Threads \ {t} : rob'[u] = rob[u]
    BY <1>3 DEF FenceWakeup, SetEntry, TypeOK
  <2>3. queued'[t] = {} /\ \A u \in Threads : queued'[u] \subseteq queued[u]
    BY <2>1 DEF TypeOK
  <2> QED
    BY <2>1, <2>2, <2>3, FencedKept
<1>4. ASSUME NEW t \in Threads, Commit(t) PROVE QueuedFenced'
  BY <1>4, CommitKeepsFenced
<1>5. ASSUME NEW t \in Threads, Flush(t) PROVE QueuedFenced'
  <2>1. /\ Resets(t, Uops(t)) /\ prog' = prog /\ queued' = [queued EXCEPT ![t] = {}]
        /\ head' = [head EXCEPT ![t] = prog[t][Oldest(t)].som - 1]
    BY <1>5 DEF Flush, Redispatch, Resets
  <2>2. \A u \in Threads \ {t} : rob'[u] = rob[u] /\ head'[u] = head[u] /\ queued'[u] = queued[u]
    BY <2>1, ResetFacts DEF TypeOK, RobOK
  <2>3. queued'[t] = {}
    BY <2>1 DEF TypeOK
  <2> QED
    BY <2>1, <2>2, <2>3 DEF QueuedFenced, Releasing, Uops
<1>6. CASE NextCycle \/ UNCHANGED vars
  <2>1. UNCHANGED <<prog, rob, head, queued>>
    BY <1>6 DEF NextCycle, vars
  <2> QED
    BY <2>1 DEF QueuedFenced, Releasing, Uops
<1> QED
  BY <1>1, <1>2, <1>3, <1>4, <1>5, <1>6 DEF Next

LEMMA SetKeepsKnown ==
  ASSUME TypeOK, Known, NEW t \in Threads, NEW i \in Uops(t), NEW e, SetEntry(t, i, e), prog' = prog,
         e.issued /\ prog[t][i].kind # "mf" => e.addrvalid,
         prog[t][i].kind = "ld" => (e.lock <=> e.issued /\ prog[t][i].locked)
  PROVE  Known'
<1>1. /\ rob'[t][i] = e
      /\ \A u \in Threads : \A j \in Uops(u) : u # t \/ j # i => rob'[u][j] = rob[u][j]
  BY SetFacts DEF TypeOK, RobOK
<1>2. \A u \in Threads : Uops(u)' = Uops(u)
  BY DEF Uops
<1> QED
  BY <1>1, <1>2 DEF Known

LEMMA ResetKeepsKnown ==
  ASSUME TypeOK, Known, NEW t \in Threads, NEW S \in SUBSET Uops(t), Resets(t, S), prog' = prog
  PROVE  Known'
<1>1. /\ \A u \in Threads \ {t} : rob'[u] = rob[u]
      /\ \A i \in Uops(t) :
           rob'[t][i] = IF i \in S THEN Dispatched(prog[t], i) ELSE rob[t][i]
  BY ResetFacts DEF TypeOK, RobOK
<1>2. \A j \in Uops(t) : ~Dispatched(prog[t], j).issued /\ ~Dispatched(prog[t], j).lock
  BY DEF Dispatched
<1>3. \A u \in Threads : Uops(u)' = Uops(u)
  BY DEF Uops
<1> QED
  BY <1>1, <1>2, <1>3 DEF Known

LEMMA NextKeepsKnown ==
  ASSUME TypeOK, Known, [Next]_vars
  PROVE  Known'
<1>1. ASSUME NEW t \in Threads, NEW i \in Uops(t), Issue(t, i) PROVE Known'
  <2> DEFINE s == Source(t, i)
             r == Replayed(rob[t][i], s)
  <2>0. /\ rob[t][i] \in Entries /\ r \in Entries
        /\ r.issued = rob[t][i].issued /\ r.lock = rob[t][i].lock /\ r.addrvalid
    <3>1. /\ rob[t][i] \in Entries /\ r \in Entries
          /\ r = [rob[t][i] EXCEPT !.addrvalid = TRUE, !.datavalid = FALSE, !.rs = s]
      BY EntryTyped
    <3> HIDE DEF r, s
    <3> QED
      BY <3>1 DEF Entries
  <2>1. prog[t][i].kind = "ld" => (rob[t][i].lock <=> rob[t][i].issued /\ prog[t][i].locked)
    BY DEF Known
  <2> HIDE DEF r
  <2>2. CASE LoadWaits(t, i) \/ LoadLockedOut(t, i) \/ StoreForwardsInParallel(t, i)
             \/ StoreLockedOut(t, i)
    <3>1. SetEntry(t, i, r) /\ prog' = prog
      BY <2>2 DEF LoadWaits, LoadLockedOut, StoreForwardsInParallel, StoreLockedOut, r
    <3> QED
      BY <2>0, <2>1, <3>1, SetKeepsKnown
  <2>3. CASE LoadIssues(t, i)
    <3> DEFINE e == [rob[t][i] EXCEPT !.issued = TRUE, !.addrvalid = TRUE,
                       !.datavalid = TRUE, !.rs = s,
                       !.lock = prog[t][i].locked, !.data = Loaded(t, i)]
    <3>1. SetEntry(t, i, e) /\ prog' = prog
      BY <2>3 DEF LoadIssues
    <3> HIDE DEF s
    <3>2. e.issued /\ e.addrvalid /\ e.lock = prog[t][i].locked
      BY <2>0 DEF Entries
    <3> HIDE DEF e
    <3> QED
      BY <3>1, <3>2, SetKeepsKnown
  <2>4. CASE StoreWaits(t, i)
    <3> DEFINE e == [r EXCEPT !.second = TRUE]
    <3>1. SetEntry(t, i, e) /\ prog' = prog
      BY <2>4 DEF StoreWaits, r
    <3>2. e.addrvalid /\ e.issued = r.issued /\ e.lock = r.lock
      BY <2>0 DEF Entries
    <3> HIDE DEF e
    <3> QED
      BY <2>0, <2>1, <3>1, <3>2, SetKeepsKnown
  <2>5. CASE StoreIssues(t, i)
    <3> DEFINE mask == prog[t][i].bytes \cup (IF s = 0 THEN {} ELSE rob[t][s].mask)
               e == [rob[t][i] EXCEPT !.issued = TRUE, !.addrvalid = TRUE,
                       !.datavalid = TRUE, !.second = TRUE, !.rs = s,
                       !.mask = mask, !.data = Merged(t, i)]
    <3>1. SetEntry(t, i, e) /\ prog' = prog /\ prog[t][i].kind = "st"
      BY <2>5 DEF StoreIssues, StoreReady, CanIssue
    <3> HIDE DEF s, mask
    <3>2. e.addrvalid
      BY <2>0 DEF Entries
    <3> HIDE DEF e
    <3> QED
      BY <3>1, <3>2, SetKeepsKnown
  <2>6. CASE FenceIssues(t, i)
    <3>1. prog[t][i].kind = "mf" /\ prog' = prog
          /\ SetEntry(t, i, [rob[t][i] EXCEPT !.issued = TRUE])
      BY <2>6 DEF FenceIssues, CanIssue
    <3> QED
      BY <3>1, SetKeepsKnown
  <2>7. CASE StoreAliases(t, i)
    <3> DEFINE S == {j \in InFlight(t) : j >= i}
    <3>1. Resets(t, S) /\ prog' = prog /\ S \in SUBSET Uops(t)
      BY <2>7 DEF StoreAliases, Redispatch, Resets, InFlight
    <3> HIDE DEF S
    <3> QED
      BY <3>1, ResetKeepsKnown
  <2> QED
    BY <1>1, <2>2, <2>3, <2>4, <2>5, <2>6, <2>7 DEF Issue
<1>2. ASSUME NEW t \in Threads, NEW i \in Uops(t), Annul(t, i) PROVE Known'
  <2> DEFINE S == {j \in InFlight(t) : j >= i}
  <2>1. Resets(t, S) /\ prog' = prog /\ S \in SUBSET Uops(t)
    BY <1>2 DEF Annul, Resets, InFlight
  <2> HIDE DEF S
  <2> QED
    BY <2>1, ResetKeepsKnown
<1>3. ASSUME NEW t \in Threads, FenceWakeup(t) \/ Commit(t) PROVE Known'
  <2> DEFINE o == Oldest(t)
  <2>1. CASE FenceWakeup(t)
    <3>1. /\ prog[t][o].kind = "mf" /\ prog' = prog /\ o \in Uops(t)
          /\ SetEntry(t, o, [rob[t][o] EXCEPT !.addrvalid = TRUE, !.datavalid = TRUE])
      BY <2>1 DEF FenceWakeup
    <3> HIDE DEF o
    <3> QED
      BY <3>1, SetKeepsKnown
  <2>2. CASE Commit(t)
    <3>1. SetEntry(t, o, Dispatched(prog[t], o)) /\ prog' = prog /\ o \in Uops(t)
      BY <2>2 DEF Commit, MacroOpReady
    <3>2. ~Dispatched(prog[t], o).issued /\ ~Dispatched(prog[t], o).lock
      BY DEF Dispatched
    <3> HIDE DEF o
    <3> QED
      BY <3>1, <3>2, SetKeepsKnown
  <2> QED
    BY <1>3, <2>1, <2>2
<1>4. ASSUME NEW t \in Threads, Flush(t) PROVE Known'
  BY <1>4, ResetKeepsKnown DEF Flush, Redispatch, Resets
<1>5. CASE NextCycle \/ UNCHANGED vars
  BY <1>5 DEF NextCycle, vars, Known, Uops
<1> QED
  BY <1>1, <1>2, <1>3, <1>4, <1>5 DEF Next

(* If a locked load is the only load of its chunk in its instruction       *)
(* (LockedAlone), a load that may issue never finds its chunk locked by    *)
(* its own thread: the assertion of issueload (oooexec.cpp:1293) holds for *)
(* such programs however uops issue, are sent back, annulled or flushed.   *)
THEOREM LocksTakenOnce ==
  ASSUME \A p \in Programs : LockedAlone(p)
  PROVE  Spec => []NoDoubleLocking
<1> DEFINE Inv == TypeOK /\ Locks /\ Fences /\ Known /\ QueuedFenced
<1>1. Init => Inv
  BY InitTyped, InitLocks, InitFences, InitData DEF Init, Data, QueuedFenced
<1>2. Inv /\ [Next]_vars => Inv'
  BY NextTyped, NextKeepsLocks, NextKeepsFences, NextKeepsKnown, NextKeepsFenced DEF Locks
<1>3. Inv => NoDoubleLocking
  BY NoDoubleLock
<1> QED
  BY <1>1, <1>2, <1>3, PTL DEF Spec

===============================================================================
