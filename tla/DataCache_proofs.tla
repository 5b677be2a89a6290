---------------------------- MODULE DataCache_proofs ----------------------------
(***************************************************************************)
(* If no line is used by two threads, or by a thread and a prefetch, no    *)
(* flush, redispatch or misprediction leaves a stale link between the two  *)
(* tables: every slot that becomes ready belongs to a load that waits for  *)
(* it, and every load that waits is linked to the buffer that will wake it.*)
(* (With a shared line NoStaleWakeup fails: DataCache_StaleWakeup.cfg.)   *)
(***************************************************************************)
EXTENDS DataCache, TLAPS, WellFoundedInduction

NoSharing ==
  /\ \A t, u \in Threads : t # u => LinesOf[t] \cap LinesOf[u] = {}
  /\ \A t \in Threads : LinesOf[t] \cap Prefetched = {}

(* A busy buffer holds a line of its owner; no two hold the same line.     *)
Owns(owner, line) ==
  \/ owner \in Threads /\ line \in LinesOf[owner]
  \/ owner = Prefetcher /\ line \in Prefetched

BuffersOwned ==
  /\ \A b \in Free : missbuf[b].lfrqmap = {} /\ ~missbuf[b].dcache
  /\ \A b \in Busy : missbuf[b].cycles # 0 /\ Owns(missbuf[b].thread, missbuf[b].line)
  /\ \A b, c \in Busy : missbuf[b].line = missbuf[c].line => b = c

(* An allocated slot names the load that waits in it, and a line of its thread. *)
SlotsOwned ==
  /\ lfrq.ready \cap lfrq.free = {}
  /\ \A s \in Slots \ lfrq.free :
       /\ lfrq.reqs[s] \in [thread : Threads, rob : Rob, line : Lines]
       /\ lfrq.reqs[s].line \in LinesOf[lfrq.reqs[s].thread]
       /\ lfrqslot[lfrq.reqs[s].thread][lfrq.reqs[s].rob] = s

(* The links from buffers to slots, and their converse. *)
Linked ==
  /\ \A b \in Buffers : \A s \in missbuf[b].lfrqmap :
       s \notin lfrq.free \cup lfrq.ready /\ missbuf[b].line = lfrq.reqs[s].line
  /\ \A s \in Slots \ (lfrq.free \cup lfrq.ready) :
       \E b \in Buffers : s \in missbuf[b].lfrqmap /\ missbuf[b].dcache

IInv == TypeOK /\ BuffersOwned /\ SlotsOwned /\ Linked

(* lsb of a bitmap that is not empty is one of its bits. *)
LEMMA LowestIn == ASSUME NEW S \in SUBSET Nat, S # {} PROVE Lowest(S) \in S
<1> DEFINE Less == {ss \in Nat \X Nat : ss[1] < ss[2]}
<1>1. OpToRel(<,Nat) = Less
  BY Zenon DEF OpToRel
<1>2. IsWellFoundedOn(Less, Nat)
  BY <1>1, NatLessThanWellFounded, Zenon
<1> HIDE DEF Less
<1>3. PICK n \in S : \A m \in S : ~ (<<m, n>> \in Less)
  BY <1>2, WFMin, Zenon
<1>4. ASSUME NEW m \in S PROVE n <= m
  <2>1. <<m, n>> \in Less <=> (<<m, n>> \in Nat \X Nat /\ <<m, n>>[1] < <<m, n>>[2])
    BY Zenon DEF Less
  <2>2. ~(m < n)
    BY <1>3, <2>1
  <2> QED
    BY <2>2, SMT
<1> QED
  BY <1>4 DEF Lowest

(***************************************************************************)
(* What a miss does to the buffers: one of them is busy with the line, has *)
(* the new slots besides its old ones, and the others are as before.       *)
(***************************************************************************)
Takes(b, line, icache, slots) ==
  /\ missbuf' = [missbuf EXCEPT ![b] = missbuf'[b]]
  /\ missbuf'[b] \in Entries
  /\ missbuf'[b].level \in Levels /\ missbuf'[b].cycles # 0
  /\ missbuf'[b].line = line
  /\ Owns(missbuf'[b].thread, line)
  /\ missbuf'[b].lfrqmap = missbuf[b].lfrqmap \cup slots
  /\ (missbuf[b].dcache \/ ~icache) => missbuf'[b].dcache
  /\ missbuf[b].lfrqmap = {} \/ missbuf[b].line = line
  /\ \A c \in Buffers \ {b} : c \in Busy => missbuf[c].line # line

LEMMA MissTakesBuffer ==
  ASSUME IInv, NEW line \in Lines, NEW level \in Levels, NEW icache \in BOOLEAN,
         NEW owner \in Threads \cup {Prefetcher}, NEW slots \in SUBSET Slots,
         Owns(owner, line), Available(line),
         InitiateMiss(line, level, icache, owner, slots)
  PROVE  \E b \in Buffers : Takes(b, line, icache, slots)
<1> DEFINE b == Target(line)
<1>0. Levels \subseteq Nat /\ Buffers \subseteq Nat /\ \A l \in Levels : Latency[l] \in Nat \ {0}
  BY CacheAssumption DEF Levels
<1>1. CASE Find(line) # {}
  <2>1. b \in Find(line)
    BY <1>0, <1>1, LowestIn DEF Target, Find, Busy
  <2>2. b \in Busy /\ missbuf[b].line = line
    BY <2>1 DEF Find
  <2>3. missbuf[b] \in Entries
    BY <2>2 DEF IInv, TypeOK, Busy
  <2> DEFINE new == Join(missbuf[b], icache, slots)
  <2>4. missbuf' = [missbuf EXCEPT ![b] = new]
    BY <1>1 DEF InitiateMiss
  <2>5. missbuf'[b] = new
    BY <2>2, <2>4 DEF IInv, TypeOK, Busy
  <2>6. /\ new.level = missbuf[b].level /\ new.cycles = missbuf[b].cycles
        /\ new.line = missbuf[b].line /\ new.thread = missbuf[b].thread
        /\ new.dcache = (missbuf[b].dcache \/ ~icache)
        /\ new.lfrqmap = missbuf[b].lfrqmap \cup slots
    BY <2>3 DEF Entries, Join
  <2>7. new \in Entries
    BY <2>3 DEF Entries, Join
  <2>8. new.level \in Levels
    BY <2>2, <2>3, <2>6 DEF Busy, Free, Entries
  <2>9. Owns(new.thread, line) /\ new.cycles # 0
    BY <2>2, <2>6 DEF IInv, BuffersOwned
  <2>10. \A c \in Buffers \ {b} : c \in Busy => missbuf[c].line # line
    BY <2>2 DEF IInv, BuffersOwned
  <2> HIDE DEF new
  <2> QED
    BY <2>2, <2>4, <2>5, <2>6, <2>7, <2>8, <2>9, <2>10 DEF Busy, Takes
<1>2. CASE Find(line) = {}
  <2>1. b \in Free
    BY <1>0, <1>2, LowestIn DEF Target, Free, Available
  <2> DEFINE new == NewEntry(line, level, icache, owner, slots)
  <2>2. missbuf' = [missbuf EXCEPT ![b] = new]
    BY <1>2 DEF InitiateMiss
  <2>3. b \in Buffers /\ missbuf[b].lfrqmap = {} /\ ~missbuf[b].dcache
    BY <2>1 DEF IInv, BuffersOwned, Free
  <2>4. missbuf'[b] = new
    BY <2>2, <2>3 DEF IInv, TypeOK
  <2>5. new \in Entries
    BY <1>0 DEF Entries, NewEntry
  <2>6. \A c \in Buffers \ {b} : c \in Busy => missbuf[c].line # line
    BY <1>2 DEF Find
  <2>7. /\ new.level = level /\ new.cycles = Latency[level] /\ new.line = line /\ new.thread = owner
        /\ new.lfrqmap = slots /\ new.dcache = ~icache
    BY DEF NewEntry
  <2> HIDE DEF new
  <2> QED
    BY <1>0, <2>2, <2>3, <2>4, <2>5, <2>6, <2>7 DEF Takes
<1> QED
  BY <1>1, <1>2

LEMMA InitIInv == Init => IInv
<1> SUFFICES ASSUME Init PROVE IInv
  OBVIOUS
<1>1. Idle \in Entries /\ Idle.level = 0 /\ Idle.lfrqmap = {} /\ ~Idle.dcache
  BY DEF Idle, Entries
<1> HIDE DEF Idle
<1>2. TypeOK
  BY <1>1 DEF Init, TypeOK, Requests
<1>3. BuffersOwned
  BY <1>1 DEF Init, BuffersOwned, Busy, Free
<1>4. SlotsOwned /\ Linked
  BY <1>1 DEF Init, SlotsOwned, Linked
<1> QED
  BY <1>2, <1>3, <1>4 DEF IInv

(* The part of the invariant that is about buffers alone, after a miss. *)
LEMMA MissKeepsBuffers ==
  ASSUME IInv, NEW line \in Lines, NEW b \in Buffers,
         missbuf' = [missbuf EXCEPT ![b] = missbuf'[b]],
         missbuf'[b] \in Entries, missbuf'[b].level \in Levels, missbuf'[b].cycles # 0,
         missbuf'[b].line = line, Owns(missbuf'[b].thread, line),
         \A c \in Buffers \ {b} : c \in Busy => missbuf[c].line # line
  PROVE  missbuf' \in [Buffers -> Entries] /\ BuffersOwned'
<1>1. missbuf' \in [Buffers -> Entries]
  BY DEF IInv, TypeOK
<1>2. \A c \in Buffers \ {b} : missbuf'[c] = missbuf[c]
  BY DEF IInv, TypeOK
<1>3. b \in Busy' /\ \A c \in Buffers \ {b} : c \in Busy' <=> c \in Busy
  BY <1>2 DEF Busy, Free, Levels
<1>4. Free' \subseteq Buffers /\ b \notin Free' /\ \A c \in Free' : c \in Free
  BY <1>2, <1>3 DEF Busy, Free
<1>5. \A c \in Free' : missbuf'[c].lfrqmap = {} /\ ~missbuf'[c].dcache
  BY <1>2, <1>4 DEF IInv, BuffersOwned
<1>6. \A c \in Busy' : missbuf'[c].cycles # 0 /\ Owns(missbuf'[c].thread, missbuf'[c].line)
  BY <1>2, <1>3 DEF IInv, BuffersOwned, Busy
<1>7. \A c, d \in Busy' : missbuf'[c].line = missbuf'[d].line => c = d
  BY <1>2, <1>3 DEF IInv, BuffersOwned, Busy
<1> QED
  BY <1>1, <1>5, <1>6, <1>7 DEF BuffersOwned, Owns

(* A fetch, a store or a prefetch adds no slot. *)
LEMMA MissWithoutSlot ==
  ASSUME IInv, NEW line \in Lines, NEW level \in Levels, NEW icache \in BOOLEAN,
         NEW owner \in Threads \cup {Prefetcher},
         Owns(owner, line), Available(line),
         InitiateMiss(line, level, icache, owner, {}),
         UNCHANGED <<lfrq, lfrqslot>>, fill' \in [Threads -> Lines \cup {None}]
  PROVE  IInv'
<1>1. PICK b \in Buffers : Takes(b, line, icache, {})
  <2>1. {} \in SUBSET Slots
    OBVIOUS
  <2> QED
    BY <2>1, MissTakesBuffer, Zenon
<1> USE DEF Takes
<1>2. missbuf' \in [Buffers -> Entries] /\ BuffersOwned'
  BY <1>1, MissKeepsBuffers
<1>3. \A c \in Buffers \ {b} : missbuf'[c] = missbuf[c]
  BY <1>1 DEF IInv, TypeOK
<1>4. TypeOK'
  BY <1>2 DEF IInv, TypeOK
<1>5. SlotsOwned'
  BY DEF IInv, SlotsOwned
<1>6. Linked'
  <2>1. ASSUME NEW c \in Buffers, NEW s \in missbuf'[c].lfrqmap
        PROVE  s \notin lfrq.free \cup lfrq.ready /\ missbuf'[c].line = lfrq.reqs[s].line
    BY <1>1, <1>3 DEF IInv, Linked
  <2>2. ASSUME NEW s \in Slots \ (lfrq.free \cup lfrq.ready)
        PROVE  \E c \in Buffers : s \in missbuf'[c].lfrqmap /\ missbuf'[c].dcache
    BY <1>1, <1>3 DEF IInv, Linked
  <2> QED
    BY <2>1, <2>2 DEF Linked
<1> QED
  BY <1>2, <1>4, <1>5, <1>6 DEF IInv

LEMMA LoadStep ==
  ASSUME IInv, NEW t \in Threads, NEW i \in Rob, NEW line \in LinesOf[t],
         NEW level \in Levels, Load(t, i, line, level)
  PROVE  IInv'
<1> DEFINE req == [thread |-> t, rob |-> i, line |-> line]
<1>0. line \in Lines /\ Slots \subseteq Nat
  BY CacheAssumption
<1>1. PICK s \in Slots : s \in lfrq.free /\ s = Lowest(lfrq.free)
  BY <1>0, LowestIn DEF Load, IInv, TypeOK
<1>2. /\ lfrq' = [lfrq EXCEPT !.free = @ \ {s}, !.reqs[s] = req]
      /\ lfrqslot' = [lfrqslot EXCEPT ![t][i] = s]
      /\ InitiateMiss(line, level, FALSE, t, {s})
      /\ lfrqslot[t][i] = None /\ Free # {} /\ fill' = fill
  BY <1>1 DEF Load
<1>3. PICK b \in Buffers : Takes(b, line, FALSE, {s})
  <2>1. Owns(t, line) /\ Available(line)
    BY <1>1, <1>2 DEF Owns, Available
  <2>2. {s} \in SUBSET Slots /\ FALSE \in BOOLEAN /\ t \in Threads \cup {Prefetcher}
    BY <1>1
  <2> QED
    BY <1>0, <1>2, <2>1, <2>2, MissTakesBuffer, Zenon
<1> USE DEF Takes
<1>4. missbuf' \in [Buffers -> Entries] /\ BuffersOwned'
  BY <1>0, <1>3, MissKeepsBuffers
<1>5. \A c \in Buffers \ {b} : missbuf'[c] = missbuf[c]
  BY <1>3 DEF IInv, TypeOK
<1>6. /\ lfrq'.free = lfrq.free \ {s} /\ lfrq'.ready = lfrq.ready
      /\ lfrq'.reqs = [lfrq.reqs EXCEPT ![s] = req]
      /\ lfrq' \in [free : SUBSET Slots, ready : SUBSET Slots, reqs : [Slots -> Requests]]
  <2>1. req \in Requests
    BY <1>0 DEF Requests
  <2> HIDE DEF req
  <2> QED
    BY <1>1, <1>2, <2>1 DEF IInv, TypeOK
<1>7. lfrqslot' \in [Threads -> [Rob -> Slots \cup {None}]]
  BY <1>1, <1>2 DEF IInv, TypeOK
<1>8. lfrqslot'[t][i] = s /\ \A u \in Threads, j \in Rob :
        <<u, j>> # <<t, i>> => lfrqslot'[u][j] = lfrqslot[u][j]
  BY <1>2 DEF IInv, TypeOK
<1>9. lfrq'.reqs[s] = req /\ \A r \in Slots \ {s} : lfrq'.reqs[r] = lfrq.reqs[r]
  BY <1>1, <1>6 DEF IInv, TypeOK
<1>10. TypeOK'
  BY <1>2, <1>4, <1>6, <1>7 DEF IInv, TypeOK
<1>11. SlotsOwned'
  <2>1. lfrq'.ready \cap lfrq'.free = {}
    BY <1>6 DEF IInv, SlotsOwned
  <2>2. ASSUME NEW r \in Slots \ lfrq'.free
        PROVE  /\ lfrq'.reqs[r] \in [thread : Threads, rob : Rob, line : Lines]
               /\ lfrq'.reqs[r].line \in LinesOf[lfrq'.reqs[r].thread]
               /\ lfrqslot'[lfrq'.reqs[r].thread][lfrq'.reqs[r].rob] = r
    <3>1. CASE r = s
      BY <1>0, <1>8, <1>9, <3>1
    <3>2. CASE r # s
      <4>1. r \in Slots \ lfrq.free /\ lfrq'.reqs[r] = lfrq.reqs[r]
        BY <1>6, <1>9, <3>2
      <4>2. /\ lfrq.reqs[r] \in [thread : Threads, rob : Rob, line : Lines]
            /\ lfrq.reqs[r].line \in LinesOf[lfrq.reqs[r].thread]
            /\ lfrqslot[lfrq.reqs[r].thread][lfrq.reqs[r].rob] = r
        BY <4>1 DEF IInv, SlotsOwned
      <4>3. r # None
        BY CacheAssumption
      <4> QED
        BY <1>2, <1>8, <4>1, <4>2, <4>3
    <3> QED
      BY <3>1, <3>2
  <2> QED
    BY <2>1, <2>2 DEF SlotsOwned
<1>12. Linked'
  <2>1. \A c \in Buffers : s \notin missbuf[c].lfrqmap /\ missbuf[c].lfrqmap \subseteq Slots
    BY <1>1 DEF IInv, Linked, TypeOK, Entries
  <2>2. ASSUME NEW c \in Buffers, NEW r \in missbuf'[c].lfrqmap
        PROVE  /\ r \notin lfrq'.free \cup lfrq'.ready
               /\ missbuf'[c].line = lfrq'.reqs[r].line
    <3>1. CASE r = s
      <4>1. c = b
        BY <1>5, <2>1, <3>1
      <4>2. s \notin lfrq.ready
        BY <1>1 DEF IInv, SlotsOwned
      <4> QED
        BY <1>3, <1>6, <1>9, <3>1, <4>1, <4>2
    <3>2. CASE r # s
      <4>1. r \in missbuf[c].lfrqmap /\ missbuf'[c].line = missbuf[c].line
        BY <1>3, <1>5, <3>2
      <4> QED
        BY <1>6, <1>9, <2>1, <3>2, <4>1 DEF IInv, Linked
    <3> QED
      BY <3>1, <3>2
  <2>3. ASSUME NEW r \in Slots \ (lfrq'.free \cup lfrq'.ready)
        PROVE  \E c \in Buffers : r \in missbuf'[c].lfrqmap /\ missbuf'[c].dcache
    <3>1. CASE r = s
      BY <1>3, <3>1
    <3>2. CASE r # s
      <4>1. PICK c \in Buffers : r \in missbuf[c].lfrqmap /\ missbuf[c].dcache
        BY <1>6, <3>2 DEF IInv, Linked
      <4> QED
        BY <1>3, <1>5, <4>1
    <3> QED
      BY <3>1, <3>2
  <2> QED
    BY <2>2, <2>3 DEF Linked
<1> QED
  BY <1>4, <1>10, <1>11, <1>12 DEF IInv

(* What Release does to the queue. *)
LEMMA ReleaseSound ==
  ASSUME TypeOK, NEW S \in SUBSET Slots
  PROVE  /\ Release(S) \in [free : SUBSET Slots, ready : SUBSET Slots, reqs : [Slots -> Requests]]
         /\ Release(S).free = lfrq.free \cup S
         /\ Release(S).ready = lfrq.ready \ S
         /\ \A s \in Slots \ S : Release(S).reqs[s] = lfrq.reqs[s]
<1> DEFINE reqs == [s \in Slots |-> IF s \in S THEN NoRequest ELSE lfrq.reqs[s]]
<1>1. reqs \in [Slots -> Requests]
  BY DEF TypeOK, Requests
<1>2. Release(S) = [lfrq EXCEPT !.free = @ \cup S, !.ready = @ \ S, !.reqs = reqs]
  BY DEF Release
<1>3. \A s \in Slots \ S : reqs[s] = lfrq.reqs[s]
  OBVIOUS
<1> HIDE DEF reqs
<1> QED
  BY <1>1, <1>2, <1>3 DEF TypeOK

LEMMA AnnulStep ==
  ASSUME IInv, NEW t \in Threads, NEW S \in SUBSET Missing(t), AnnulSlots(t, S),
         fill' \in [Threads -> Lines \cup {None}]
  PROVE  IInv'
<1>1. PICK slots \in SUBSET Slots : slots = {lfrqslot[t][i] : i \in S}
  <2>1. \A i \in S : lfrqslot[t][i] \in Slots
    BY DEF IInv, TypeOK, Missing
  <2> QED
    BY <2>1
<1>2. /\ lfrq' = Release(slots)
      /\ missbuf' = [b \in Buffers |-> [missbuf[b] EXCEPT !.lfrqmap = @ \ slots]]
      /\ lfrqslot' = [lfrqslot EXCEPT ![t] = [i \in Rob |-> IF i \in S THEN None ELSE @[i]]]
  BY <1>1 DEF AnnulSlots
<1>3. /\ lfrq' \in [free : SUBSET Slots, ready : SUBSET Slots, reqs : [Slots -> Requests]]
      /\ lfrq'.free = lfrq.free \cup slots
      /\ lfrq'.ready = lfrq.ready \ slots
      /\ \A s \in Slots \ slots : lfrq'.reqs[s] = lfrq.reqs[s]
  BY <1>2, ReleaseSound DEF IInv
<1>4. \A b \in Buffers :
        /\ missbuf'[b] \in Entries
        /\ missbuf'[b].lfrqmap = missbuf[b].lfrqmap \ slots
        /\ missbuf'[b].level = missbuf[b].level
        /\ missbuf'[b].line = missbuf[b].line
        /\ missbuf'[b].thread = missbuf[b].thread
        /\ missbuf'[b].dcache = missbuf[b].dcache
        /\ missbuf'[b].cycles = missbuf[b].cycles
  BY <1>2 DEF IInv, TypeOK, Entries
<1>5. missbuf' \in [Buffers -> Entries]
  BY <1>2, <1>4
<1>6. /\ lfrqslot' \in [Threads -> [Rob -> Slots \cup {None}]]
      /\ \A u \in Threads, i \in Rob :
           lfrqslot[u][i] \notin slots => lfrqslot'[u][i] = lfrqslot[u][i]
  <2>1. \A i \in S : i \in Rob
    BY DEF Missing
  <2> DEFINE row == [i \in Rob |-> IF i \in S THEN None ELSE lfrqslot[t][i]]
  <2>2. row \in [Rob -> Slots \cup {None}]
    BY DEF IInv, TypeOK
  <2>3. \A i \in Rob : lfrqslot[t][i] \notin slots => row[i] = lfrqslot[t][i]
    BY <1>1, <2>1
  <2>4. lfrqslot' = [lfrqslot EXCEPT ![t] = row]
    BY <1>2 DEF IInv, TypeOK
  <2> HIDE DEF row
  <2> QED
    BY <2>2, <2>3, <2>4 DEF IInv, TypeOK
<1>7. TypeOK'
  BY <1>3, <1>5, <1>6 DEF TypeOK
<1>8. BuffersOwned'
  <2>1. Free' = Free /\ Busy' = Busy /\ Free \subseteq Buffers /\ Busy \subseteq Buffers
    BY <1>4 DEF Free, Busy
  <2> QED
    BY <1>4, <2>1 DEF IInv, BuffersOwned, Owns
<1>9. SlotsOwned'
  <2>1. lfrq'.ready \cap lfrq'.free = {}
    BY <1>3 DEF IInv, SlotsOwned
  <2>2. ASSUME NEW s \in Slots \ lfrq'.free
        PROVE  /\ lfrq'.reqs[s] \in [thread : Threads, rob : Rob, line : Lines]
               /\ lfrq'.reqs[s].line \in LinesOf[lfrq'.reqs[s].thread]
               /\ lfrqslot'[lfrq'.reqs[s].thread][lfrq'.reqs[s].rob] = s
    BY <1>3, <1>6 DEF IInv, SlotsOwned
  <2> QED
    BY <2>1, <2>2 DEF SlotsOwned
<1>10. Linked'
  <2>1. ASSUME NEW b \in Buffers, NEW s \in missbuf'[b].lfrqmap
        PROVE  s \notin lfrq'.free \cup lfrq'.ready /\ missbuf'[b].line = lfrq'.reqs[s].line
    <3>1. s \in missbuf[b].lfrqmap /\ s \notin slots /\ s \in Slots
      BY <1>4 DEF IInv, TypeOK, Entries
    <3> QED
      BY <1>3, <1>4, <3>1 DEF IInv, Linked
  <2>2. ASSUME NEW s \in Slots \ (lfrq'.free \cup lfrq'.ready)
        PROVE  \E b \in Buffers : s \in missbuf'[b].lfrqmap /\ missbuf'[b].dcache
    BY <1>3, <1>4 DEF IInv, Linked
  <2> QED
    BY <2>1, <2>2 DEF Linked
<1> QED
  BY <1>7, <1>8, <1>9, <1>10 DEF IInv

(***************************************************************************)
(* A flush frees the thread's slots and its buffers.  NoSharing is what    *)
(* makes the two match: a buffer whose map names a slot holds the line of  *)
(* the slot's thread, and only that thread can own it.                     *)
(***************************************************************************)
LEMMA FlushStep ==
  ASSUME NoSharing, IInv, NEW t \in Threads, Flush(t)
  PROVE  IInv'
<1>1. PICK slots \in SUBSET Slots : slots = {s \in Slots \ lfrq.free : lfrq.reqs[s].thread = t}
  OBVIOUS
<1>2. /\ lfrq' = Release(slots)
      /\ missbuf' = [b \in Buffers |-> IF missbuf[b].thread = t THEN Idle ELSE missbuf[b]]
      /\ lfrqslot' = [lfrqslot EXCEPT ![t] = [i \in Rob |-> None]]
      /\ fill' = [fill EXCEPT ![t] = None]
  BY <1>1 DEF Flush
<1>3. /\ lfrq' \in [free : SUBSET Slots, ready : SUBSET Slots, reqs : [Slots -> Requests]]
      /\ lfrq'.free = lfrq.free \cup slots
      /\ lfrq'.ready = lfrq.ready \ slots
      /\ \A s \in Slots \ slots : lfrq'.reqs[s] = lfrq.reqs[s]
  BY <1>2, ReleaseSound DEF IInv
<1>4. Idle \in Entries /\ Idle.level = 0 /\ Idle.lfrqmap = {} /\ ~Idle.dcache
  BY DEF Idle, Entries
<1>5. \A b \in Buffers : missbuf'[b] = IF missbuf[b].thread = t THEN Idle ELSE missbuf[b]
  BY <1>2
<1> HIDE DEF Idle
<1>6. missbuf' \in [Buffers -> Entries]
  BY <1>2, <1>4 DEF IInv, TypeOK
<1>7. /\ lfrqslot' \in [Threads -> [Rob -> Slots \cup {None}]]
      /\ \A u \in Threads, i \in Rob : u # t => lfrqslot'[u][i] = lfrqslot[u][i]
  BY <1>2 DEF IInv, TypeOK
<1>8. TypeOK'
  BY <1>2, <1>3, <1>6, <1>7 DEF IInv, TypeOK
<1>9. BuffersOwned'
  <2>1. \A b \in Busy' : b \in Busy /\ missbuf'[b] = missbuf[b]
    BY <1>4, <1>5 DEF Busy, Free
  <2>2. \A b \in Free' : missbuf'[b].lfrqmap = {} /\ ~missbuf'[b].dcache
    <3>1. ASSUME NEW b \in Free' PROVE missbuf'[b].lfrqmap = {} /\ ~missbuf'[b].dcache
      <4>1. b \in Buffers /\ missbuf'[b].level = 0
        BY DEF Free
      <4>2. CASE missbuf[b].thread = t
        BY <1>4, <1>5, <4>1, <4>2
      <4>3. CASE missbuf[b].thread # t
        BY <1>5, <4>1, <4>3 DEF IInv, BuffersOwned, Free
      <4> QED
        BY <4>2, <4>3
    <3> QED
      BY <3>1
  <2>3. \A b \in Busy' : missbuf'[b].cycles # 0 /\ Owns(missbuf'[b].thread, missbuf'[b].line)
    BY <2>1 DEF IInv, BuffersOwned
  <2>4. \A b, c \in Busy' : missbuf'[b].line = missbuf'[c].line => b = c
    BY <2>1 DEF IInv, BuffersOwned
  <2> QED
    BY <2>2, <2>3, <2>4 DEF BuffersOwned, Owns
<1>10. \A s \in Slots \ lfrq'.free :
         s \in Slots \ lfrq.free /\ s \notin slots /\ lfrq.reqs[s].thread # t
  BY <1>1, <1>3
<1>11. SlotsOwned'
  <2>1. lfrq'.ready \cap lfrq'.free = {}
    BY <1>3 DEF IInv, SlotsOwned
  <2>2. ASSUME NEW s \in Slots \ lfrq'.free
        PROVE  /\ lfrq'.reqs[s] \in [thread : Threads, rob : Rob, line : Lines]
               /\ lfrq'.reqs[s].line \in LinesOf[lfrq'.reqs[s].thread]
               /\ lfrqslot'[lfrq'.reqs[s].thread][lfrq'.reqs[s].rob] = s
    BY <1>3, <1>7, <1>10 DEF IInv, SlotsOwned
  <2> QED
    BY <2>1, <2>2 DEF SlotsOwned
<1>12. ASSUME NEW b \in Buffers, NEW s \in missbuf[b].lfrqmap
       PROVE  /\ s \in Slots \ (lfrq.free \cup lfrq.ready)
              /\ missbuf[b].line = lfrq.reqs[s].line
              /\ missbuf[b].thread = lfrq.reqs[s].thread
  <2>1. s \in Slots \ (lfrq.free \cup lfrq.ready) /\ missbuf[b].line = lfrq.reqs[s].line
    BY DEF IInv, TypeOK, Entries, Linked
  <2>2. b \in Busy
    BY <1>4 DEF IInv, BuffersOwned, Busy
  <2>3. Owns(missbuf[b].thread, missbuf[b].line)
    BY <2>2 DEF IInv, BuffersOwned
  <2>4. lfrq.reqs[s].thread \in Threads /\ lfrq.reqs[s].line \in LinesOf[lfrq.reqs[s].thread]
    BY <2>1 DEF IInv, SlotsOwned
  <2> QED
    BY <2>1, <2>3, <2>4 DEF NoSharing, Owns
<1>13. Linked'
  <2>1. ASSUME NEW b \in Buffers, NEW s \in missbuf'[b].lfrqmap
        PROVE  s \notin lfrq'.free \cup lfrq'.ready /\ missbuf'[b].line = lfrq'.reqs[s].line
    <3>1. missbuf'[b] = missbuf[b] /\ missbuf[b].thread # t
      BY <1>4, <1>5
    <3>2. s \notin slots
      BY <1>1, <1>12, <3>1
    <3> QED
      BY <1>3, <1>12, <3>1, <3>2
  <2>2. ASSUME NEW s \in Slots \ (lfrq'.free \cup lfrq'.ready)
        PROVE  \E b \in Buffers : s \in missbuf'[b].lfrqmap /\ missbuf'[b].dcache
    <3>1. s \in Slots \ (lfrq.free \cup lfrq.ready) /\ lfrq.reqs[s].thread # t
      BY <1>3, <1>10
    <3>2. PICK b \in Buffers : s \in missbuf[b].lfrqmap /\ missbuf[b].dcache
      BY <3>1 DEF IInv, Linked
    <3>3. missbuf'[b] = missbuf[b]
      BY <1>5, <1>12, <3>1, <3>2
    <3> QED
      BY <3>2, <3>3
  <2> QED
    BY <2>1, <2>2 DEF Linked
<1> QED
  BY <1>8, <1>9, <1>11, <1>13 DEF IInv

(* What one cycle does to one buffer. *)
LEMMA AdvanceSound ==
  ASSUME NEW mb \in Entries, mb.level # 0 => mb.cycles # 0
  PROVE  /\ Advance(mb) \in Entries
         /\ mb.level = 0 => Advance(mb) = mb
         /\ mb.level = 1 /\ mb.cycles = 1 => Advance(mb) = Idle
         /\ mb.level # 0 /\ ~(mb.level = 1 /\ mb.cycles = 1) =>
              /\ Advance(mb).level \in Levels /\ Advance(mb).cycles # 0
              /\ Advance(mb).line = mb.line
              /\ Advance(mb).thread = mb.thread
              /\ Advance(mb).dcache = mb.dcache
              /\ Advance(mb).lfrqmap = mb.lfrqmap
<1>1. Levels \subseteq Nat /\ \A l \in Levels : Latency[l] \in Nat \ {0}
  BY CacheAssumption DEF Levels
<1>2. Idle \in Entries
  BY DEF Idle, Entries
<1> HIDE DEF Idle
<1>3. CASE mb.level = 0
  BY <1>3 DEF Advance
<1>4. CASE mb.level # 0 /\ mb.cycles - 1 # 0
  <2>1. Advance(mb) = [mb EXCEPT !.cycles = mb.cycles - 1]
    BY <1>4 DEF Advance
  <2> QED
    BY <1>4, <2>1 DEF Entries
<1>5. CASE mb.level # 0 /\ mb.cycles - 1 = 0 /\ mb.level = 1
  BY <1>2, <1>5 DEF Advance, Entries
<1>6. CASE mb.level # 0 /\ mb.cycles - 1 = 0 /\ mb.level # 1
  <2>1. Advance(mb) = [mb EXCEPT !.level = mb.level - 1, !.cycles = Latency[mb.level - 1]]
    BY <1>6 DEF Advance
  <2>2. mb.level - 1 \in Levels
    BY <1>6, CacheAssumption DEF Entries, Levels
  <2> QED
    BY <1>1, <1>6, <2>1, <2>2 DEF Entries
<1> QED
  BY <1>3, <1>4, <1>5, <1>6

LEMMA ClockStep == ASSUME IInv, Clock PROVE IInv'
<1> DEFINE loads == {<<lfrq.reqs[s].thread, lfrq.reqs[s].rob>> : s \in Woken}
<1>1. /\ lfrq' = [Release(Woken) EXCEPT !.ready = @ \cup Filled]
      /\ missbuf' = [b \in Buffers |-> Advance(missbuf[b])]
      /\ lfrqslot' = [t \in Threads |-> [i \in Rob |->
                       IF <<t, i>> \in loads THEN None ELSE lfrqslot[t][i]]]
      /\ fill' = [t \in Threads |-> IF fill[t] \in Fetched THEN None ELSE fill[t]]
  BY DEF Clock
<1>2. Woken \in SUBSET Slots /\ Woken \subseteq lfrq.ready /\ Woken \cap lfrq.free = {}
  BY DEF Woken, IInv, TypeOK, SlotsOwned
<1>3. ASSUME NEW b \in Buffers, NEW s \in missbuf[b].lfrqmap
      PROVE  /\ s \in Slots \ (lfrq.free \cup lfrq.ready)
             /\ missbuf[b].line = lfrq.reqs[s].line
             /\ b \in Busy
  <2>1. s \in Slots \ (lfrq.free \cup lfrq.ready) /\ missbuf[b].line = lfrq.reqs[s].line
    BY DEF IInv, TypeOK, Entries, Linked
  <2>2. b \in Busy
    BY DEF IInv, BuffersOwned, Busy
  <2> QED
    BY <2>1, <2>2
<1>4. ASSUME NEW s \in Filled
      PROVE  \E b \in Delivered : s \in missbuf[b].lfrqmap
  BY DEF Filled
<1>5. Delivered \subseteq Busy /\ Busy \subseteq Buffers
  BY DEF Delivered, Busy
<1>6. Filled \subseteq Slots \ (lfrq.free \cup lfrq.ready)
  BY <1>3, <1>4, <1>5
<1>7. /\ lfrq' \in [free : SUBSET Slots, ready : SUBSET Slots, reqs : [Slots -> Requests]]
      /\ lfrq'.free = lfrq.free \cup Woken
      /\ lfrq'.ready = (lfrq.ready \ Woken) \cup Filled
      /\ \A s \in Slots \ Woken : lfrq'.reqs[s] = lfrq.reqs[s]
  <2>1. TypeOK /\ Filled \in SUBSET Slots
    BY <1>6 DEF IInv
  <2>2. /\ Release(Woken) \in [free : SUBSET Slots, ready : SUBSET Slots, reqs : [Slots -> Requests]]
        /\ Release(Woken).free = lfrq.free \cup Woken
        /\ Release(Woken).ready = lfrq.ready \ Woken
        /\ \A s \in Slots \ Woken : Release(Woken).reqs[s] = lfrq.reqs[s]
    <3>1. \A S \in SUBSET Slots :
            /\ Release(S) \in [free : SUBSET Slots, ready : SUBSET Slots, reqs : [Slots -> Requests]]
            /\ Release(S).free = lfrq.free \cup S
            /\ Release(S).ready = lfrq.ready \ S
            /\ \A s \in Slots \ S : Release(S).reqs[s] = lfrq.reqs[s]
      BY <2>1, ReleaseSound
    <3> QED
      BY <1>2, <3>1
  <2> QED
    BY <1>1, <2>1, <2>2
<1>8. \A b \in Buffers : missbuf[b] \in Entries /\ (missbuf[b].level # 0 => missbuf[b].cycles # 0)
  BY DEF IInv, TypeOK, BuffersOwned, Busy, Free
<1>9. ASSUME NEW b \in Buffers
      PROVE  /\ missbuf'[b] \in Entries
             /\ b \notin Busy => missbuf'[b] = missbuf[b]
             /\ b \in Delivered => missbuf'[b] = Idle
             /\ b \in Busy \ Delivered =>
                  /\ missbuf'[b].level \in Levels /\ missbuf'[b].cycles # 0
                  /\ missbuf'[b].line = missbuf[b].line
                  /\ missbuf'[b].thread = missbuf[b].thread
                  /\ missbuf'[b].dcache = missbuf[b].dcache
                  /\ missbuf'[b].lfrqmap = missbuf[b].lfrqmap
  <2>1. missbuf'[b] = Advance(missbuf[b])
    BY <1>1
  <2>2. \A mb \in Entries : (mb.level # 0 => mb.cycles # 0) =>
          /\ Advance(mb) \in Entries
          /\ mb.level = 0 => Advance(mb) = mb
          /\ mb.level = 1 /\ mb.cycles = 1 => Advance(mb) = Idle
          /\ mb.level # 0 /\ ~(mb.level = 1 /\ mb.cycles = 1) =>
               /\ Advance(mb).level \in Levels /\ Advance(mb).cycles # 0
               /\ Advance(mb).line = mb.line
               /\ Advance(mb).thread = mb.thread
               /\ Advance(mb).dcache = mb.dcache
               /\ Advance(mb).lfrqmap = mb.lfrqmap
    BY AdvanceSound
  <2> QED
    BY <1>8, <2>1, <2>2 DEF Busy, Free, Delivered
<1>10. Idle.level = 0 /\ Idle.lfrqmap = {} /\ ~Idle.dcache
  BY DEF Idle
<1>11. \A b \in Busy' : b \in Busy \ Delivered
  BY <1>9, <1>10 DEF Busy, Free
<1>12. TypeOK'
  <2>1. missbuf' \in [Buffers -> Entries]
    BY <1>1, <1>9
  <2>2. lfrqslot' \in [Threads -> [Rob -> Slots \cup {None}]]
    BY <1>1 DEF IInv, TypeOK
  <2>3. fill' \in [Threads -> Lines \cup {None}]
    BY <1>1 DEF IInv, TypeOK
  <2> QED
    BY <1>7, <2>1, <2>2, <2>3 DEF TypeOK
<1>13. BuffersOwned'
  <2>1. \A b \in Free' : missbuf'[b].lfrqmap = {} /\ ~missbuf'[b].dcache
    <3>1. ASSUME NEW b \in Free' PROVE missbuf'[b].lfrqmap = {} /\ ~missbuf'[b].dcache
      <4>1. b \in Buffers /\ missbuf'[b].level = 0 /\ 0 \notin Levels
        BY DEF Free, Levels
      <4>2. b \notin Busy \/ b \in Delivered
        BY <1>9, <4>1
      <4>3. CASE b \notin Busy
        BY <1>9, <4>1, <4>3 DEF IInv, BuffersOwned, Busy
      <4>4. CASE b \in Delivered
        BY <1>9, <1>10, <4>1, <4>4
      <4> QED
        BY <4>2, <4>3, <4>4
    <3> QED
      BY <3>1
  <2>2. \A b \in Busy' : missbuf'[b].cycles # 0 /\ Owns(missbuf'[b].thread, missbuf'[b].line)
    BY <1>5, <1>9, <1>11 DEF IInv, BuffersOwned
  <2>3. \A b, c \in Busy' : missbuf'[b].line = missbuf'[c].line => b = c
    BY <1>5, <1>9, <1>11 DEF IInv, BuffersOwned
  <2> QED
    BY <2>1, <2>2, <2>3 DEF BuffersOwned, Owns
<1>14. SlotsOwned'
  <2>1. lfrq'.ready \cap lfrq'.free = {}
    BY <1>2, <1>6, <1>7 DEF IInv, SlotsOwned
  <2>2. ASSUME NEW s \in Slots \ lfrq'.free
        PROVE  /\ lfrq'.reqs[s] \in [thread : Threads, rob : Rob, line : Lines]
               /\ lfrq'.reqs[s].line \in LinesOf[lfrq'.reqs[s].thread]
               /\ lfrqslot'[lfrq'.reqs[s].thread][lfrq'.reqs[s].rob] = s
    <3>1. s \in Slots \ lfrq.free /\ s \notin Woken /\ lfrq'.reqs[s] = lfrq.reqs[s]
      BY <1>7
    <3>2. /\ lfrq.reqs[s] \in [thread : Threads, rob : Rob, line : Lines]
          /\ lfrq.reqs[s].line \in LinesOf[lfrq.reqs[s].thread]
          /\ lfrqslot[lfrq.reqs[s].thread][lfrq.reqs[s].rob] = s
      BY <3>1 DEF IInv, SlotsOwned
    <3>3. <<lfrq.reqs[s].thread, lfrq.reqs[s].rob>> \notin loads
      <4>1. SUFFICES ASSUME NEW r \in Woken,
                            lfrq.reqs[r].thread = lfrq.reqs[s].thread,
                            lfrq.reqs[r].rob = lfrq.reqs[s].rob
                     PROVE  FALSE
        OBVIOUS
      <4>2. lfrqslot[lfrq.reqs[r].thread][lfrq.reqs[r].rob] = r
        BY <1>2 DEF IInv, SlotsOwned
      <4> QED
        BY <3>1, <3>2, <4>1, <4>2
    <3> HIDE DEF loads
    <3> QED
      BY <1>1, <3>1, <3>2, <3>3
  <2> QED
    BY <2>1, <2>2 DEF SlotsOwned
<1>15. Linked'
  <2>1. ASSUME NEW b \in Buffers, NEW s \in missbuf'[b].lfrqmap
        PROVE  s \notin lfrq'.free \cup lfrq'.ready /\ missbuf'[b].line = lfrq'.reqs[s].line
    <3>1. b \in Busy \ Delivered
      BY <1>3, <1>9, <1>10
    <3>2. s \in missbuf[b].lfrqmap /\ missbuf'[b].line = missbuf[b].line
      BY <1>9, <3>1
    <3>3. s \in Slots \ (lfrq.free \cup lfrq.ready) /\ missbuf[b].line = lfrq.reqs[s].line
      BY <1>3, <3>2
    <3>4. s \notin Filled
      <4>1. SUFFICES ASSUME NEW d \in Delivered, s \in missbuf[d].lfrqmap PROVE FALSE
        BY <1>4
      <4>2. d \in Busy /\ missbuf[d].line = missbuf[b].line
        BY <1>3, <1>5, <3>3, <4>1
      <4> QED
        BY <3>1, <4>2 DEF IInv, BuffersOwned
    <3> QED
      BY <1>2, <1>7, <3>2, <3>3, <3>4
  <2>2. ASSUME NEW s \in Slots \ (lfrq'.free \cup lfrq'.ready)
        PROVE  \E b \in Buffers : s \in missbuf'[b].lfrqmap /\ missbuf'[b].dcache
    <3>1. s \in Slots \ (lfrq.free \cup lfrq.ready)
      BY <1>7
    <3>2. PICK b \in Buffers : s \in missbuf[b].lfrqmap /\ missbuf[b].dcache
      BY <3>1 DEF IInv, Linked
    <3>3. b \in Busy
      BY <1>3, <3>2
    <3>4. b \notin Delivered
      BY <1>7, <3>2 DEF Filled
    <3> QED
      BY <1>9, <3>2, <3>3, <3>4
  <2> QED
    BY <2>1, <2>2 DEF Linked
<1> QED
  BY <1>12, <1>13, <1>14, <1>15 DEF IInv

LEMMA NextIInv == ASSUME NoSharing, IInv, [Next]_vars PROVE IInv'
<1>0. /\ \A t \in Threads : LinesOf[t] \subseteq Lines /\ Prefetched \subseteq Lines
      /\ TRUE \in BOOLEAN /\ FALSE \in BOOLEAN
  BY CacheAssumption
<1>1. CASE UNCHANGED vars
  BY <1>1 DEF vars, IInv, TypeOK, BuffersOwned, SlotsOwned, Linked, Busy, Free
<1>2. CASE Clock
  BY <1>2, ClockStep
<1>3. ASSUME NEW t \in Threads, NEW line \in LinesOf[t], NEW level \in Levels,
             NEW i \in Rob, Load(t, i, line, level)
      PROVE  IInv'
  BY <1>3, LoadStep
<1>4. ASSUME NEW t \in Threads, NEW line \in LinesOf[t], NEW level \in Levels,
             FetchMiss(t, line, level)
      PROVE  IInv'
  <2>1. line \in Lines /\ Owns(t, line) /\ t \in Threads \cup {Prefetcher}
    BY <1>0 DEF Owns
  <2>2. /\ Available(line) /\ InitiateMiss(line, level, TRUE, t, {})
        /\ UNCHANGED <<lfrq, lfrqslot>>
        /\ fill' \in [Threads -> Lines \cup {None}]
    BY <1>4, <2>1 DEF FetchMiss, IInv, TypeOK
  <2> QED
    BY <1>0, <2>1, <2>2, MissWithoutSlot
<1>5. ASSUME NEW t \in Threads, NEW line \in LinesOf[t], NEW level \in Levels,
             CommitStore(t, line, level)
      PROVE  IInv'
  <2>1. line \in Lines /\ Owns(t, line) /\ t \in Threads \cup {Prefetcher}
    BY <1>0 DEF Owns
  <2>2. /\ Available(line) /\ InitiateMiss(line, level, FALSE, t, {})
        /\ UNCHANGED <<lfrq, lfrqslot>>
        /\ fill' \in [Threads -> Lines \cup {None}]
    BY <1>5 DEF CommitStore, IInv, TypeOK
  <2> QED
    BY <1>0, <2>1, <2>2, MissWithoutSlot
<1>6. ASSUME NEW line \in Prefetched, NEW level \in Levels, InitiatePrefetch(line, level)
      PROVE  IInv'
  <2>1. line \in Lines /\ Owns(Prefetcher, line)
    BY CacheAssumption DEF Owns
  <2>2. /\ Available(line) /\ InitiateMiss(line, level, FALSE, Prefetcher, {})
        /\ UNCHANGED <<lfrq, lfrqslot>>
        /\ fill' \in [Threads -> Lines \cup {None}]
    BY <1>6 DEF InitiatePrefetch, IInv, TypeOK
  <2> QED
    BY <1>0, <2>1, <2>2, MissWithoutSlot
<1>7. ASSUME NEW t \in Threads, NEW S \in SUBSET Missing(t),
             Redispatch(t, S) \/ Mispredict(t, S)
      PROVE  IInv'
  <2>1. AnnulSlots(t, S) /\ fill' \in [Threads -> Lines \cup {None}]
    BY <1>7 DEF Redispatch, Mispredict, IInv, TypeOK
  <2> QED
    BY <2>1, AnnulStep
<1>8. ASSUME NEW t \in Threads, Flush(t)
      PROVE  IInv'
  BY <1>8, FlushStep
<1> QED
  BY <1>1, <1>2, <1>3, <1>4, <1>5, <1>6, <1>7, <1>8 DEF Next

LEMMA IInvImplies == ASSUME IInv PROVE NoStaleWakeup /\ WaitersLinked
<1>1. lfrq.ready \subseteq Slots
  BY DEF IInv, TypeOK
<1>2. \A s \in Slots \ lfrq.free : Waits(s)
  BY DEF IInv, SlotsOwned, Waits
<1>3. NoStaleWakeup
  BY <1>1, <1>2 DEF IInv, SlotsOwned, NoStaleWakeup
<1>4. ASSUME NEW b \in Buffers, NEW s \in missbuf[b].lfrqmap
      PROVE  b \in Busy /\ s \notin lfrq.free \cup lfrq.ready /\ missbuf[b].line = lfrq.reqs[s].line
  BY DEF IInv, BuffersOwned, Linked, Busy
<1>5. WaitersLinked
  <2>1. ASSUME NEW s \in Slots, s \in lfrq.free \cup lfrq.ready PROVE WakersOf(s) = {}
    BY <1>4, <2>1 DEF WakersOf
  <2>2. ASSUME NEW s \in Slots, s \notin lfrq.free \cup lfrq.ready
        PROVE  \E b \in Busy :
                 /\ WakersOf(s) = {b}
                 /\ missbuf[b].line = lfrq.reqs[s].line
                 /\ missbuf[b].dcache
    <3>1. PICK b \in Buffers : s \in missbuf[b].lfrqmap /\ missbuf[b].dcache
      BY <2>2 DEF IInv, Linked
    <3>2. b \in Busy /\ missbuf[b].line = lfrq.reqs[s].line
      BY <1>4, <3>1
    <3>3. ASSUME NEW c \in WakersOf(s) PROVE c = b
      <4>1. c \in Busy /\ missbuf[c].line = lfrq.reqs[s].line
        BY <1>4 DEF WakersOf
      <4> QED
        BY <3>2, <4>1 DEF IInv, BuffersOwned
    <3> QED
      BY <3>1, <3>2, <3>3 DEF WakersOf
  <2> QED
    BY <1>2, <2>1, <2>2 DEF WaitersLinked
<1> QED
  BY <1>3, <1>5

(* A stale slot never becomes ready, for any number of threads, buffers    *)
(* and slots and any latencies, as long as no line is shared.              *)
THEOREM WakeupsSound == ASSUME NoSharing PROVE Spec => []NoStaleWakeup
BY InitIInv, NextIInv, IInvImplies, PTL DEF Spec

(* Every load that waits is linked to exactly one buffer, of its own line. *)
THEOREM WaitersSound == ASSUME NoSharing PROVE Spec => []WaitersLinked
BY InitIInv, NextIInv, IInvImplies, PTL DEF Spec

THEOREM CacheTypeCorrect == ASSUME NoSharing PROVE Spec => []TypeOK
<1>1. IInv => TypeOK
  BY DEF IInv
<1> QED
  BY <1>1, InitIInv, NextIInv, PTL DEF Spec
===============================================================================
