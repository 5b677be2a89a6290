------------------------------- MODULE DataCache -------------------------------
(***************************************************************************)
(* The non-blocking data cache of the out-of-order core (ptlsim/dcache.cpp *)
(* and dcache.h): a load that misses takes a slot of the load fill request *)
(* queue (LFRQ) and joins the miss buffer of its line, which it shares with*)
(* instruction fetches, committed stores and prefetches of that line.  A   *)
(* buffer moves one level nearer to the core at a time; at L1 its slots    *)
(* become ready, and a few ready slots wake their loads in each cycle.     *)
(* What the caches hold is abstracted: any access may miss, at any level.  *)
(***************************************************************************)
EXTENDS Naturals, FiniteSets

CONSTANTS
  Threads,    \* hardware threads of the core
  Rob,        \* indices of the reorder buffer entries of a thread
  Slots,      \* indices of the LFRQ (LFRQ_SIZE = 64)
  Buffers,    \* indices of the miss buffers (MISSBUF_COUNT = 64)
  Lines,      \* line addresses
  LinesOf,    \* the lines each thread loads, stores to and fetches from
  Prefetched, \* the lines named by prefetch instructions
  Depth,      \* levels of memory below the core's first cache
  Latency,    \* cycles to come from each level to the one above it
  MaxWakeups, \* MAX_WAKEUPS_PER_CYCLE = 2
  Prefetcher, \* threadid 0xfe, of the buffers a prefetch allocates
  None

ASSUME CacheAssumption ==
  /\ Slots \subseteq Nat
  /\ Buffers \subseteq Nat
  /\ LinesOf \in [Threads -> SUBSET Lines]
  /\ Prefetched \subseteq Lines
  /\ Depth \in Nat \ {0}
  /\ Latency \in [1..Depth -> Nat \ {0}]
  /\ MaxWakeups \in Nat
  /\ None \notin Slots \cup Lines \cup Threads
  /\ Prefetcher \notin Threads

VARIABLES
  lfrq,     \* the queue's freemap and ready bitmaps, and its requests
  missbuf,  \* the miss buffers
  lfrqslot, \* per thread and reorder buffer entry, the slot its load waits in
  fill      \* per thread, the line its fetch unit waits for

vars == <<lfrq, missbuf, lfrqslot, fill>>

Levels == 1..Depth

NoRequest == [thread |-> None, rob |-> None, line |-> None]
Idle == [level |-> 0, cycles |-> 0, line |-> None, thread |-> None,
         dcache |-> FALSE, icache |-> FALSE, lfrqmap |-> {}]

Requests == [thread : Threads, rob : Rob, line : Lines] \cup {NoRequest}
Entries ==
  [level : Levels \cup {0}, cycles : Nat, line : Lines \cup {None},
   thread : Threads \cup {Prefetcher, None},
   dcache : BOOLEAN, icache : BOOLEAN, lfrqmap : SUBSET Slots]

TypeOK ==
  /\ lfrq \in [free : SUBSET Slots, ready : SUBSET Slots, reqs : [Slots -> Requests]]
  /\ missbuf \in [Buffers -> Entries]
  /\ lfrqslot \in [Threads -> [Rob -> Slots \cup {None}]]
  /\ fill \in [Threads -> Lines \cup {None}]

Init ==
  /\ lfrq = [free |-> Slots, ready |-> {}, reqs |-> [s \in Slots |-> NoRequest]]
  /\ missbuf = [b \in Buffers |-> Idle]
  /\ lfrqslot = [t \in Threads |-> [i \in Rob |-> None]]
  /\ fill = [t \in Threads |-> None]

Lowest(S) == CHOOSE n \in S : \A m \in S : n <= m
Free == {b \in Buffers : missbuf[b].level = 0}
Busy == Buffers \ Free

(* find and allocation: the buffers that can take a miss on the line. *)
Find(line) == {b \in Busy : missbuf[b].line = line}
Available(line) == Find(line) # {} \/ Free # {}
Target(line) == IF Find(line) # {} THEN Lowest(Find(line)) ELSE Lowest(Free)

(* Mutant: a second miss on the line does not mark its cache. *)
JoinUnmarked(mb, icache, slots) == [mb EXCEPT !.lfrqmap = @ \cup slots]
Join(mb, icache, slots) ==
  [mb EXCEPT !.icache = @ \/ icache, !.dcache = @ \/ ~icache, !.lfrqmap = @ \cup slots]

NewEntry(line, level, icache, thread, slots) ==
  [level |-> level, cycles |-> Latency[level], line |-> line, thread |-> thread,
   dcache |-> ~icache, icache |-> icache, lfrqmap |-> slots]

(***************************************************************************)
(* initiate_miss: join the buffer of the line, whoever owns it, or take a  *)
(* free one; slots is the LFRQ slot to wake at the end, if any.            *)
(***************************************************************************)
InitiateMiss(line, level, icache, thread, slots) ==
  missbuf' = [missbuf EXCEPT ![Target(line)] =
                IF Find(line) # {} THEN Join(missbuf[Target(line)], icache, slots)
                ELSE NewEntry(line, level, icache, thread, slots)]

(* issueload, probecache and issueload_slowpath; if either table is full   *)
(* the load is replayed instead.                                           *)
Load(t, i, line, level) ==
  /\ lfrqslot[t][i] = None
  /\ lfrq.free # {} /\ Free # {}
  /\ LET s == Lowest(lfrq.free)
     IN  /\ lfrq' = [lfrq EXCEPT !.free = @ \ {s},
                       !.reqs[s] = [thread |-> t, rob |-> i, line |-> line]]
         /\ lfrqslot' = [lfrqslot EXCEPT ![t][i] = s]
         /\ InitiateMiss(line, level, FALSE, t, {s})
  /\ UNCHANGED fill

(* fetch: wait for the line, or try again later if no buffer is free. *)
FetchMiss(t, line, level) ==
  /\ fill[t] = None
  /\ Available(line)
  /\ InitiateMiss(line, level, TRUE, t, {})
  /\ fill' = [fill EXCEPT ![t] = line]
  /\ UNCHANGED <<lfrq, lfrqslot>>

(* commitstore: fetch the rest of a line that is not fully valid. *)
CommitStore(t, line, level) ==
  /\ Available(line)
  /\ InitiateMiss(line, level, FALSE, t, {})
  /\ UNCHANGED <<lfrq, lfrqslot, fill>>

InitiatePrefetch(line, level) ==
  /\ Available(line)
  /\ InitiateMiss(line, level, FALSE, Prefetcher, {})
  /\ UNCHANGED <<lfrq, lfrqslot, fill>>

Release(S) ==
  [lfrq EXCEPT !.free = @ \cup S, !.ready = @ \ S,
     !.reqs = [s \in Slots |-> IF s \in S THEN NoRequest ELSE @[s]]]

(* The entries of a thread whose loads wait for the cache. *)
Missing(t) == {i \in Rob : lfrqslot[t][i] # None}

(* Mutant: the miss buffers keep the slots that are annulled. *)
AnnulSlotsOnly(t, S) ==
  LET slots == {lfrqslot[t][i] : i \in S}
  IN  /\ lfrq' = Release(slots)
      /\ lfrqslot' = [lfrqslot EXCEPT ![t] = [i \in Rob |-> IF i \in S THEN None ELSE @[i]]]
      /\ UNCHANGED missbuf

(* annul_lfrq_slot for the loads of the entries S of a thread. *)
AnnulSlots(t, S) ==
  LET slots == {lfrqslot[t][i] : i \in S}
  IN  /\ lfrq' = Release(slots)
      /\ missbuf' = [b \in Buffers |-> [missbuf[b] EXCEPT !.lfrqmap = @ \ slots]]
      /\ lfrqslot' = [lfrqslot EXCEPT ![t] = [i \in Rob |-> IF i \in S THEN None ELSE @[i]]]

(* redispatch: the loads will issue again. *)
Redispatch(t, S) ==
  /\ AnnulSlots(t, S)
  /\ UNCHANGED fill

(* annul after a mispredicted branch, which also redirects the fetch unit. *)
Mispredict(t, S) ==
  /\ AnnulSlots(t, S)
  /\ fill' = [fill EXCEPT ![t] = None]

(* flush_pipeline: complete(threadid) resets the thread's slots, then the  *)
(* buffers it allocated.                                                   *)
Flush(t) ==
  /\ lfrq' = Release({s \in Slots \ lfrq.free : lfrq.reqs[s].thread = t})
  /\ missbuf' = [b \in Buffers |-> IF missbuf[b].thread = t THEN Idle ELSE missbuf[b]]
  /\ lfrqslot' = [lfrqslot EXCEPT ![t] = [i \in Rob |-> None]]
  /\ fill' = [fill EXCEPT ![t] = None]

(* LoadFillReqQueue::clock: the lowest ready slots wake their loads. *)
Woken == {s \in lfrq.ready : Cardinality({r \in lfrq.ready : r < s}) < MaxWakeups}

Delivered == {b \in Busy : missbuf[b].level = 1 /\ missbuf[b].cycles = 1}
(* Mutant: a line goes to the instruction cache or to the data cache. *)
FilledUnlessFetched ==
  UNION {missbuf[b].lfrqmap : b \in {d \in Delivered : missbuf[d].dcache /\ ~missbuf[d].icache}}
Filled == UNION {missbuf[b].lfrqmap : b \in {d \in Delivered : missbuf[d].dcache}}
(* Mutant: only a buffer that a fetch allocated wakes the fetch unit. *)
FetchedUnlessFilled ==
  {missbuf[b].line : b \in {d \in Delivered : missbuf[d].icache /\ ~missbuf[d].dcache}}
Fetched == {missbuf[b].line : b \in {d \in Delivered : missbuf[d].icache}}

(* Mutant: the countdown is not restarted for the next level. *)
AdvanceKeepsCount(mb) ==
  IF mb.level = 0 THEN mb
  ELSE IF mb.cycles - 1 # 0 THEN [mb EXCEPT !.cycles = @ - 1]
  ELSE IF mb.level = 1 THEN Idle
  ELSE [mb EXCEPT !.level = @ - 1, !.cycles = @ - 1]

(* MissBuffer::clock, for one buffer. *)
Advance(mb) ==
  IF mb.level = 0 THEN mb
  ELSE IF mb.cycles - 1 # 0 THEN [mb EXCEPT !.cycles = @ - 1]
  ELSE IF mb.level = 1 THEN Idle
  ELSE [mb EXCEPT !.level = @ - 1, !.cycles = Latency[mb.level - 1]]

(* CacheHierarchy::clock: the queue, then the buffers. *)
Clock ==
  /\ missbuf' = [b \in Buffers |-> Advance(missbuf[b])]
  /\ LET fetched == Fetched
     IN  fill' = [t \in Threads |-> IF fill[t] \in fetched THEN None ELSE fill[t]]
  /\ LET woken == Woken
         loads == {<<lfrq.reqs[s].thread, lfrq.reqs[s].rob>> : s \in woken}
     IN  /\ lfrq' = [Release(woken) EXCEPT !.ready = @ \cup Filled]
         /\ lfrqslot' = [t \in Threads |-> [i \in Rob |->
                           IF <<t, i>> \in loads THEN None ELSE lfrqslot[t][i]]]

Next ==
  \/ Clock
  \/ \E t \in Threads :
       \/ \E line \in LinesOf[t], level \in Levels :
            \/ \E i \in Rob : Load(t, i, line, level)
            \/ FetchMiss(t, line, level)
            \/ CommitStore(t, line, level)
       \/ \E S \in SUBSET Missing(t) : Redispatch(t, S) \/ Mispredict(t, S)
       \/ Flush(t)
  \/ \E line \in Prefetched, level \in Levels : InitiatePrefetch(line, level)

Spec == Init /\ [][Next]_vars

(* The machine runs one cycle after another for as long as it simulates. *)
FairSpec == Spec /\ WF_vars(Clock)

-------------------------------------------------------------------------------
(* The entry whose load a slot was taken for still waits in that slot.     *)
Waits(s) ==
  /\ lfrq.reqs[s].thread \in Threads
  /\ lfrqslot[lfrq.reqs[s].thread][lfrq.reqs[s].rob] = s

(* LoadFillReqQueue::clock and dcache_wakeup assert it (dcache.cpp:170,    *)
(* oooexec.cpp:1739): a slot that becomes ready is allocated, and its load *)
(* still waits for it.  A stale slot would wake a load that was flushed,   *)
(* or a new one before its data arrived.                                   *)
NoStaleWakeup == \A s \in lfrq.ready : s \notin lfrq.free /\ Waits(s)

(* A load that waits will be woken: its slot is ready, or exactly one busy *)
(* buffer will wake it, one of the load's own line that delivers to the    *)
(* data cache.  Free and ready slots are in no buffer.                     *)
WakersOf(s) == {b \in Buffers : s \in missbuf[b].lfrqmap}
WaitersLinked ==
  \A s \in Slots :
    IF s \in lfrq.free \cup lfrq.ready THEN WakersOf(s) = {}
    ELSE /\ Waits(s)
         /\ \E b \in Busy :
              /\ WakersOf(s) = {b}
              /\ missbuf[b].line = lfrq.reqs[s].line
              /\ missbuf[b].dcache

(* No load and no fetch waits for ever: the hang that the core's watchdog  *)
(* (ooocore.cpp:587) would report after thousands of cycles.               *)
LoadsWake == \A t \in Threads, i \in Rob : lfrqslot[t][i] # None ~> lfrqslot[t][i] = None
FetchResumes == \A t \in Threads : fill[t] # None ~> fill[t] = None

===============================================================================
