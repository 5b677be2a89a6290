---------------------------- MODULE LoadStoreQueue -----------------------------
(***************************************************************************)
(* The load and store queues of the out-of-order core (ptlsim/oooexec.cpp  *)
(* and the commit stage of ooopipe.cpp): loads issue ahead of the older    *)
(* stores whose address is not known yet and take their data from memory   *)
(* or from the nearest older store of the same 8-byte chunk; a store that  *)
(* finds a younger load of its chunk already issued dispatches everything  *)
(* from itself on again; fences hold loads or stores back until they are   *)
(* the oldest uop; ld.acq locks its chunk against all other threads until  *)
(* the instruction has committed.  Addresses and data may become ready at  *)
(* any time, so an uop may issue as soon as its operands allow.            *)
(***************************************************************************)
EXTENDS Naturals, FiniteSets, Sequences

CONSTANTS
  Threads,    \* hardware threads of the core
  Chunks,     \* the 8-byte chunks of memory
  Bytes,      \* the bytes of a chunk
  Programs,   \* the uops of all threads, one program per behaviour
  Ways,       \* locks that fit in the interlock buffer (4 ways)
  MaxFlushes, \* bound: pipeline flushes and mispredicted branches
  None

(* An uop: what it accesses, the uop it takes its value from (0 if none),  *)
(* the kinds of uops a fence holds back, and its instruction (macro-op).   *)
Ops ==
  [kind : {"ld", "st", "mf"}, chunk : Chunks \cup {None}, bytes : SUBSET Bytes,
   src : Nat, holds : SUBSET {"ld", "st"}, locked : BOOLEAN, som : Nat, eom : Nat]

ASSUME QueueAssumption ==
  /\ None \notin Threads \cup Chunks
  /\ Ways \in Nat \ {0}
  /\ MaxFlushes \in Nat
  /\ \A p \in Programs :
       /\ p \in [Threads -> Seq(Ops)]
       /\ \A t \in Threads : \A i \in 1..Len(p[t]) :
            /\ p[t][i].kind # "mf" => p[t][i].chunk \in Chunks
            /\ p[t][i].src < i
            /\ p[t][i].som \in 1..i /\ p[t][i].eom \in i..Len(p[t])

(* What the decoder makes of an instruction: a run of uops that know its   *)
(* ends, and for a locked one (memory_fence_if_locked) a fence for loads   *)
(* and stores before all others, one behind them, and none in between; it  *)
(* loads before it stores.                                                 *)
FullFence(op) == op.kind = "mf" /\ {"ld", "st"} \subseteq op.holds

ASSUME InstructionsAssumption ==
  \A p \in Programs : \A t \in Threads : \A i \in 1..Len(p[t]) :
    LET first == p[t][i].som  last == p[t][i].eom
    IN  /\ \A k \in first..last : p[t][k].som = first /\ p[t][k].eom = last
        /\ p[t][i].kind = "ld" /\ p[t][i].locked =>
             /\ FullFence(p[t][first]) /\ FullFence(p[t][last])
             /\ \A k \in first + 1..last - 1 : p[t][k].kind # "mf"
             /\ \A k \in first..i : p[t][k].kind # "st"

VARIABLES
  prog,       \* the program
  rob,        \* per thread and uop: its reorder buffer and LSQ entry
  head,       \* per thread: how many uops have committed
  lsap,       \* per thread: the loads in the load/store alias predictor
  loaded,     \* per thread: the chunks of loads_in_this_cycle
  interlocks, \* per chunk: the thread that holds its lock
  queued,     \* per thread: queued_mem_lock_release_list
  mem,        \* per chunk and byte: the store that wrote it
  arf,        \* per thread: the value of the last load that committed
  flushes     \* flushes so far

vars == <<prog, rob, head, lsap, loaded, interlocks, queued, mem, arf, flushes>>

Uops(t) == 1..Len(prog[t])
InFlight(t) == {i \in Uops(t) : i > head[t]}
Greatest(S) == IF S = {} THEN 0 ELSE CHOOSE n \in S : \A m \in S : m <= n
Least(S) == CHOOSE n \in S : \A m \in S : n <= m

Tags == (Threads \X Nat) \cup {None}

(* find_nearest_memory_fence: the fence an uop is dispatched behind. *)
NearestFence(p, i) ==
  Greatest({j \in 1..(i - 1) : p[j].kind = "mf" /\ p[i].kind \in p[j].holds})

(* An entry as dispatch leaves it. *)
Dispatched(p, i) ==
  [issued |-> FALSE, addrvalid |-> FALSE, datavalid |-> FALSE, second |-> FALSE,
   rs |-> NearestFence(p, i), lock |-> FALSE, mask |-> {},
   data |-> [b \in Bytes |-> None]]

Entries ==
  [issued : BOOLEAN, addrvalid : BOOLEAN, datavalid : BOOLEAN, second : BOOLEAN,
   rs : Nat, lock : BOOLEAN, mask : SUBSET Bytes, data : [Bytes -> Tags]]

TypeOK ==
  /\ prog \in Programs
  /\ DOMAIN rob = Threads
  /\ \A t \in Threads : DOMAIN rob[t] = Uops(t) /\ \A i \in Uops(t) : rob[t][i] \in Entries
  /\ head \in [Threads -> Nat] /\ \A t \in Threads : head[t] <= Len(prog[t])
  /\ lsap \in [Threads -> SUBSET Nat] /\ \A t \in Threads : lsap[t] \subseteq Uops(t)
  /\ loaded \in [Threads -> SUBSET Chunks]
  /\ interlocks \in [Chunks -> Threads \cup {None}]
  /\ queued \in [Threads -> SUBSET Chunks]
  /\ mem \in [Chunks -> [Bytes -> Tags]]
  /\ flushes \in 0..MaxFlushes

Init ==
  /\ prog \in Programs
  /\ rob = [t \in Threads |-> [i \in Uops(t) |-> Dispatched(prog[t], i)]]
  /\ head = [t \in Threads |-> 0]
  /\ lsap = [t \in Threads |-> {}]
  /\ loaded = [t \in Threads |-> {}]
  /\ interlocks = [c \in Chunks |-> None]
  /\ queued = [t \in Threads |-> {}]
  /\ mem = [c \in Chunks |-> [b \in Bytes |-> None]]
  /\ arf = [t \in Threads |-> None]
  /\ flushes = 0

--------------------------------------------------------------------------------
(* The result of an uop has arrived: fences complete when they wake up. *)
Complete(t, i) == rob[t][i].issued /\ (prog[t][i].kind = "mf" => rob[t][i].addrvalid)
OperandReady(t, i) == i \in InFlight(t) => Complete(t, i)

(* The first phase of a store does not wait for its data (rc) or for an    *)
(* older store (rs); the second one does, and so does every load.          *)
CanIssue(t, i, kind) ==
  /\ i \in InFlight(t)
  /\ prog[t][i].kind = kind
  /\ ~rob[t][i].issued
  /\ kind = "ld" \/ rob[t][i].second =>
       OperandReady(t, rob[t][i].rs) /\ OperandReady(t, prog[t][i].src)

OlderStores(t, i) == {j \in InFlight(t) : j < i /\ prog[t][j].kind # "ld"}
SameChunk(t, i, j) == rob[t][j].addrvalid /\ prog[t][j].chunk = prog[t][i].chunk

(* The entry of the store queue a load or a store must wait for or take    *)
(* its data from; the fences that have not completed are among them.       *)
Sources(t, i) ==
  {j \in OlderStores(t, i) :
     IF prog[t][j].kind = "mf"
     THEN ~rob[t][j].addrvalid /\ prog[t][i].kind \in prog[t][j].holds
     ELSE \/ SameChunk(t, i, j)
          \/ ~rob[t][j].addrvalid /\ (prog[t][i].kind = "st" \/ i \in lsap[t])}
Source(t, i) == Greatest(Sources(t, i))
Resolved(t, s) == s # 0 => rob[t][s].addrvalid /\ rob[t][s].datavalid

HeldByOther(t, c) == interlocks[c] \notin {t, None}

(* addrgen and the new rs operand of an uop that is replayed. *)
Replayed(e, s) == [e EXCEPT !.addrvalid = TRUE, !.datavalid = FALSE, !.rs = s]
SetEntry(t, i, e) == rob' = [rob EXCEPT ![t][i] = e]

(* Bytes the source does not have come from memory. *)
Loaded(t, i) ==
  LET s == Source(t, i)
  IN  [b \in Bytes |->
         IF b \notin prog[t][i].bytes THEN None
         ELSE IF s # 0 /\ b \in rob[t][s].mask THEN rob[t][s].data[b]
         ELSE mem[prog[t][i].chunk][b]]

(* The data a store leaves in its chunk: its own over that of its source. *)
Merged(t, i) ==
  LET s == Source(t, i)
  IN  [b \in Bytes |->
         IF b \in prog[t][i].bytes THEN <<t, i>>
         ELSE IF s # 0 THEN rob[t][s].data[b] ELSE None]

--------------------------------------------------------------------------------
(* issueload, in the order of its tests. *)
LoadWaits(t, i) ==
  /\ CanIssue(t, i, "ld")
  /\ ~Resolved(t, Source(t, i))
  /\ SetEntry(t, i, Replayed(rob[t][i], Source(t, i)))
  /\ UNCHANGED <<prog, head, lsap, loaded, interlocks, queued, mem, arf, flushes>>

(* Another thread holds the chunk, or the interlock buffer is full. *)
LoadLockedOut(t, i) ==
  LET c == prog[t][i].chunk
  IN  /\ CanIssue(t, i, "ld")
      /\ Resolved(t, Source(t, i))
      /\ \/ HeldByOther(t, c)
         \/ /\ prog[t][i].locked /\ interlocks[c] = None
            /\ Cardinality({d \in Chunks : interlocks[d] # None}) = Ways
      /\ SetEntry(t, i, Replayed(rob[t][i], Source(t, i)))
      /\ UNCHANGED <<prog, head, lsap, loaded, interlocks, queued, mem, arf, flushes>>

(* The load has its data; the code asserts that its own thread has not     *)
(* locked the chunk.                                                       *)
LoadIssues(t, i) ==
  LET c == prog[t][i].chunk
  IN  /\ CanIssue(t, i, "ld")
      /\ Resolved(t, Source(t, i))
      /\ interlocks[c] = None
      /\ prog[t][i].locked => Cardinality({d \in Chunks : interlocks[d] # None}) < Ways
      /\ SetEntry(t, i, [rob[t][i] EXCEPT !.issued = TRUE, !.addrvalid = TRUE,
                           !.datavalid = TRUE, !.rs = Source(t, i),
                           !.lock = prog[t][i].locked, !.data = Loaded(t, i)])
      /\ interlocks' = IF prog[t][i].locked THEN [interlocks EXCEPT ![c] = t] ELSE interlocks
      /\ loaded' = [loaded EXCEPT ![t] = @ \cup {c}]
      /\ UNCHANGED <<prog, head, lsap, queued, mem, arf, flushes>>

--------------------------------------------------------------------------------
(* issuestore: its address is known from now on, whatever happens next. *)
StoreWaits(t, i) ==
  /\ CanIssue(t, i, "st")
  /\ ~Resolved(t, Source(t, i)) \/ ~OperandReady(t, prog[t][i].src)
  /\ SetEntry(t, i, [Replayed(rob[t][i], Source(t, i)) EXCEPT !.second = TRUE])
  /\ UNCHANGED <<prog, head, lsap, loaded, interlocks, queued, mem, arf, flushes>>

StoreReady(t, i) ==
  /\ CanIssue(t, i, "st")
  /\ Resolved(t, Source(t, i))
  /\ OperandReady(t, prog[t][i].src)

(* The younger loads that should have taken their data from the store. *)
Aliases(t, i) ==
  {j \in InFlight(t) : j > i /\ prog[t][j].kind = "ld" /\ rob[t][j].issued /\ SameChunk(t, i, j)}

(* A load of the same cycle: the store tries again in the next one. *)
StoreForwardsInParallel(t, i) ==
  /\ StoreReady(t, i)
  /\ Aliases(t, i) # {} /\ prog[t][i].chunk \in loaded[t]
  /\ SetEntry(t, i, Replayed(rob[t][i], Source(t, i)))
  /\ UNCHANGED <<prog, head, lsap, loaded, interlocks, queued, mem, arf, flushes>>

(* release_mem_lock and flush_mem_lock_release_list: the chunks locked by  *)
(* the entries S of a thread, and those whose release was put off.         *)
Held(t, S) == {prog[t][i].chunk : i \in {j \in S : rob[t][j].lock}}
Unlock(C) == interlocks' = [c \in Chunks |-> IF c \in C THEN None ELSE interlocks[c]]

(* Mutant: the entries keep what they were when they issued. *)
RedispatchIssued(t, S) ==
  /\ rob' = [rob EXCEPT ![t] = [i \in Uops(t) |->
               IF i \in S THEN [Dispatched(prog[t], i) EXCEPT
                                  !.issued = prog[t][i].kind = "ld" /\ rob[t][i].issued,
                                  !.addrvalid = rob[t][i].addrvalid]
               ELSE @[i]]]
  /\ Unlock(Held(t, S) \cup queued[t])
  /\ queued' = [queued EXCEPT ![t] = {}]

(* Mutant: locks are forgotten with the entries that took them. *)
RedispatchLocked(t, S) ==
  /\ rob' = [rob EXCEPT ![t] = [i \in Uops(t) |->
               IF i \in S THEN Dispatched(prog[t], i) ELSE @[i]]]
  /\ Unlock(queued[t])
  /\ queued' = [queued EXCEPT ![t] = {}]

(* redispatch, flush: the entries S start again without their locks. *)
Redispatch(t, S) ==
  /\ rob' = [rob EXCEPT ![t] = [i \in Uops(t) |->
               IF i \in S THEN Dispatched(prog[t], i) ELSE @[i]]]
  /\ Unlock(Held(t, S) \cup queued[t])
  /\ queued' = [queued EXCEPT ![t] = {}]

(* redispatch_dependents: the store has everything after it dispatched     *)
(* again, for it asks whether it is a store itself (isstore(uop.opcode)).  *)
StoreAliases(t, i) ==
  /\ StoreReady(t, i)
  /\ Aliases(t, i) # {} /\ prog[t][i].chunk \notin loaded[t]
  /\ lsap' = [lsap EXCEPT ![t] = @ \cup {Least(Aliases(t, i))}]
  /\ Redispatch(t, {j \in InFlight(t) : j >= i})
  /\ UNCHANGED <<prog, head, loaded, mem, arf, flushes>>

StoreLockedOut(t, i) ==
  /\ StoreReady(t, i)
  /\ Aliases(t, i) = {}
  /\ HeldByOther(t, prog[t][i].chunk)
  /\ SetEntry(t, i, Replayed(rob[t][i], Source(t, i)))
  /\ UNCHANGED <<prog, head, lsap, loaded, interlocks, queued, mem, arf, flushes>>

StoreIssues(t, i) ==
  LET s == Source(t, i)
  IN  /\ StoreReady(t, i)
      /\ Aliases(t, i) = {}
      /\ ~HeldByOther(t, prog[t][i].chunk)
      /\ SetEntry(t, i, [rob[t][i] EXCEPT !.issued = TRUE, !.addrvalid = TRUE,
                           !.datavalid = TRUE, !.second = TRUE, !.rs = s,
                           !.mask = prog[t][i].bytes \cup (IF s = 0 THEN {} ELSE rob[t][s].mask),
                           !.data = Merged(t, i)])
      /\ UNCHANGED <<prog, head, lsap, loaded, interlocks, queued, mem, arf, flushes>>

(* Mutant: a fence is complete when it issues. *)
FenceCompletes(t, i) ==
  /\ CanIssue(t, i, "mf")
  /\ SetEntry(t, i, [rob[t][i] EXCEPT !.issued = TRUE, !.addrvalid = TRUE, !.datavalid = TRUE])
  /\ UNCHANGED <<prog, head, lsap, loaded, interlocks, queued, mem, arf, flushes>>

(* issuefence: straight to the commit queue, where it waits to be oldest. *)
FenceIssues(t, i) ==
  /\ CanIssue(t, i, "mf")
  /\ SetEntry(t, i, [rob[t][i] EXCEPT !.issued = TRUE])
  /\ UNCHANGED <<prog, head, lsap, loaded, interlocks, queued, mem, arf, flushes>>

--------------------------------------------------------------------------------
Oldest(t) == head[t] + 1

(* Mutant: the locks stay queued until the next fence or flush. *)
FenceWakeupOnly(t) ==
  /\ Oldest(t) \in Uops(t)
  /\ prog[t][Oldest(t)].kind = "mf"
  /\ rob[t][Oldest(t)].issued /\ ~rob[t][Oldest(t)].addrvalid
  /\ SetEntry(t, Oldest(t), [rob[t][Oldest(t)] EXCEPT !.addrvalid = TRUE, !.datavalid = TRUE])
  /\ UNCHANGED <<prog, head, lsap, loaded, interlocks, queued, mem, arf, flushes>>

(* commit, for a fence that becomes the oldest uop: fencewakeup, and the   *)
(* locks of the instruction it ends are released.                          *)
FenceWakeup(t) ==
  /\ Oldest(t) \in Uops(t)
  /\ prog[t][Oldest(t)].kind = "mf"
  /\ rob[t][Oldest(t)].issued /\ ~rob[t][Oldest(t)].addrvalid
  /\ SetEntry(t, Oldest(t), [rob[t][Oldest(t)] EXCEPT !.addrvalid = TRUE, !.datavalid = TRUE])
  /\ Unlock(queued[t])
  /\ queued' = [queued EXCEPT ![t] = {}]
  /\ UNCHANGED <<prog, head, lsap, loaded, mem, arf, flushes>>

(* The rest of the oldest instruction is ready to commit. *)
MacroOpReady(t) ==
  /\ Oldest(t) \in Uops(t)
  /\ Complete(t, Oldest(t))
  /\ \A i \in Oldest(t)..prog[t][Oldest(t)].eom : rob[t][i].issued

(* Mutant: a store commits without looking for locks again. *)
CommitUnchecked(t) ==
  LET i == Oldest(t)  op == prog[t][i]  e == rob[t][i]
  IN  /\ MacroOpReady(t)
      /\ queued' = [queued EXCEPT ![t] = IF e.lock THEN @ \cup {op.chunk} ELSE @]
      /\ mem' = IF op.kind # "st" THEN mem
                ELSE [mem EXCEPT ![op.chunk] =
                        [b \in Bytes |-> IF b \in e.mask THEN e.data[b] ELSE @[b]]]
      /\ arf' = IF op.kind = "ld"
                THEN [arf EXCEPT ![t] = [b \in op.bytes |-> e.data[b]]] ELSE arf
      /\ SetEntry(t, i, Dispatched(prog[t], i))
      /\ head' = [head EXCEPT ![t] = i]
      /\ UNCHANGED <<prog, lsap, loaded, interlocks, flushes>>

(* commit: the uop leaves the queues; a store writes its chunk, unless     *)
(* another thread has locked it since the store issued.                    *)
Commit(t) ==
  LET i == Oldest(t)  op == prog[t][i]  e == rob[t][i]
  IN  /\ MacroOpReady(t)
      /\ op.kind = "st" => ~HeldByOther(t, op.chunk)
      /\ queued' = [queued EXCEPT ![t] = IF e.lock THEN @ \cup {op.chunk} ELSE @]
      /\ mem' = IF op.kind # "st" THEN mem
                ELSE [mem EXCEPT ![op.chunk] =
                        [b \in Bytes |-> IF b \in e.mask THEN e.data[b] ELSE @[b]]]
      /\ arf' = IF op.kind = "ld"
                THEN [arf EXCEPT ![t] = [b \in op.bytes |-> e.data[b]]] ELSE arf
      /\ SetEntry(t, i, Dispatched(prog[t], i))
      /\ head' = [head EXCEPT ![t] = i]
      /\ UNCHANGED <<prog, lsap, loaded, interlocks, flushes>>

(* annul: an older branch was mispredicted; the instructions from one on   *)
(* leave the pipeline and are fetched again.                               *)
Annul(t, i) ==
  LET S == {j \in InFlight(t) : j >= i}
  IN  /\ flushes < MaxFlushes
      /\ i \in InFlight(t) /\ i > Oldest(t) /\ prog[t][i].som = i
      /\ rob' = [rob EXCEPT ![t] = [j \in Uops(t) |->
                   IF j \in S THEN Dispatched(prog[t], j) ELSE @[j]]]
      /\ Unlock(Held(t, S))
      /\ flushes' = flushes + 1
      /\ UNCHANGED <<prog, head, lsap, loaded, queued, mem, arf>>

(* Mutant: fetching restarts one uop too early. *)
FlushBefore(t) ==
  /\ flushes < MaxFlushes
  /\ InFlight(t) # {}
  /\ Redispatch(t, Uops(t))
  /\ head' = [head EXCEPT ![t] = prog[t][Oldest(t)].som - 2]
  /\ flushes' = flushes + 1
  /\ UNCHANGED <<prog, lsap, loaded, mem, arf>>

(* flush_pipeline: a fault, an interrupt, self-modifying code or deadlock  *)
(* recovery; the instruction being committed starts again.                 *)
Flush(t) ==
  /\ flushes < MaxFlushes
  /\ InFlight(t) # {}
  /\ Redispatch(t, Uops(t))
  /\ head' = [head EXCEPT ![t] = prog[t][Oldest(t)].som - 1]
  /\ flushes' = flushes + 1
  /\ UNCHANGED <<prog, lsap, loaded, mem, arf>>

NextCycle ==
  /\ \E t \in Threads : loaded[t] # {}
  /\ loaded' = [t \in Threads |-> {}]
  /\ UNCHANGED <<prog, rob, head, lsap, interlocks, queued, mem, arf, flushes>>

Issue(t, i) ==
  \/ LoadWaits(t, i) \/ LoadLockedOut(t, i) \/ LoadIssues(t, i)
  \/ StoreWaits(t, i) \/ StoreForwardsInParallel(t, i) \/ StoreAliases(t, i)
  \/ StoreLockedOut(t, i) \/ StoreIssues(t, i)
  \/ FenceIssues(t, i)

Finished == \A t \in Threads : head[t] = Len(prog[t])

Next ==
  \/ \E t \in Threads :
       \/ \E i \in Uops(t) : Issue(t, i) \/ Annul(t, i)
       \/ FenceWakeup(t) \/ Commit(t) \/ Flush(t)
  \/ NextCycle
  \/ Finished /\ UNCHANGED vars

Spec == Init /\ [][Next]_vars

Longest == Greatest({Len(p[t]) : p \in Programs, t \in Threads})

(* Every cycle issues what is ready and commits, for every thread. *)
FairSpec ==
  /\ Spec
  /\ WF_vars(NextCycle)
  /\ \A t \in Threads : WF_vars(FenceWakeup(t)) /\ WF_vars(Commit(t))
  /\ \A t \in Threads, i \in 1..Longest : WF_vars(i \in Uops(t) /\ Issue(t, i))

--------------------------------------------------------------------------------
(* A chunk is locked only on behalf of a load in flight that took the lock *)
(* or of one that has committed and whose release waits for the end of its *)
(* instruction, of the very thread; both lists agree with the locks.  A    *)
(* lock that no entry remembers would shut all threads out for ever        *)
(* (release_mem_lock and flush_mem_lock_release_list assert the converse). *)
LocksAccounted ==
  \A c \in Chunks, t \in Threads :
    interlocks[c] = t <=> c \in Held(t, InFlight(t)) \cup queued[t]

(* A load that may issue never finds its chunk locked by its own thread    *)
(* (the assertion of issueload at oooexec.cpp:1293).                       *)
NoDoubleLocking ==
  \A t \in Threads : \A i \in InFlight(t) :
    CanIssue(t, i, "ld") /\ Resolved(t, Source(t, i)) => interlocks[prog[t][i].chunk] # t

(* While a fence has not completed nothing it holds back has issued, and   *)
(* when it has, everything before it has committed (the comment at         *)
(* oooexec.cpp:1635: "only at that point can future loads and stores       *)
(* issue"), though stores and other fences before it dispatch it again.    *)
FencesHold ==
  \A t \in Threads : \A i \in InFlight(t) :
    prog[t][i].kind = "mf" =>
      IF rob[t][i].addrvalid THEN i = Oldest(t)
      ELSE \A j \in InFlight(t) :
             j > i /\ prog[t][j].kind \in prog[t][i].holds => ~rob[t][j].issued

(* A locked load is the only load of its chunk in its instruction, unlike  *)
(* those of cmpxchg8b, which loads a chunk in two halves.                  *)
LockedAlone(p) ==
  \A t \in Threads : \A i, j \in 1..Len(p[t]) :
    /\ p[t][i].kind = "ld" /\ p[t][i].locked /\ p[t][j].kind = "ld"
    /\ j \in p[t][i].som..p[t][i].eom /\ p[t][j].chunk = p[t][i].chunk
    => i = j

(* Loads that ran ahead of older stores, merged stores, fences, locks and  *)
(* flushes are invisible: what commits is what threads that execute their  *)
(* uops in order and update locked chunks without interruption would do.   *)
InOrder == INSTANCE InOrderMemory WITH done <- head, memory <- mem, result <- arf
ImplementsInOrderMemory == InOrder!Spec

(* Every program commits to its end: no pair of a store and a load that    *)
(* alias sends the other back for ever (the comment at oooexec.cpp:1183),  *)
(* no uop waits for an rs operand that was dispatched again and no lock is *)
(* left behind.                                                            *)
AllCommit == <>Finished
================================================================================
