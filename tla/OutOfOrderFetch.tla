---------------------------- MODULE OutOfOrderFetch ----------------------------
(***************************************************************************)
(* The out-of-order core's use of the basic block cache (ptlsim/ooopipe.cpp*)
(* and ooocore.cpp): each hardware thread holds a reference to the block   *)
(* it fetches from, its instructions wait in the reorder buffer with their *)
(* uops already translated, and a uop of a dirty page does not commit but  *)
(* asks for the pages to be invalidated at the end of the cycle.           *)
(***************************************************************************)
EXTENDS BBCache

CONSTANTS
  Threads, \* hardware threads of the core; one in a userspace build
  Depth    \* bound on the instructions in flight per thread

ASSUME ThreadsAssumption ==
  /\ IsFiniteSet(Threads) /\ None \notin Threads
  /\ Depth \in Nat

VARIABLES
  current, \* the block each thread fetches from
  fetcher, \* the thread that called translate, or None
  rob,     \* per thread, the instructions fetched and not retired
  smc,     \* per thread, the pages of the instruction found dirty, or {}
  phase    \* "running", "ended" (run returned) or "down" (shutdown_decode)

vars == <<cache, dirty, work, current, fetcher, rob, smc, phase>>

(***************************************************************************)
(* An instruction in flight: the pages of its bytes, its uops not yet      *)
(* committed out of size, whether its bytes were overwritten since it was  *)
(* translated, and the pages its own uops have written (the last two are   *)
(* history).  An instruction may be a store followed by another uop, as a  *)
(* push is.                                                                *)
(***************************************************************************)
Instructions ==
  [pages : SUBSET Pages, left : 1..2, size : 1..2, stale : BOOLEAN, wrote : SUBSET Pages]

TypeOK ==
  /\ CacheType
  /\ dirty \subseteq Pages
  /\ work.block \in Blocks \cup {None}
  /\ current \in [Threads -> Blocks \cup {None}]
  /\ fetcher \in Threads \cup {None}
  /\ \A t \in Threads : rob[t] \in Seq(Instructions) /\ Len(rob[t]) <= Depth
  /\ smc \in [Threads -> SUBSET Pages]
  /\ phase \in {"running", "ended", "down"}

OooInit ==
  /\ Init
  /\ current = [t \in Threads |-> None]
  /\ fetcher = None
  /\ rob = [t \in Threads |-> <<>>]
  /\ smc = [t \in Threads |-> {}]
  /\ phase = "running"

(* The simulator's own loop runs: no allocation is being served. *)
Cycle == phase = "running" /\ work.pc = "idle"

(* fetch_or_translate_basic_block: drop the old block, look b up. *)
Fetch(t, b) ==
  /\ Cycle
  /\ LET c == Release(cache, current[t])
     IN  IF b \in c.blocks
         THEN /\ cache' = Acquire(c, b)
              /\ current' = [current EXCEPT ![t] = b]
              /\ UNCHANGED <<work, fetcher>>
         ELSE /\ cache' = c
              /\ current' = [current EXCEPT ![t] = None]
              /\ work' = [pc |-> "clone", block |-> b]
              /\ fetcher' = t
  /\ UNCHANGED <<dirty, rob, smc, phase>>

(* ... acquire the translated block before synth_uops_for_bb allocates. *)
Hold ==
  /\ work.pc = "return"
  /\ cache' = Acquire(cache, work.block)
  /\ current' = [current EXCEPT ![fetcher] = work.block]
  /\ work' = [work EXCEPT !.pc = "synth", !.block = None]
  /\ fetcher' = None
  /\ UNCHANGED <<dirty, rob, smc, phase>>

Synthesize ==
  /\ work.pc = "synth"
  /\ work' = Idle
  /\ UNCHANGED <<cache, dirty, current, fetcher, rob, smc, phase>>

(* The next instruction of the current block: it lies on one page of the   *)
(* block or across both.                                                   *)
FetchInstruction(t) ==
  /\ Cycle
  /\ current[t] # None
  /\ Len(rob[t]) < Depth
  /\ \E pages \in (SUBSET Span(current[t])) \ {{}}, n \in 1..2 :
       rob' = [rob EXCEPT ![t] = Append(@,
                [pages |-> pages, left |-> n, size |-> n,
                 stale |-> cache.stale[current[t]] \cap pages # {}, wrote |-> {}])]
  /\ UNCHANGED <<cache, dirty, work, current, fetcher, smc, phase>>

(* Some uops of the oldest instruction have committed, not all. *)
Begun(t) == rob[t] # <<>> /\ Head(rob[t]).left < Head(rob[t]).size

(* reset_fetch_unit after a branch mispredict or an alignment fixup: the   *)
(* younger instructions are annulled and the block released.  Nor is more  *)
(* left after a barrier or an exception, taken between instructions.       *)
Redirect(t) ==
  /\ Cycle
  /\ \E n \in (IF Begun(t) THEN 1 ELSE 0)..Len(rob[t]) :
       rob' = [rob EXCEPT ![t] = SubSeq(@, 1, n)]
  /\ cache' = Release(cache, current[t])
  /\ current' = [current EXCEPT ![t] = None]
  /\ UNCHANGED <<dirty, work, fetcher, smc, phase>>

Ready(t) == Cycle /\ smc[t] = {} /\ rob[t] # <<>>
IsCleanAtEnd(t) == Head(rob[t]).left > 1 \/ Head(rob[t]).pages \cap dirty = {}  \* mutant: the last uop only
IsClean(t) == Head(rob[t]).pages \cap dirty = {}

(* One uop commits.  A store writes a page: it is dirty, and whatever was  *)
(* translated from it before is stale.                                     *)
Commit(t) ==
  /\ Ready(t) /\ IsClean(t)
  /\ \E W \in {{}} \cup {{p} : p \in Pages} :
       LET mark(i) == [i EXCEPT !.stale = @ \/ i.pages \cap W # {}]
           rest == IF Head(rob[t]).left = 1 THEN Tail(rob[t])
                   ELSE [rob[t] EXCEPT ![1].left = @ - 1, ![1].wrote = W]
       IN  /\ rob' = [s \in Threads |->
                        LET q == IF s = t THEN rest ELSE rob[s]
                        IN  [i \in DOMAIN q |-> mark(q[i])]]
           /\ cache' = Overwritten(cache, W)
           /\ dirty' = dirty \cup W
  /\ UNCHANGED <<work, current, fetcher, smc, phase>>

(* COMMIT_RESULT_SMC: nothing commits, the invalidation is queued. *)
DetectSMC(t) ==
  /\ Ready(t) /\ ~IsClean(t)
  /\ smc' = [smc EXCEPT ![t] = Head(rob[t]).pages]
  /\ UNCHANGED <<cache, dirty, work, current, fetcher, rob, phase>>

(* The pages invalidate_page is called for, whose dirty bits it clears. *)
Requested(S) == UNION {{p, p + 1} : p \in {q \in S : \A r \in S : q <= r}}

(* flush_pipeline of the thread alone, then invalidate_smc. *)
HandleSMC(t) ==
  /\ Cycle
  /\ smc[t] # {}
  /\ cache' \in PagesInvalidated(Release(cache, current[t]), smc[t])
  /\ dirty' = dirty \ Requested(smc[t])
  /\ current' = [current EXCEPT ![t] = None]
  /\ rob' = [rob EXCEPT ![t] = <<>>]
  /\ smc' = [smc EXCEPT ![t] = {}]
  /\ UNCHANGED <<work, fetcher, phase>>

(* handle_barrier for assist_exec_page_fault at a page that has become     *)
(* valid: flush, then invalidate the faulting block unless it is in use.   *)
SpuriousFault(t) ==
  /\ Ready(t) /\ Head(rob[t]).left = 1 /\ IsClean(t)
  /\ \E b \in cache.blocks :
       LET c == Release(cache, current[t])
       IN  cache' = Invalidated(c, {b} \cap Unreferenced(c))
  /\ current' = [current EXCEPT ![t] = None]
  /\ rob' = [rob EXCEPT ![t] = <<>>]
  /\ UNCHANGED <<dirty, work, fetcher, smc, phase>>

(* The end of OutOfOrderMachine::run: flush_all_pipelines (and a mutant    *)
(* that forgets the blocks being fetched from).                            *)
ReleasedNone(c) == c
ReleasedAll(c) == [c EXCEPT !.refs = [b \in Blocks |-> @[b] - Cardinality({t \in Threads : current[t] = b})]]

EndRun ==
  /\ Cycle
  /\ \A t \in Threads : smc[t] = {}
  /\ cache' = ReleasedAll(cache)
  /\ current' = [t \in Threads |-> None]
  /\ rob' = [t \in Threads |-> <<>>]
  /\ phase' = "ended"
  /\ UNCHANGED <<dirty, work, fetcher, smc>>

(* Another run of the machine over the same cache. *)
Rerun ==
  /\ phase = "ended" /\ phase' = "running"
  /\ UNCHANGED <<cache, dirty, work, current, fetcher, rob, smc>>

(* shutdown_decode: bbcache.flush() with no allocation left to serve. *)
Shutdown ==
  /\ phase = "ended" /\ work.pc = "idle"
  /\ LET c == Invalidated(cache, Unreferenced(cache))
     IN  cache' = [c EXCEPT !.lists = RestrictValues(@, LAMBDA l : l.blocks # {})]
  /\ phase' = "down"
  /\ UNCHANGED <<dirty, work, current, fetcher, rob, smc>>

Next ==
  \/ /\ \/ phase # "down" /\ Reclaim
        \/ TranslateStep
     /\ UNCHANGED <<current, fetcher, rob, smc, phase>>
  \/ Hold \/ Synthesize
  \/ \E t \in Threads :
       \/ \E b \in Blocks : Fetch(t, b)
       \/ FetchInstruction(t) \/ Redirect(t) \/ Commit(t)
       \/ DetectSMC(t) \/ HandleSMC(t) \/ SpuriousFault(t)
  \/ EndRun \/ Rerun \/ Shutdown

Spec == OooInit /\ [][Next]_vars
-----------------------------------------------------------------------------
(* Every reference a thread or the translator holds is counted, once, in a *)
(* block that is still cached: a reclaim or an invalidation in between     *)
(* never frees a block in use and no flush path leaks a reference.         *)
ReferencesExact ==
  \A b \in Blocks :
    LET holders == Cardinality({t \in Threads : current[t] = b})
        translating == IF work.block = b /\ work.pc \in {"lolist", "loadd", "hilist", "hiadd"} THEN 1 ELSE 0
    IN  /\ cache.refs[b] = holders + translating
        /\ holders + translating > 0 => b \in cache.blocks

(* decode-core.cpp:1622, assert(page->empty()): when the cache is flushed  *)
(* nothing may be left on a page list, so no thread still holds a block.   *)
FlushedEmpty == phase = "down" => cache.blocks = {} /\ DOMAIN cache.lists = {}

(* Self-modifying code: an instruction that starts to commit is the        *)
(* translation of the bytes its pages hold after all stores committed      *)
(* before it (the check at ooopipe.cpp:1730, invalidate_smc).              *)
NoStaleCommit ==
  \A t \in Threads : (Ready(t) /\ IsClean(t) /\ ~Begun(t)) => ~Head(rob[t]).stale

(* An instruction is abandoned halfway, some of its uops committed, only   *)
(* because its own store overwrote the page it lies on: it is never found  *)
(* dirty late for a store before it, or of another block of its thread     *)
(* (the check comes before each uop of a macro-op, ooopipe.cpp:1730).      *)
CutByOwnStoreOnly ==
  \A t \in Threads :
    (smc[t] # {} /\ Begun(t)) => Head(rob[t]).wrote \cap smc[t] # {}
=============================================================================
