-------------------------------- MODULE BBCache --------------------------------
(***************************************************************************)
(* PTLsim's cache of translated basic blocks (BasicBlockCache of           *)
(* ptlsim/decode-core.cpp): the blocks, their reference counts, the lists  *)
(* of blocks by code page, and the dirty bits of pages written to.         *)
(*                                                                         *)
(* The simulator is one thread, but any allocation it makes may run out of *)
(* memory and call bbcache.reclaim before it returns.  A translation       *)
(* allocates several times, so it is a sequence of steps with reclaims     *)
(* between them.                                                           *)
(***************************************************************************)
EXTENDS Integers, Sequences, FiniteSets, Functions

CONSTANTS
  Blocks,  \* addresses basic blocks are translated from
  Pages,   \* code pages, numbered in address order
  Lo, Hi   \* the first and the last page of a block, as functions

None == "none"

ASSUME PagesAssumption ==
  /\ Pages \subseteq Nat
  /\ Lo \in [Blocks -> Pages] /\ Hi \in [Blocks -> Pages]
  /\ None \notin Blocks

Span(b) == {Lo[b], Hi[b]}

VARIABLES
  cache,  \* [blocks, refs, stale, lists], see CacheType
  dirty,  \* pages written to since they were last invalidated
  work    \* the translation in progress: [pc, block]

(* stale[b]: the pages of b overwritten since b was translated (history).  *)
(* lists: from the pages that have one, the list's blocks and references.  *)
CacheType ==
  /\ cache.blocks \subseteq Blocks
  /\ cache.refs \in [Blocks -> Nat]
  /\ cache.stale \in [Blocks -> SUBSET Pages]
  /\ DOMAIN cache.lists \subseteq Pages
  /\ \A p \in DOMAIN cache.lists :
       cache.lists[p] \in [blocks : SUBSET Blocks, refs : Nat]

EmptyCache ==
  [blocks |-> {}, refs |-> [b \in Blocks |-> 0], stale |-> [b \in Blocks |-> {}],
   lists |-> [p \in {} |-> 0]]
Idle == [pc |-> "idle", block |-> None]
-----------------------------------------------------------------------------
(* Operations on a cache c.                                                *)

AcquireAsFlag(c, b) == [c EXCEPT !.refs[b] = 1]  \* mutant: does not count
Acquire(c, b) == [c EXCEPT !.refs[b] = @ + 1]
Release(c, b) == IF b = None THEN c ELSE [c EXCEPT !.refs[b] = @ - 1]
Unreferenced(c) == {b \in c.blocks : c.refs[b] = 0}

(* Mutant: a crossing block stays on the list of its second page. *)
InvalidatedLowOnly(c, S) ==
  [c EXCEPT !.blocks = @ \ S,
            !.stale = [b \in Blocks |-> IF b \in S THEN {} ELSE @[b]],
            !.lists = [p \in DOMAIN @ |-> [c.lists[p] EXCEPT !.blocks = @ \ {b \in S : Lo[b] = p}]]]

(* invalidate(bb) of every block of S: off the page lists, then freed. *)
Invalidated(c, S) ==
  [c EXCEPT !.blocks = @ \ S,
            !.stale = [b \in Blocks |-> IF b \in S THEN {} ELSE @[b]],
            !.lists = [p \in DOMAIN @ |-> [c.lists[p] EXCEPT !.blocks = @ \ S]]]

(* invalidate_page: the outcomes.  The loop stops at the first block that  *)
(* is referenced; which blocks it met before depends on the list's slots.  *)
PageInvalidated(c, p) ==
  IF p \notin DOMAIN c.lists THEN {c}
  ELSE LET listed == c.lists[p].blocks
           idle == listed \cap Unreferenced(c)
       IN  IF idle = listed THEN {Invalidated(c, listed)}
           ELSE {Invalidated(c, S) : S \in SUBSET idle}

(* ThreadContext::invalidate_smc, without the dirty bits: the page of an   *)
(* instruction and the next page.                                          *)
PagesInvalidated(c, S) ==
  IF S = {} THEN {c}
  ELSE LET p == CHOOSE q \in S : \A r \in S : q <= r
       IN  UNION {PageInvalidated(d, p + 1) : d \in PageInvalidated(c, p)}

(* A store to the pages of W: translations made before it are now stale. *)
Overwritten(c, W) ==
  [c EXCEPT !.stale = [b \in Blocks |->
                         @[b] \cup (IF b \in c.blocks THEN Span(b) \cap W ELSE {})]]

(* Mutant: a list that is made for the translation starts unreferenced. *)
LockedIfPresent(c, p) ==
  [c EXCEPT !.lists = [q \in (DOMAIN @) \cup {p} |->
     IF q # p THEN @[q]
     ELSE IF p \in DOMAIN @ THEN [c.lists[p] EXCEPT !.refs = @ + 1]
     ELSE [blocks |-> {}, refs |-> 0]]]

(* The list of page p, made if there is none, with a reference to it. *)
Locked(c, p) ==
  [c EXCEPT !.lists = [q \in (DOMAIN @) \cup {p} |->
     IF q # p THEN @[q]
     ELSE IF p \in DOMAIN @ THEN [c.lists[p] EXCEPT !.refs = @ + 1]
     ELSE [blocks |-> {}, refs |-> 1]]]
Unlocked(c, p) == [c EXCEPT !.lists[p].refs = @ - 1]
Listed(c, p, b) == [c EXCEPT !.lists[p].blocks = @ \cup {b}]
-----------------------------------------------------------------------------
Init ==
  /\ cache = EmptyCache
  /\ dirty = {}
  /\ work = Idle

(***************************************************************************)
(* reclaim, out of an allocation.  It frees the unreferenced blocks whose  *)
(* last use is no later than the average (any set of them, as the times    *)
(* are not modelled), then the page lists that are empty and unreferenced. *)
(***************************************************************************)
Allocating == {"idle", "clone", "lolist", "loadd", "hilist", "hiadd", "synth"}

Reclaim ==
  /\ work.pc \in Allocating
  /\ cache.blocks # {}
  /\ \E old \in SUBSET cache.blocks :
       LET c == Invalidated(cache, old \cap Unreferenced(cache))
       IN  cache' = [c EXCEPT !.lists = RestrictValues(@, LAMBDA l : l.blocks # {} \/ l.refs > 0)]
  /\ UNCHANGED <<dirty, work>>

(***************************************************************************)
(* translate: clone the decoded block, acquire and add it, then put it on  *)
(* the list of its first page and, if it crosses into another, on that     *)
(* page's list.  Each of these steps follows an allocation.                *)
(***************************************************************************)
(* Mutant: the page is taken to be clean once it is translated again. *)
InsertCleans ==
  /\ work.pc = "clone"
  /\ cache' = [Acquire(cache, work.block) EXCEPT !.blocks = @ \cup {work.block}]
  /\ work' = [work EXCEPT !.pc = "lolist"]
  /\ dirty' = dirty \ {Lo[work.block]}

Insert ==
  /\ work.pc = "clone"
  /\ cache' = [Acquire(cache, work.block) EXCEPT !.blocks = @ \cup {work.block}]
  /\ work' = [work EXCEPT !.pc = "lolist"]
  /\ UNCHANGED dirty

LockLo ==
  /\ work.pc = "lolist"
  /\ cache' = Locked(cache, Lo[work.block])
  /\ work' = [work EXCEPT !.pc = "loadd"]
  /\ UNCHANGED dirty

(* The end of translate: both lists unlocked, the block released. *)
Finished(c, b) == Release(Unlocked(c, Lo[b]), b)

AddLo ==
  /\ work.pc = "loadd"
  /\ LET b == work.block
         c == Listed(cache, Lo[b], b)
     IN  IF Lo[b] = Hi[b]
         THEN cache' = Finished(c, b) /\ work' = [work EXCEPT !.pc = "return"]
         ELSE cache' = c /\ work' = [work EXCEPT !.pc = "hilist"]
  /\ UNCHANGED dirty

LockHi ==
  /\ work.pc = "hilist"
  /\ cache' = Locked(cache, Hi[work.block])
  /\ work' = [work EXCEPT !.pc = "hiadd"]
  /\ UNCHANGED dirty

AddHi ==
  /\ work.pc = "hiadd"
  /\ LET b == work.block
     IN  cache' = Finished(Unlocked(Listed(cache, Hi[b], b), Hi[b]), b)
  /\ work' = [work EXCEPT !.pc = "return"]
  /\ UNCHANGED dirty

TranslateStep == Insert \/ LockLo \/ AddLo \/ LockHi \/ AddHi
-----------------------------------------------------------------------------
(* Where a translation is with a list locked: at which steps, which page. *)
HoldsLo == work.pc \in {"loadd", "hilist", "hiadd"}
HoldsHi == work.pc = "hiadd"

(* A list a translation is about to add to or unlock has not been freed by *)
(* a reclaim in between, the hazard of the WARNING at decode-core.cpp:2083.*)
LockedListsExist ==
  /\ HoldsLo => Lo[work.block] \in DOMAIN cache.lists
  /\ HoldsHi => Hi[work.block] \in DOMAIN cache.lists

(* The page lists and the cache agree: every cached block is on the list   *)
(* of each page it spans, where an invalidation of the page will find it,  *)
(* and nothing else is listed; the block being translated may be missing.  *)
ListsMatchCache ==
  /\ \A p \in DOMAIN cache.lists :
       cache.lists[p].blocks \subseteq {b \in cache.blocks : p \in Span(b)}
  /\ \A b \in cache.blocks \ {work.block} : \A p \in Span(b) :
       p \in DOMAIN cache.lists /\ b \in cache.lists[p].blocks
=============================================================================
