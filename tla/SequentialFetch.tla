---------------------------- MODULE SequentialFetch ----------------------------
(***************************************************************************)
(* The sequential core's use of the basic block cache (ptlsim/seqcore.cpp):*)
(* it executes one block at a time, uop by uop, and takes no reference to  *)
(* the block it executes.                                                  *)
(***************************************************************************)
EXTENDS BBCache

VARIABLES
  current_bb, \* the block being executed, or None
  overwritten \* history: its pages overwritten since it was translated

seqvars == <<cache, dirty, work, current_bb, overwritten>>

SeqTypeOK ==
  /\ CacheType
  /\ dirty \subseteq Pages
  /\ current_bb \in Blocks \cup {None}
  /\ overwritten \subseteq Pages

SeqInit == Init /\ current_bb = None /\ overwritten = {}

(* fetch_or_translate_basic_block: a block in the cache is used as it is. *)
SeqFetch(b) ==
  /\ work.pc = "idle" /\ current_bb = None
  /\ IF b \in cache.blocks
     THEN current_bb' = b /\ overwritten' = cache.stale[b] /\ UNCHANGED work
     ELSE work' = [pc |-> "clone", block |-> b] /\ UNCHANGED <<current_bb, overwritten>>
  /\ UNCHANGED <<cache, dirty>>

(* translate has returned; synth_uops_for_bb is about to allocate. *)
Take ==
  /\ work.pc = "return"
  /\ current_bb' = work.block
  /\ overwritten' = {}
  /\ work' = [pc |-> "synth", block |-> None]
  /\ UNCHANGED <<cache, dirty>>

SeqSynthesize ==
  /\ work.pc = "synth"
  /\ work' = Idle
  /\ UNCHANGED <<cache, dirty, current_bb, overwritten>>

Executing == work.pc = "idle" /\ current_bb # None

(***************************************************************************)
(* The span of bytes watched before each uop has the current instruction's *)
(* length but always starts where the block starts: rvp.update(ctx, bytes) *)
(* keeps rvp.rip.  It reaches the second page of a crossing block only if  *)
(* an instruction of that length would cross at the block's start.         *)
(***************************************************************************)
WatchedLast == {{Hi[current_bb]}}  \* mutant: only the last page
Watched == {{Lo[current_bb]}, Span(current_bb)}

(* The check in front of every uop, and its answer. *)
SeqDetectSMC ==
  /\ Executing
  /\ \E pages \in Watched :
       /\ pages \cap dirty # {}
       /\ cache' \in (IF pages = {Lo[current_bb]} THEN PageInvalidated(cache, Lo[current_bb])
                                                  ELSE PagesInvalidated(cache, pages))
       /\ dirty' = dirty \ pages
  /\ current_bb' = None
  /\ overwritten' = {}
  /\ UNCHANGED work

(* A uop executes, and writes the pages of W if it is a store. *)
ExecuteUop ==
  /\ Executing
  /\ \E pages \in Watched : pages \cap dirty = {}
  /\ \E W \in {{}} \cup {{p} : p \in Pages} :
       /\ cache' = Overwritten(cache, W)
       /\ dirty' = dirty \cup W
       /\ overwritten' = overwritten \cup (Span(current_bb) \cap W)
  /\ UNCHANGED <<work, current_bb>>

(* The end of the block, or an exception, a barrier, an instruction limit. *)
Leave ==
  /\ Executing
  /\ current_bb' = None /\ overwritten' = {}
  /\ UNCHANGED <<cache, dirty, work>>

SeqNext ==
  \/ (Reclaim \/ TranslateStep) /\ UNCHANGED <<current_bb, overwritten>>
  \/ \E b \in Blocks : SeqFetch(b)
  \/ Take \/ SeqSynthesize \/ SeqDetectSMC \/ ExecuteUop \/ Leave

SeqSpec == SeqInit /\ [][SeqNext]_seqvars
-----------------------------------------------------------------------------
(* A uop on the page its block starts on that passes some check in front   *)
(* of it is the translation of bytes no executed store has overwritten,    *)
(* whatever was invalidated, reclaimed or left in the cache before.        *)
NoStaleFirstPage ==
  Executing /\ (\E pages \in Watched : pages \cap dirty = {})
    => Lo[current_bb] \notin overwritten

(* seqcore.cpp:1177: the check asks whether a previous instruction "has    *)
(* dirtied the page(s) on which the current instruction resides", so that  *)
(* no overwritten instruction executes on either page of a block.          *)
NoStaleExecution ==
  Executing /\ (\E pages \in Watched : pages \cap dirty = {})
    => overwritten = {}
=============================================================================
