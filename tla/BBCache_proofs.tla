----------------------------- MODULE BBCache_proofs -----------------------------
(***************************************************************************)
(* The basic block cache and the two cores that use it, for any blocks and *)
(* pages, with a reclaim at every allocation.  First what each operation   *)
(* on a block cache does to its types, its reference counts and the        *)
(* agreement of its page lists with its blocks, then a translation, step   *)
(* by step.                                                                *)
(*                                                                         *)
(* The sequential core: nothing stale is executed on a block's first page. *)
(*                                                                         *)
(* The out-of-order core, for any threads and depths: references are       *)
(* exact, page lists and cache agree, locked lists exist and a flushed     *)
(* cache is empty.  For one hardware thread, the userspace build, nothing  *)
(* stale starts to commit and an instruction is cut only by its own store. *)
(***************************************************************************)
EXTENDS OutOfOrderFetch, SequentialFetch, TLAPS, FiniteSetTheorems

Lists == [blocks : SUBSET Blocks, refs : Nat]
Caches ==
  [blocks : SUBSET Blocks, refs : [Blocks -> Nat], stale : [Blocks -> SUBSET Pages],
   lists : UNION {[D -> Lists] : D \in SUBSET Pages}]

(* What is listed for a page is cached and spans the page, and conversely, *)
(* but for the block w that is being translated.                           *)
ListedCached(c) ==
  \A p \in DOMAIN c.lists : c.lists[p].blocks \subseteq {b \in c.blocks : p \in Span(b)}
OnList(c, b, p) == p \in DOMAIN c.lists /\ b \in c.lists[p].blocks
CachedListed(c, w) == \A b \in c.blocks \ {w} : \A p \in Span(b) : OnList(c, b, p)
Agree(c, w) == ListedCached(c) /\ CachedListed(c, w)

(* A list that is locked exists. *)
HasLock(c, p) == p \in DOMAIN c.lists /\ c.lists[p].refs > 0

LEMMA ListsTyped ==
  ASSUME NEW c \in Caches
  PROVE  /\ DOMAIN c.lists \subseteq Pages
         /\ \A p \in DOMAIN c.lists : c.lists[p] \in Lists
         /\ c.lists = [p \in DOMAIN c.lists |-> c.lists[p]]
         /\ c.blocks \subseteq Blocks /\ c.refs \in [Blocks -> Nat]
         /\ c.stale \in [Blocks -> SUBSET Pages]
<1>1. c.lists \in UNION {[D -> Lists] : D \in SUBSET Pages}
  BY DEF Caches
<1>2. PICK D \in SUBSET Pages : c.lists \in [D -> Lists]
  BY <1>1
<1> QED
  BY <1>2 DEF Caches

LEMMA ListsFrom ==
  ASSUME NEW D \in SUBSET Pages, NEW f \in [D -> Lists]
  PROVE  f \in UNION {[E -> Lists] : E \in SUBSET Pages}
OBVIOUS

(* Counting references. *)
LEMMA AcquireIs ==
  ASSUME NEW c \in Caches, NEW b \in Blocks
  PROVE  /\ Acquire(c, b) \in Caches
         /\ Acquire(c, b).blocks = c.blocks /\ Acquire(c, b).lists = c.lists
         /\ Acquire(c, b).stale = c.stale
         /\ Acquire(c, b).refs = [c.refs EXCEPT ![b] = @ + 1]
<1>0. c.refs \in [Blocks -> Nat]
  BY DEF Caches
<1>1. [c.refs EXCEPT ![b] = @ + 1] \in [Blocks -> Nat]
  BY <1>0
<1> QED
  BY <1>1 DEF Acquire, Caches

LEMMA ReleaseIs ==
  ASSUME NEW c \in Caches, NEW b \in Blocks \cup {None}, b # None => c.refs[b] > 0
  PROVE  /\ Release(c, b) \in Caches
         /\ Release(c, b).blocks = c.blocks /\ Release(c, b).lists = c.lists
         /\ Release(c, b).stale = c.stale
         /\ \A x \in Blocks : Release(c, b).refs[x] = c.refs[x] - (IF x = b THEN 1 ELSE 0)
<1>0. c.refs \in [Blocks -> Nat]
  BY DEF Caches
<1>1. CASE b = None
  BY <1>0, <1>1, PagesAssumption DEF Release
<1>2. CASE b # None
  <2>1. b \in Blocks /\ c.refs[b] \in Nat /\ c.refs[b] > 0
    BY <1>0, <1>2
  <2>2. [c.refs EXCEPT ![b] = @ - 1] \in [Blocks -> Nat]
    BY <1>0, <2>1
  <2>3. Release(c, b) = [c EXCEPT !.refs = [c.refs EXCEPT ![b] = @ - 1]]
    BY <1>2 DEF Release, Caches
  <2>4. \A x \in Blocks : [c.refs EXCEPT ![b] = @ - 1][x] = c.refs[x] - (IF x = b THEN 1 ELSE 0)
    BY <1>0, <2>1
  <2> QED
    BY <2>2, <2>3, <2>4 DEF Caches
<1> QED
  BY <1>1, <1>2

LEMMA SetRefs ==
  ASSUME NEW c \in Caches, NEW f \in [Blocks -> Nat]
  PROVE  [c EXCEPT !.refs = f] \in Caches
BY DEF Caches

--------------------------------------------------------------------------------
(* Unreferenced blocks leave: whoever holds a block keeps it. *)
Frees(c, d) ==
  /\ d \in Caches
  /\ d.refs = c.refs
  /\ d.blocks \subseteq c.blocks
  /\ \A b \in c.blocks : c.refs[b] > 0 => b \in d.blocks
  /\ \A b \in Blocks : d.stale[b] = IF b \in c.blocks \ d.blocks THEN {} ELSE c.stale[b]
  /\ \A p \in DOMAIN d.lists : p \in DOMAIN c.lists /\ d.lists[p].refs = c.lists[p].refs
  /\ \A p \in Pages : HasLock(c, p) => HasLock(d, p)
  /\ \A b \in d.blocks : \A p \in Span(b) : OnList(c, b, p) => OnList(d, b, p)
  /\ \A w : Agree(c, w) => Agree(d, w)

LEMMA FreesTrans ==
  ASSUME NEW c \in Caches, NEW d, NEW e, Frees(c, d), Frees(d, e)
  PROVE  Frees(c, e)
BY DEF Frees

LEMMA FreesNothing ==
  ASSUME NEW c \in Caches
  PROVE  Frees(c, c)
BY DEF Frees

LEMMA InvalidatedIs ==
  ASSUME NEW c \in Caches, NEW S \in SUBSET Unreferenced(c)
  PROVE  /\ Invalidated(c, S) \in Caches
         /\ Invalidated(c, S).blocks = c.blocks \ S
         /\ Invalidated(c, S).refs = c.refs
         /\ Invalidated(c, S).stale = [b \in Blocks |-> IF b \in S THEN {} ELSE c.stale[b]]
         /\ DOMAIN Invalidated(c, S).lists = DOMAIN c.lists
         /\ \A p \in DOMAIN c.lists :
              /\ Invalidated(c, S).lists[p].blocks = c.lists[p].blocks \ S
              /\ Invalidated(c, S).lists[p].refs = c.lists[p].refs
<1> DEFINE bl == c.blocks \ S
           st == [b \in Blocks |-> IF b \in S THEN {} ELSE c.stale[b]]
           li == [p \in DOMAIN c.lists |-> [c.lists[p] EXCEPT !.blocks = @ \ S]]
<1>1. Invalidated(c, S) = [c EXCEPT !.blocks = bl, !.stale = st, !.lists = li]
  BY DEF Invalidated, Caches
<1>2. bl \in SUBSET Blocks /\ st \in [Blocks -> SUBSET Pages]
  BY ListsTyped
<1>3. \A p \in DOMAIN c.lists :
        /\ li[p] \in Lists
        /\ li[p].blocks = c.lists[p].blocks \ S /\ li[p].refs = c.lists[p].refs
  <2> SUFFICES ASSUME NEW p \in DOMAIN c.lists
               PROVE  LET l == [c.lists[p] EXCEPT !.blocks = @ \ S]
                      IN  /\ l \in Lists
                          /\ l.blocks = c.lists[p].blocks \ S /\ l.refs = c.lists[p].refs
    OBVIOUS
  <2>1. c.lists[p] \in Lists
    BY ListsTyped
  <2> QED
    BY <2>1 DEF Lists
<1>4. DOMAIN li = DOMAIN c.lists /\ DOMAIN c.lists \in SUBSET Pages
  BY ListsTyped
<1>5. li \in [DOMAIN c.lists -> Lists]
  BY <1>3
<1> HIDE DEF bl, st, li
<1>6. li \in UNION {[D -> Lists] : D \in SUBSET Pages}
  BY <1>4, <1>5
<1>7. /\ Invalidated(c, S).blocks = bl /\ Invalidated(c, S).refs = c.refs
      /\ Invalidated(c, S).stale = st /\ Invalidated(c, S).lists = li
      /\ Invalidated(c, S) \in Caches
  BY <1>1, <1>2, <1>6 DEF Caches
<1> QED
  BY <1>3, <1>4, <1>7 DEF bl, st

LEMMA InvalidatedFrees ==
  ASSUME NEW c \in Caches, NEW S \in SUBSET Unreferenced(c)
  PROVE  Frees(c, Invalidated(c, S)) /\ Invalidated(c, S).blocks = c.blocks \ S
<1> DEFINE d == Invalidated(c, S)
<1>1. /\ d \in Caches /\ d.blocks = c.blocks \ S /\ d.refs = c.refs
      /\ d.stale = [b \in Blocks |-> IF b \in S THEN {} ELSE c.stale[b]]
      /\ DOMAIN d.lists = DOMAIN c.lists
      /\ \A p \in DOMAIN c.lists :
           d.lists[p].blocks = c.lists[p].blocks \ S /\ d.lists[p].refs = c.lists[p].refs
  BY InvalidatedIs
<1> HIDE DEF d
<1>2. S \subseteq c.blocks /\ \A b \in S : c.refs[b] = 0
  BY DEF Unreferenced
<1>3. \A b \in Blocks : d.stale[b] = IF b \in c.blocks \ d.blocks THEN {} ELSE c.stale[b]
  BY <1>1, <1>2
<1>4. \A p \in Pages : HasLock(c, p) => HasLock(d, p)
  BY <1>1 DEF HasLock
<1>5. \A b \in d.blocks : \A p \in Span(b) : OnList(c, b, p) => OnList(d, b, p)
  BY <1>1 DEF OnList
<1>6. ASSUME NEW w, Agree(c, w) PROVE Agree(d, w)
  <2>1. ListedCached(d)
    BY <1>1, <1>6 DEF Agree, ListedCached
  <2>2. CachedListed(d, w)
    BY <1>1, <1>5, <1>6 DEF Agree, CachedListed
  <2> QED
    BY <2>1, <2>2 DEF Agree
<1>7. \A b \in c.blocks : c.refs[b] > 0 => b \in d.blocks
  BY <1>1, <1>2
<1> QED
  BY <1>1, <1>3, <1>4, <1>5, <1>6, <1>7 DEF Frees, d

(* invalidate_page frees unreferenced blocks only, and if none of them is  *)
(* referenced the page has none left.                                      *)
LEMMA PageInvalidatedIs ==
  ASSUME NEW c \in Caches, NEW p, NEW d \in PageInvalidated(c, p)
  PROVE  /\ Frees(c, d)
         /\ Agree(c, None) /\ (\A b \in Blocks : c.refs[b] = 0) =>
              \A b \in d.blocks : p \notin Span(b)
<1>1. CASE p \notin DOMAIN c.lists
  <2>1. d = c
    BY <1>1 DEF PageInvalidated
  <2>2. Agree(c, None) => \A b \in c.blocks : p \notin Span(b)
    BY <1>1, ListsTyped, PagesAssumption DEF Agree, CachedListed, OnList
  <2> QED
    BY <2>1, <2>2, FreesNothing
<1>2. CASE p \in DOMAIN c.lists
  <2> DEFINE listed == c.lists[p].blocks
             idle == listed \cap Unreferenced(c)
  <2>1. idle \in SUBSET Unreferenced(c)
    OBVIOUS
  <2>2. CASE idle = listed
    <3>1. d = Invalidated(c, listed) /\ listed \in SUBSET Unreferenced(c)
      BY <1>2, <2>2 DEF PageInvalidated
    <3>2. Frees(c, d) /\ d.blocks = c.blocks \ listed
      BY <3>1, InvalidatedFrees
    <3>3. Agree(c, None) => \A b \in d.blocks : p \notin Span(b)
      BY <3>2, ListsTyped, PagesAssumption DEF Agree, CachedListed, OnList
    <3> QED
      BY <3>2, <3>3
  <2>3. CASE idle # listed
    <3>1. PICK S \in SUBSET idle : d = Invalidated(c, S)
      BY <1>2, <2>3 DEF PageInvalidated
    <3>2. Frees(c, d)
      BY <2>1, <3>1, InvalidatedFrees
    <3>3. ~(Agree(c, None) /\ \A b \in Blocks : c.refs[b] = 0)
      BY <1>2, <2>3, ListsTyped DEF Agree, ListedCached, Unreferenced, Lists
    <3> QED
      BY <3>2, <3>3
  <2> QED
    BY <2>2, <2>3
<1> QED
  BY <1>1, <1>2

(* invalidate_smc: nothing that spans a page it was asked for is left. *)
LEMMA PagesInvalidatedIs ==
  ASSUME NEW c \in Caches, NEW S \in SUBSET Pages, NEW e \in PagesInvalidated(c, S)
  PROVE  /\ Frees(c, e)
         /\ Agree(c, None) /\ (\A b \in Blocks : c.refs[b] = 0) =>
              \A q \in S : (\A r \in S : q <= r) =>
                \A b \in e.blocks : q \notin Span(b) /\ q + 1 \notin Span(b)
<1>1. CASE S = {}
  BY <1>1, FreesNothing DEF PagesInvalidated
<1>2. CASE S # {}
  <2> DEFINE p == CHOOSE q \in S : \A r \in S : q <= r
  <2>1. PICK d \in PageInvalidated(c, p) : e \in PageInvalidated(d, p + 1)
    BY <1>2 DEF PagesInvalidated
  <2>2. ASSUME NEW q \in S, \A r \in S : q <= r PROVE q = p
    <3>1. p \in S /\ \A r \in S : p <= r
      BY <2>2
    <3> HIDE DEF p
    <3> QED
      BY <2>2, <3>1, PagesAssumption
  <2> HIDE DEF p
  <2>3. Frees(c, d)
    BY <2>1, PageInvalidatedIs
  <2>4. d \in Caches
    BY <2>3 DEF Frees
  <2>5. Frees(d, e)
    BY <2>1, <2>4, PageInvalidatedIs
  <2>6. Frees(c, e)
    BY <2>3, <2>5, FreesTrans
  <2>7. ASSUME Agree(c, None), \A b \in Blocks : c.refs[b] = 0
        PROVE  \A b \in e.blocks : p \notin Span(b) /\ p + 1 \notin Span(b)
    <3>1. \A b \in d.blocks : p \notin Span(b)
      BY <2>1, <2>7, PageInvalidatedIs
    <3>2. Agree(d, None) /\ \A b \in Blocks : d.refs[b] = 0
      BY <2>3, <2>7 DEF Frees
    <3>3. \A b \in e.blocks : p + 1 \notin Span(b)
      BY <2>1, <2>4, <3>2, PageInvalidatedIs
    <3>4. e.blocks \subseteq d.blocks
      BY <2>5 DEF Frees
    <3> QED
      BY <3>1, <3>3, <3>4
  <2> QED
    BY <2>2, <2>6, <2>7
<1> QED
  BY <1>1, <1>2

--------------------------------------------------------------------------------
(* The operations of a translation: blocks and references stay, lists only *)
(* grow, and locks on pages outside U are kept.                            *)
Keeps(c, d, U) ==
  /\ d \in Caches
  /\ d.blocks = c.blocks /\ d.refs = c.refs /\ d.stale = c.stale
  /\ \A b \in Blocks : \A p \in Pages : OnList(c, b, p) => OnList(d, b, p)
  /\ \A p \in Pages \ U : HasLock(c, p) => HasLock(d, p)
  /\ \A w : Agree(c, w) => Agree(d, w)

LEMMA KeepsTrans ==
  ASSUME NEW c, NEW d, NEW e, NEW U, NEW V, Keeps(c, d, U), Keeps(d, e, V)
  PROVE  Keeps(c, e, U \cup V)
BY DEF Keeps

(* Setting the lists of a cache. *)
LEMMA SetLists ==
  ASSUME NEW c \in Caches, NEW D \in SUBSET Pages, NEW f \in [D -> Lists]
  PROVE  /\ [c EXCEPT !.lists = f] \in Caches
         /\ [c EXCEPT !.lists = f].lists = f
         /\ [c EXCEPT !.lists = f].blocks = c.blocks /\ [c EXCEPT !.lists = f].refs = c.refs
         /\ [c EXCEPT !.lists = f].stale = c.stale
<1>1. f \in UNION {[E -> Lists] : E \in SUBSET Pages}
  BY ListsFrom
<1> QED
  BY <1>1 DEF Caches

LEMMA LockedIs ==
  ASSUME NEW c \in Caches, NEW p \in Pages
  PROVE  Keeps(c, Locked(c, p), {}) /\ HasLock(Locked(c, p), p)
<1> DEFINE f == [q \in (DOMAIN c.lists) \cup {p} |->
                   IF q # p THEN c.lists[q]
                   ELSE IF p \in DOMAIN c.lists THEN [c.lists[p] EXCEPT !.refs = @ + 1]
                   ELSE [blocks |-> {}, refs |-> 1]]
           d == Locked(c, p)
<1>1. d = [c EXCEPT !.lists = f]
  BY DEF Locked, Caches
<1>2. \A q \in DOMAIN c.lists : c.lists[q] \in Lists
  BY ListsTyped
<1>3. p \in DOMAIN c.lists =>
        LET l == [c.lists[p] EXCEPT !.refs = @ + 1]
        IN  l \in Lists /\ l.blocks = c.lists[p].blocks /\ l.refs > 0
  <2> SUFFICES ASSUME p \in DOMAIN c.lists
               PROVE  LET l == [c.lists[p] EXCEPT !.refs = @ + 1]
                      IN  l \in Lists /\ l.blocks = c.lists[p].blocks /\ l.refs > 0
    OBVIOUS
  <2>1. c.lists[p] \in Lists
    BY <1>2
  <2> QED
    BY <2>1 DEF Lists
<1>4. p \notin DOMAIN c.lists => [blocks |-> {}, refs |-> 1] \in Lists
  BY DEF Lists
<1>5. /\ f \in [(DOMAIN c.lists) \cup {p} -> Lists]
      /\ (DOMAIN c.lists) \cup {p} \in SUBSET Pages
  BY <1>2, <1>3, <1>4, ListsTyped
<1>6. /\ DOMAIN f = (DOMAIN c.lists) \cup {p}
      /\ \A q \in DOMAIN c.lists : f[q].blocks = c.lists[q].blocks /\ (q # p => f[q] = c.lists[q])
      /\ p \notin DOMAIN c.lists => f[p].blocks = {}
      /\ f[p].refs > 0
  BY <1>3
<1> HIDE DEF f
<1>7. /\ d \in Caches /\ d.lists = f
      /\ d.blocks = c.blocks /\ d.refs = c.refs /\ d.stale = c.stale
  BY <1>1, <1>5, SetLists
<1> HIDE DEF d
<1>8. \A b \in Blocks : \A q \in Pages : OnList(c, b, q) => OnList(d, b, q)
  BY <1>6, <1>7 DEF OnList
<1>9. HasLock(d, p) /\ \A q \in Pages : HasLock(c, q) => HasLock(d, q)
  BY <1>6, <1>7 DEF HasLock
<1>10. ASSUME NEW w, Agree(c, w) PROVE Agree(d, w)
  <2>1. ListedCached(d)
    BY <1>6, <1>7, <1>10 DEF Agree, ListedCached
  <2>2. CachedListed(d, w)
    <3>1. d.blocks \subseteq Blocks /\ \A b \in d.blocks : Span(b) \subseteq Pages
      BY <1>7, PagesAssumption DEF Caches, Span
    <3> QED
      BY <1>7, <1>8, <1>10, <3>1 DEF Agree, CachedListed
  <2> QED
    BY <2>1, <2>2 DEF Agree
<1> QED
  BY <1>7, <1>8, <1>9, <1>10 DEF Keeps, d

LEMMA UnlockedIs ==
  ASSUME NEW c \in Caches, NEW p \in Pages, HasLock(c, p)
  PROVE  Keeps(c, Unlocked(c, p), {p})
<1> DEFINE l == [c.lists[p] EXCEPT !.refs = @ - 1]
           f == [c.lists EXCEPT ![p] = l]
           d == Unlocked(c, p)
<1>1. p \in DOMAIN c.lists /\ c.lists[p] \in Lists /\ c.lists[p].refs > 0
  BY ListsTyped DEF HasLock
<1>2. d = [c EXCEPT !.lists = f]
  BY DEF Unlocked, Caches
<1>3. l \in Lists /\ l.blocks = c.lists[p].blocks
  BY <1>1 DEF Lists
<1> HIDE DEF l
<1>4. DOMAIN c.lists \in SUBSET Pages /\ c.lists \in [DOMAIN c.lists -> Lists]
  BY ListsTyped
<1>5. f \in [DOMAIN c.lists -> Lists]
  BY <1>3, <1>4
<1>6. /\ DOMAIN f = DOMAIN c.lists
      /\ \A q \in DOMAIN c.lists : f[q].blocks = c.lists[q].blocks /\ (q # p => f[q] = c.lists[q])
  BY <1>3, <1>4
<1> HIDE DEF f
<1>7. /\ d \in Caches /\ d.lists = f
      /\ d.blocks = c.blocks /\ d.refs = c.refs /\ d.stale = c.stale
  BY <1>2, <1>4, <1>5, SetLists
<1> HIDE DEF d
<1>8. \A b \in Blocks : \A q \in Pages : OnList(c, b, q) => OnList(d, b, q)
  BY <1>6, <1>7 DEF OnList
<1>9. \A q \in Pages \ {p} : HasLock(c, q) => HasLock(d, q)
  BY <1>6, <1>7 DEF HasLock
<1>10. ASSUME NEW w, Agree(c, w) PROVE Agree(d, w)
  <2>1. ListedCached(d)
    BY <1>6, <1>7, <1>10 DEF Agree, ListedCached
  <2>2. CachedListed(d, w)
    <3>1. d.blocks \subseteq Blocks /\ \A b \in d.blocks : Span(b) \subseteq Pages
      BY <1>7, PagesAssumption DEF Caches, Span
    <3> QED
      BY <1>7, <1>8, <1>10, <3>1 DEF Agree, CachedListed
  <2> QED
    BY <2>1, <2>2 DEF Agree
<1> QED
  BY <1>7, <1>8, <1>9, <1>10 DEF Keeps, d

LEMMA ListedIs ==
  ASSUME NEW c \in Caches, NEW p \in Pages, HasLock(c, p),
         NEW x \in c.blocks, p \in Span(x)
  PROVE  /\ Keeps(c, Listed(c, p, x), {})
         /\ OnList(Listed(c, p, x), x, p)
<1> DEFINE l == [c.lists[p] EXCEPT !.blocks = @ \cup {x}]
           f == [c.lists EXCEPT ![p] = l]
           d == Listed(c, p, x)
<1>0. x \in Blocks
  BY DEF Caches
<1>1. p \in DOMAIN c.lists /\ c.lists[p] \in Lists /\ c.lists[p].refs > 0
  BY ListsTyped DEF HasLock
<1>2. d = [c EXCEPT !.lists = f]
  BY DEF Listed, Caches
<1>3. l \in Lists /\ l.blocks = c.lists[p].blocks \cup {x} /\ l.refs = c.lists[p].refs
  BY <1>0, <1>1 DEF Lists
<1> HIDE DEF l
<1>4. DOMAIN c.lists \in SUBSET Pages /\ c.lists \in [DOMAIN c.lists -> Lists]
  BY ListsTyped
<1>5. f \in [DOMAIN c.lists -> Lists]
  BY <1>3, <1>4
<1>6. /\ DOMAIN f = DOMAIN c.lists
      /\ f[p].blocks = c.lists[p].blocks \cup {x} /\ f[p].refs = c.lists[p].refs
      /\ \A q \in DOMAIN c.lists : q # p => f[q] = c.lists[q]
  BY <1>1, <1>3, <1>4
<1> HIDE DEF f
<1>7. /\ d \in Caches /\ d.lists = f
      /\ d.blocks = c.blocks /\ d.refs = c.refs /\ d.stale = c.stale
  BY <1>2, <1>4, <1>5, SetLists
<1> HIDE DEF d
<1>8. \A b \in Blocks : \A q \in Pages : OnList(c, b, q) => OnList(d, b, q)
  BY <1>6, <1>7 DEF OnList
<1>9. \A q \in Pages : HasLock(c, q) => HasLock(d, q)
  BY <1>6, <1>7 DEF HasLock
<1>10. ASSUME NEW w, Agree(c, w) PROVE Agree(d, w)
  <2>1. ListedCached(d)
    BY <1>6, <1>7, <1>10 DEF Agree, ListedCached
  <2>2. CachedListed(d, w)
    <3>1. d.blocks \subseteq Blocks /\ \A b \in d.blocks : Span(b) \subseteq Pages
      BY <1>7, PagesAssumption DEF Caches, Span
    <3> QED
      BY <1>7, <1>8, <1>10, <3>1 DEF Agree, CachedListed
  <2> QED
    BY <2>1, <2>2 DEF Agree
<1>11. OnList(d, x, p)
  BY <1>1, <1>6, <1>7 DEF OnList
<1> QED
  BY <1>7, <1>8, <1>9, <1>10, <1>11 DEF Keeps, d

(* The lists that reclaim frees hold no block and no reference. *)
LEMMA ReclaimIs ==
  ASSUME cache \in Caches, Reclaim
  PROVE  Frees(cache, cache')
<1>1. PICK old \in SUBSET cache.blocks :
        LET c == Invalidated(cache, old \cap Unreferenced(cache))
        IN  cache' = [c EXCEPT !.lists = RestrictValues(@, LAMBDA l : l.blocks # {} \/ l.refs > 0)]
  BY DEF Reclaim
<1> DEFINE c == Invalidated(cache, old \cap Unreferenced(cache))
           D == {p \in DOMAIN c.lists : c.lists[p].blocks # {} \/ c.lists[p].refs > 0}
           f == [p \in D |-> c.lists[p]]
<1>2. Frees(cache, c)
  <2>1. old \cap Unreferenced(cache) \in SUBSET Unreferenced(cache)
    OBVIOUS
  <2> QED
    BY <2>1, InvalidatedFrees
<1>3. c \in Caches
  BY <1>2 DEF Frees
<1> HIDE DEF c
<1>4. cache' = [c EXCEPT !.lists = f]
  BY <1>1, <1>3 DEF RestrictValues, Restrict, Caches, c
<1>5. D \in SUBSET Pages /\ f \in [D -> Lists]
  BY <1>3, ListsTyped
<1>6. /\ DOMAIN f \subseteq DOMAIN c.lists
      /\ \A p \in DOMAIN f : f[p] = c.lists[p]
      /\ \A p \in DOMAIN c.lists :
           c.lists[p].blocks # {} \/ c.lists[p].refs > 0 => p \in DOMAIN f
  OBVIOUS
<1> HIDE DEF D, f
<1>7. /\ cache' \in Caches /\ cache'.lists = f
      /\ cache'.blocks = c.blocks /\ cache'.refs = c.refs /\ cache'.stale = c.stale
  BY <1>3, <1>4, <1>5, SetLists
<1>8. \A p : HasLock(c, p) => HasLock(cache', p)
  BY <1>6, <1>7 DEF HasLock
<1>9. \A b, p : OnList(c, b, p) => OnList(cache', b, p)
  BY <1>6, <1>7 DEF OnList
<1>10. ASSUME NEW w, Agree(c, w) PROVE Agree(cache', w)
  <2>1. ListedCached(cache')
    BY <1>6, <1>7, <1>10 DEF Agree, ListedCached
  <2>2. CachedListed(cache', w)
    BY <1>7, <1>9, <1>10 DEF Agree, CachedListed
  <2> QED
    BY <2>1, <2>2 DEF Agree
<1>11. Frees(c, cache')
  BY <1>6, <1>7, <1>8, <1>9, <1>10 DEF Frees
<1> QED
  BY <1>2, <1>11, FreesTrans

(* A store only marks blocks. *)
LEMMA OverwrittenIs ==
  ASSUME NEW c \in Caches, NEW W \in SUBSET Pages
  PROVE  /\ Overwritten(c, W) \in Caches
         /\ Overwritten(c, W).blocks = c.blocks /\ Overwritten(c, W).refs = c.refs
         /\ Overwritten(c, W).lists = c.lists
         /\ \A b \in Blocks : Overwritten(c, W).stale[b] =
              c.stale[b] \cup (IF b \in c.blocks THEN Span(b) \cap W ELSE {})
<1> DEFINE st == [b \in Blocks |-> c.stale[b] \cup (IF b \in c.blocks THEN Span(b) \cap W ELSE {})]
<1>1. Overwritten(c, W) = [c EXCEPT !.stale = st]
  BY DEF Overwritten, Caches
<1>2. st \in [Blocks -> SUBSET Pages]
  BY ListsTyped, PagesAssumption DEF Span
<1> QED
  BY <1>1, <1>2 DEF Caches

(* Agreement is about blocks and lists alone. *)
LEMMA AgreeSame ==
  ASSUME NEW c, NEW d, d.blocks = c.blocks, d.lists = c.lists
  PROVE  /\ \A w : Agree(d, w) <=> Agree(c, w)
         /\ \A p : HasLock(d, p) <=> HasLock(c, p)
         /\ \A b, p : OnList(d, b, p) <=> OnList(c, b, p)
BY DEF Agree, ListedCached, CachedListed, HasLock, OnList

LEMMA EmptyCacheIs ==
  /\ EmptyCache \in Caches /\ EmptyCache.blocks = {} /\ DOMAIN EmptyCache.lists = {}
  /\ EmptyCache.refs = [b \in Blocks |-> 0] /\ EmptyCache.stale = [b \in Blocks |-> {}]
<1> DEFINE l == [p \in {} |-> 0]
<1>1. l \in [{} -> Lists] /\ {} \in SUBSET Pages /\ DOMAIN l = {}
  OBVIOUS
<1>2. l \in UNION {[D -> Lists] : D \in SUBSET Pages}
  BY <1>1, ListsFrom
<1>3. /\ [b \in Blocks |-> 0] \in [Blocks -> Nat]
      /\ [b \in Blocks |-> {}] \in [Blocks -> SUBSET Pages]
  OBVIOUS
<1>4. EmptyCache = [blocks |-> {}, refs |-> [b \in Blocks |-> 0],
                    stale |-> [b \in Blocks |-> {}], lists |-> l]
  BY DEF EmptyCache
<1> HIDE DEF l
<1> QED
  BY <1>1, <1>2, <1>3, <1>4 DEF Caches

--------------------------------------------------------------------------------
(* A translation, whoever asked for it: h counts the references that are   *)
(* not its own.                                                            *)
Steps == {"clone", "lolist", "loadd", "hilist", "hiadd", "return"}
Counted == {"lolist", "loadd", "hilist", "hiadd"}
Works == [pc : Steps \cup {"idle", "synth"}, block : Blocks \cup {None}]

Listing ==
  /\ Agree(cache, work.block)
  /\ work.pc \in {"loadd", "hilist", "hiadd"} => HasLock(cache, Lo[work.block])
  /\ work.pc = "hiadd" => HasLock(cache, Hi[work.block])
  /\ work.pc \in {"hilist", "hiadd"} => Lo[work.block] # Hi[work.block]
  /\ work.pc \in {"hilist", "hiadd", "return"} => OnList(cache, work.block, Lo[work.block])
  /\ work.pc = "return" =>
       OnList(cache, work.block, Hi[work.block]) /\ work.block \in cache.blocks

References(h) ==
  \A b \in Blocks :
    /\ cache.refs[b] = h[b] + (IF work.block = b /\ work.pc \in Counted THEN 1 ELSE 0)
    /\ cache.refs[b] > 0 => b \in cache.blocks

Translating(h) ==
  /\ cache \in Caches /\ work \in Works
  /\ work.pc \in Steps <=> work.block # None
  /\ References(h) /\ Listing

(* The block of a translation, and its reference. *)
LEMMA TranslatingIs ==
  ASSUME NEW h \in [Blocks -> Nat], Translating(h)
  PROVE  /\ cache \in Caches /\ work \in Works
         /\ work.pc \in Steps => work.block \in Blocks
         /\ work.pc \in Counted => cache.refs[work.block] > 0 /\ work.block \in cache.blocks
<1>1. work.pc \in Steps => work.block \in Blocks
  BY DEF Translating, Works
<1>2. ASSUME work.pc \in Counted
      PROVE  cache.refs[work.block] > 0 /\ work.block \in cache.blocks
  <2>1. work.block \in Blocks /\ h[work.block] \in Nat
    BY <1>1, <1>2 DEF Counted, Steps
  <2> QED
    BY <1>2, <2>1 DEF Translating, References
<1> QED
  BY <1>1, <1>2 DEF Translating

(* A reclaim in between any two of its steps. *)
LEMMA TranslatingReclaim ==
  ASSUME NEW h \in [Blocks -> Nat], Translating(h), Reclaim
  PROVE  Translating(h)' /\ Frees(cache, cache')
<1>1. Frees(cache, cache') /\ UNCHANGED <<dirty, work>>
  BY TranslatingIs, ReclaimIs DEF Reclaim
<1>2. cache' \in Caches
  BY <1>1 DEF Frees
<1>3. References(h)'
  <2>1. \A b \in Blocks : cache.refs[b] > 0 => b \in cache'.blocks
    BY <1>1 DEF Translating, References, Frees
  <2> QED
    BY <1>1, <2>1 DEF Translating, References, Frees
<1>4. Listing'
  <2>1. work.pc \in Steps => Lo[work.block] \in Pages /\ Hi[work.block] \in Pages
    BY TranslatingIs, PagesAssumption
  <2>2. work.pc # "return"
    BY DEF Reclaim, Allocating
  <2>3. work.pc \in Counted => work.block \in cache'.blocks
    BY <1>1, TranslatingIs DEF Frees
  <2>4. work.pc \in Counted => Lo[work.block] \in Span(work.block) /\ Hi[work.block] \in Span(work.block)
    BY DEF Span
  <2>5. work.pc \in {"hilist", "hiadd"} => OnList(cache', work.block, Lo[work.block])
    BY <1>1, <2>3, <2>4 DEF Translating, Listing, Frees, Counted
  <2>6. /\ work.pc \in {"loadd", "hilist", "hiadd"} => HasLock(cache', Lo[work.block])
        /\ work.pc = "hiadd" => HasLock(cache', Hi[work.block])
    BY <1>1, <2>1 DEF Translating, Listing, Frees, Steps
  <2>7. Agree(cache', work.block)
    BY <1>1 DEF Translating, Listing, Frees
  <2> QED
    BY <1>1, <2>2, <2>5, <2>6, <2>7 DEF Translating, Listing
<1> QED
  BY <1>1, <1>2, <1>3, <1>4 DEF Translating

(* The block is counted before it can be found, and keeps its count until  *)
(* both lists hold it.                                                     *)
LEMMA TranslatingStep ==
  ASSUME NEW h \in [Blocks -> Nat], Translating(h), TranslateStep
  PROVE  Translating(h)' /\ dirty' = dirty /\ work.pc \in Steps
<1> DEFINE b == work.block
<1>0. /\ cache \in Caches /\ work.pc \in Steps /\ b \in Blocks
      /\ Lo[b] \in Pages /\ Hi[b] \in Pages /\ Span(b) = {Lo[b], Hi[b]}
      /\ Agree(cache, b) /\ h[b] \in Nat
  <2>1. work.pc \in Steps
    BY DEF TranslateStep, Insert, LockLo, AddLo, LockHi, AddHi, Steps
  <2>2. b \in Blocks
    BY <2>1, TranslatingIs
  <2> QED
    BY <2>1, <2>2, PagesAssumption DEF Translating, Listing, Span
<1>2. work.pc \in Counted => cache.refs[b] > 0 /\ b \in cache.blocks
  BY TranslatingIs
<1>3. CASE Insert
  <2> DEFINE a == Acquire(cache, b)
  <2>1. /\ a \in Caches /\ a.blocks = cache.blocks /\ a.lists = cache.lists
        /\ a.stale = cache.stale /\ a.refs = [cache.refs EXCEPT ![b] = @ + 1]
    BY <1>0, AcquireIs
  <2>2. /\ work.pc = "clone" /\ work' = [work EXCEPT !.pc = "lolist"] /\ dirty' = dirty
        /\ cache' = [a EXCEPT !.blocks = @ \cup {b}]
    BY <1>3 DEF Insert
  <2> HIDE DEF a
  <2>3. /\ cache' \in Caches /\ cache'.blocks = cache.blocks \cup {b}
        /\ cache'.lists = cache.lists /\ cache'.refs = [cache.refs EXCEPT ![b] = @ + 1]
    BY <1>0, <2>1, <2>2 DEF Caches
  <2>4. work'.pc = "lolist" /\ work'.block = b
    BY <2>2 DEF Translating, Works
  <2>5. (cache \in Caches /\ work \in Works)'
    BY <1>0, <2>2, <2>3 DEF Translating, Works, Steps
  <2>6. (work.pc \in Steps <=> work.block # None)'
    BY <1>0, <2>4 DEF Translating, Steps
  <2>7. References(h)'
    <3>1. cache.refs \in [Blocks -> Nat] /\ \A x \in Blocks : h[x] \in Nat
      BY <1>0 DEF Caches
    <3>2. cache.refs[b] = h[b]
      BY <1>0, <2>2, <3>1 DEF Translating, References, Counted
    <3> QED
      BY <1>0, <2>2, <2>3, <2>4, <3>1, <3>2 DEF Translating, References, Counted
  <2>8. Agree(cache', b)
    BY <1>0, <2>3 DEF Agree, ListedCached, CachedListed, OnList
  <2>9. Listing'
    BY <2>4, <2>8 DEF Listing
  <2> QED
    BY <1>0, <2>2, <2>5, <2>6, <2>7, <2>9 DEF Translating
<1>4. CASE LockLo
  <2>1. /\ work.pc = "lolist" /\ work' = [work EXCEPT !.pc = "loadd"] /\ dirty' = dirty
        /\ cache' = Locked(cache, Lo[b])
    BY <1>4 DEF LockLo
  <2>2. Keeps(cache, cache', {}) /\ HasLock(cache', Lo[b])
    BY <1>0, <2>1, LockedIs
  <2>3. work'.pc = "loadd" /\ work'.block = b
    BY <2>1 DEF Translating, Works
  <2>4. (cache \in Caches /\ work \in Works)'
    BY <2>1, <2>2 DEF Translating, Works, Keeps, Steps
  <2>5. (work.pc \in Steps <=> work.block # None)'
    BY <1>0, <2>3 DEF Translating, Steps
  <2>6. References(h)'
    BY <2>1, <2>2, <2>3 DEF Translating, References, Keeps, Counted
  <2>7. Listing'
    BY <1>0, <2>2, <2>3 DEF Listing, Keeps
  <2> QED
    BY <1>0, <2>1, <2>4, <2>5, <2>6, <2>7 DEF Translating
<1>5. CASE LockHi
  <2>1. /\ work.pc = "hilist" /\ work' = [work EXCEPT !.pc = "hiadd"] /\ dirty' = dirty
        /\ cache' = Locked(cache, Hi[b])
    BY <1>5 DEF LockHi
  <2>2. Keeps(cache, cache', {}) /\ HasLock(cache', Hi[b])
    BY <1>0, <2>1, LockedIs
  <2>3. work'.pc = "hiadd" /\ work'.block = b
    BY <2>1 DEF Translating, Works
  <2>4. (cache \in Caches /\ work \in Works)'
    BY <2>1, <2>2 DEF Translating, Works, Keeps, Steps
  <2>5. (work.pc \in Steps <=> work.block # None)'
    BY <1>0, <2>3 DEF Translating, Steps
  <2>6. References(h)'
    BY <2>1, <2>2, <2>3 DEF Translating, References, Keeps, Counted
  <2>7. HasLock(cache, Lo[b]) /\ Lo[b] # Hi[b] /\ OnList(cache, b, Lo[b])
    BY <2>1 DEF Translating, Listing
  <2>8. Listing'
    BY <1>0, <2>2, <2>3, <2>7 DEF Listing, Keeps
  <2> QED
    BY <1>0, <2>1, <2>4, <2>5, <2>6, <2>8 DEF Translating
<1>6. ASSUME NEW d, d \in Caches, NEW U, Keeps(cache, d, U), HasLock(d, Lo[b]),
             OnList(d, b, Lo[b]), OnList(d, b, Hi[b]), b \in d.blocks, work.pc \in Counted,
             cache' = Finished(d, b), work' = [work EXCEPT !.pc = "return"], dirty' = dirty
      PROVE  Translating(h)' /\ dirty' = dirty
  <2> DEFINE e == Unlocked(d, Lo[b])
  <2>1. Keeps(d, e, {Lo[b]})
    BY <1>0, <1>6, UnlockedIs
  <2>2. e \in Caches /\ e.refs = cache.refs /\ e.blocks = cache.blocks /\ e.stale = cache.stale
        /\ Agree(e, b) /\ OnList(e, b, Lo[b]) /\ OnList(e, b, Hi[b])
    BY <1>0, <1>6, <2>1 DEF Keeps
  <2>3. cache' = Release(e, b) /\ b # None
    BY <1>0, <1>6, PagesAssumption DEF Finished
  <2> HIDE DEF e
  <2>4. /\ cache' \in Caches /\ cache'.blocks = e.blocks /\ cache'.lists = e.lists
        /\ \A x \in Blocks : cache'.refs[x] = e.refs[x] - (IF x = b THEN 1 ELSE 0)
    BY <1>0, <1>2, <1>6, <2>2, <2>3, ReleaseIs
  <2>5. Agree(cache', b) /\ OnList(cache', b, Lo[b]) /\ OnList(cache', b, Hi[b])
    BY <2>2, <2>4, AgreeSame
  <2>6. work'.pc = "return" /\ work'.block = b /\ work' \in Works
    BY <1>6 DEF Translating, Works, Steps
  <2>7. (cache \in Caches /\ work \in Works)'
    BY <1>6, <2>4, <2>6 DEF Translating, Works
  <2>8. (work.pc \in Steps <=> work.block # None)'
    BY <1>0, <2>6 DEF Translating, Steps
  <2>9. References(h)'
    <3>1. e.refs \in [Blocks -> Nat] /\ \A x \in Blocks : h[x] \in Nat
      BY <2>2 DEF Caches
    <3> QED
      BY <1>6, <2>2, <2>4, <2>6, <3>1 DEF Translating, References, Counted
  <2>10. b \in cache'.blocks
    BY <1>2, <1>6, <2>2, <2>4
  <2>11. Listing'
    BY <2>5, <2>6, <2>10 DEF Listing
  <2> QED
    BY <1>0, <1>6, <2>7, <2>8, <2>9, <2>11 DEF Translating
<1>7. CASE AddLo
  <2> DEFINE c == Listed(cache, Lo[b], b)
  <2>1. /\ work.pc = "loadd" /\ dirty' = dirty
        /\ IF Lo[b] = Hi[b]
           THEN cache' = Finished(c, b) /\ work' = [work EXCEPT !.pc = "return"]
           ELSE cache' = c /\ work' = [work EXCEPT !.pc = "hilist"]
    BY <1>7 DEF AddLo
  <2>2. HasLock(cache, Lo[b]) /\ b \in cache.blocks /\ work.pc \in Counted
    BY <1>2, <2>1 DEF Translating, Listing, Counted
  <2>3. Keeps(cache, c, {}) /\ OnList(c, b, Lo[b])
    BY <1>0, <2>2, ListedIs
  <2> HIDE DEF c
  <2>4. HasLock(c, Lo[b]) /\ c \in Caches /\ b \in c.blocks
    BY <1>0, <2>2, <2>3 DEF Keeps
  <2>5. CASE Lo[b] = Hi[b]
    BY <1>0, <1>6, <2>1, <2>2, <2>3, <2>4, <2>5
  <2>6. CASE Lo[b] # Hi[b]
    <3>1. work'.pc = "hilist" /\ work'.block = b /\ cache' = c
      BY <2>1, <2>6 DEF Translating, Works
    <3>2. (cache \in Caches /\ work \in Works)'
      BY <2>1, <2>4, <2>6, <3>1 DEF Translating, Works, Steps
    <3>3. (work.pc \in Steps <=> work.block # None)'
      BY <1>0, <3>1 DEF Translating, Steps
    <3>4. References(h)'
      BY <2>1, <2>3, <3>1 DEF Translating, References, Keeps, Counted
    <3>5. Listing'
      BY <1>0, <2>3, <2>4, <2>6, <3>1 DEF Listing, Keeps
    <3> QED
      BY <1>0, <2>1, <3>2, <3>3, <3>4, <3>5 DEF Translating
  <2> QED
    BY <2>5, <2>6
<1>8. CASE AddHi
  <2> DEFINE c == Listed(cache, Hi[b], b)
             d == Unlocked(c, Hi[b])
  <2>1. /\ work.pc = "hiadd" /\ dirty' = dirty
        /\ cache' = Finished(d, b) /\ work' = [work EXCEPT !.pc = "return"]
    BY <1>8 DEF AddHi
  <2>2. /\ HasLock(cache, Lo[b]) /\ HasLock(cache, Hi[b]) /\ Lo[b] # Hi[b]
        /\ OnList(cache, b, Lo[b]) /\ b \in cache.blocks /\ work.pc \in Counted
    BY <1>2, <2>1 DEF Translating, Listing, Counted
  <2>3. Keeps(cache, c, {}) /\ OnList(c, b, Hi[b])
    BY <1>0, <2>2, ListedIs
  <2> HIDE DEF c
  <2>4. HasLock(c, Lo[b]) /\ HasLock(c, Hi[b]) /\ OnList(c, b, Lo[b]) /\ c \in Caches
    BY <1>0, <2>2, <2>3 DEF Keeps
  <2>5. Keeps(c, d, {Hi[b]})
    BY <1>0, <2>4, UnlockedIs
  <2> HIDE DEF d
  <2>6. /\ HasLock(d, Lo[b]) /\ OnList(d, b, Lo[b]) /\ OnList(d, b, Hi[b])
        /\ d \in Caches /\ b \in d.blocks
    BY <1>0, <2>2, <2>3, <2>4, <2>5 DEF Keeps
  <2>7. Keeps(cache, d, {} \cup {Hi[b]})
    BY <2>3, <2>5, KeepsTrans
  <2> QED
    BY <1>0, <1>6, <2>1, <2>2, <2>6, <2>7
<1> QED
  BY <1>0, <1>3, <1>4, <1>5, <1>7, <1>8 DEF TranslateStep

(* What is stale is dirty, in a cache that is invalidated in time. *)
StaleIsDirty ==
  \A b \in Blocks :
    /\ cache.stale[b] \subseteq dirty \cap Span(b)
    /\ b \notin cache.blocks => cache.stale[b] = {}

(* Nothing but a store and an invalidation touches what is stale. *)
Shaped(c) == DOMAIN c = {"blocks", "refs", "stale", "lists"}
Same(c, d) == Shaped(d) /\ d.stale = c.stale /\ d.blocks = c.blocks

LEMMA SameStale ==
  ASSUME NEW c, Shaped(c), NEW p, NEW b
  PROVE  /\ Same(c, Acquire(c, b)) /\ Same(c, Release(c, b)) /\ Same(c, Listed(c, p, b))
         /\ Same(c, Locked(c, p)) /\ Same(c, Unlocked(c, p))
BY DEF Shaped, Same, Acquire, Release, Listed, Locked, Unlocked

LEMMA TranslateStale ==
  ASSUME cache \in Caches, StaleIsDirty, TranslateStep
  PROVE  StaleIsDirty'
<1>1. Shaped(cache)
  BY DEF Caches, Shaped
<1>2. dirty' = dirty
  BY DEF TranslateStep, Insert, LockLo, AddLo, LockHi, AddHi
<1>3. CASE Insert
  <2> DEFINE a == Acquire(cache, work.block)
  <2>1. Same(cache, a) /\ cache' = [a EXCEPT !.blocks = @ \cup {work.block}]
    BY <1>1, <1>3, SameStale DEF Insert
  <2> HIDE DEF a
  <2>2. cache'.stale = cache.stale /\ cache.blocks \subseteq cache'.blocks
    BY <2>1 DEF Same, Shaped
  <2> QED
    BY <1>2, <2>2 DEF StaleIsDirty
<1>4. ASSUME Same(cache, cache') PROVE StaleIsDirty'
  BY <1>2, <1>4 DEF StaleIsDirty, Same
<1>5. ASSUME NEW d, Same(cache, d), NEW b PROVE Same(cache, Finished(d, b))
  <2>1. Same(d, Unlocked(d, Lo[b]))
    BY <1>5, SameStale DEF Same
  <2>2. Same(Unlocked(d, Lo[b]), Finished(d, b))
    BY <2>1, SameStale DEF Same, Finished
  <2> QED
    BY <1>5, <2>1, <2>2 DEF Same
<1>6. CASE LockLo \/ LockHi
  BY <1>1, <1>4, <1>6, SameStale DEF LockLo, LockHi
<1>7. CASE AddLo
  <2>1. Same(cache, Listed(cache, Lo[work.block], work.block))
    BY <1>1, SameStale
  <2> QED
    BY <1>4, <1>5, <1>7, <2>1 DEF AddLo
<1>8. CASE AddHi
  <2> DEFINE d == Listed(cache, Hi[work.block], work.block)
  <2>1. Same(cache, d)
    BY <1>1, SameStale
  <2>2. Same(d, Unlocked(d, Hi[work.block]))
    BY <2>1, SameStale DEF Same
  <2>3. Same(cache, Unlocked(d, Hi[work.block]))
    BY <2>1, <2>2 DEF Same
  <2> QED
    BY <1>4, <1>5, <1>8, <2>3 DEF AddHi
<1> QED
  BY <1>3, <1>6, <1>7, <1>8 DEF TranslateStep

(* Unreferenced blocks leave a cache with nothing more stale than before. *)
LEMMA FreesStale ==
  ASSUME StaleIsDirty, NEW c, c.stale = cache.stale, c.blocks = cache.blocks,
         Frees(c, cache'), dirty' = dirty
  PROVE  StaleIsDirty'
BY DEF StaleIsDirty, Frees

--------------------------------------------------------------------------------
(***************************************************************************)
(* The sequential core                                                     *)
(***************************************************************************)

(* It holds no reference, and a block may be freed under it; what has been *)
(* overwritten of it is dirty, as whatever is stale in the cache is.       *)
Unheld == [b \in Blocks |-> 0]

SeqInv ==
  /\ Translating(Unheld)
  /\ StaleIsDirty /\ dirty \subseteq Pages
  /\ current_bb \in Blocks \cup {None}
  /\ current_bb # None => work.pc \in {"idle", "synth"}
  /\ overwritten \subseteq dirty

LEMMA UnheldIs == Unheld \in [Blocks -> Nat]
BY DEF Unheld

(* Between translations nothing is referenced and the lists are complete. *)
LEMMA SeqIdle ==
  ASSUME SeqInv, work.pc = "idle"
  PROVE  /\ cache \in Caches /\ work.block = None /\ work = [pc |-> "idle", block |-> None]
         /\ Agree(cache, None) /\ \A b \in Blocks : cache.refs[b] = 0
<1>1. /\ cache \in Caches /\ work \in Works /\ work.block = None
      /\ References(Unheld) /\ Listing
  BY DEF SeqInv, Translating, Steps
<1>2. work = [pc |-> "idle", block |-> None]
  BY <1>1 DEF Works
<1>3. \A b \in Blocks : cache.refs[b] = 0
  BY <1>1 DEF References, Unheld, Counted
<1> QED
  BY <1>1, <1>2, <1>3 DEF Listing

LEMMA SeqInvInit == SeqInit => SeqInv
<1> SUFFICES ASSUME SeqInit PROVE SeqInv
  OBVIOUS
<1>1. /\ cache = EmptyCache /\ work = [pc |-> "idle", block |-> None]
      /\ dirty = {} /\ current_bb = None /\ overwritten = {}
  BY DEF SeqInit, Init, Idle
<1>2. /\ cache.blocks = {} /\ DOMAIN cache.lists = {} /\ cache \in Caches
      /\ cache.refs = [b \in Blocks |-> 0] /\ cache.stale = [b \in Blocks |-> {}]
  BY <1>1, EmptyCacheIs
<1>3. Translating(Unheld)
  <2>1. work \in Works /\ (work.pc \in Steps <=> work.block # None)
    BY <1>1 DEF Works, Steps
  <2>2. References(Unheld)
    BY <1>1, <1>2 DEF References, Unheld, Counted
  <2>3. Listing
    BY <1>1, <1>2 DEF Listing, Agree, ListedCached, CachedListed
  <2> QED
    BY <1>2, <2>1, <2>2, <2>3 DEF Translating
<1> QED
  BY <1>1, <1>2, <1>3 DEF SeqInv, StaleIsDirty

(* What the current block is and has overwritten matters to nothing else. *)
LEMMA SeqSame ==
  ASSUME Translating(Unheld), cache' = cache, work' = work
  PROVE  Translating(Unheld)'
BY DEF Translating, References, Listing, Unheld

LEMMA SeqFetchKeeps ==
  ASSUME SeqInv, NEW b \in Blocks, SeqFetch(b)
  PROVE  SeqInv'
<1>1. /\ work.pc = "idle" /\ current_bb = None /\ UNCHANGED <<cache, dirty>>
  BY DEF SeqFetch
<1>2. /\ cache \in Caches /\ Agree(cache, None) /\ \A x \in Blocks : cache.refs[x] = 0
  BY <1>1, SeqIdle
<1>3. CASE b \in cache.blocks
  <2>1. current_bb' = b /\ overwritten' = cache.stale[b] /\ work' = work
    BY <1>3 DEF SeqFetch
  <2>2. cache.stale[b] \subseteq dirty
    BY DEF SeqInv, StaleIsDirty
  <2>3. Translating(Unheld)'
    BY <1>1, <2>1, SeqSame DEF SeqInv
  <2> QED
    BY <1>1, <2>1, <2>2, <2>3 DEF SeqInv, StaleIsDirty
<1>4. CASE b \notin cache.blocks
  <2>1. work' = [pc |-> "clone", block |-> b] /\ UNCHANGED <<current_bb, overwritten>>
    BY <1>4 DEF SeqFetch
  <2>2. work' \in Works /\ work'.pc = "clone" /\ work'.block = b /\ b # None
    BY <2>1, PagesAssumption DEF Works, Steps
  <2>3. References(Unheld)'
    BY <1>1, <1>2, <2>2 DEF References, Unheld, Counted
  <2>4. Agree(cache, b)
    <3>1. None \notin cache.blocks
      BY <1>2, ListsTyped, PagesAssumption
    <3> QED
      BY <1>2, <3>1 DEF Agree, CachedListed
  <2>5. Translating(Unheld)'
    BY <1>1, <1>2, <2>2, <2>3, <2>4 DEF Translating, Listing, Steps
  <2> QED
    BY <1>1, <2>1, <2>5 DEF SeqInv, StaleIsDirty
<1> QED
  BY <1>3, <1>4

LEMMA TakeKeeps == ASSUME SeqInv, Take PROVE SeqInv'
<1> DEFINE b == work.block
<1>1. /\ work.pc = "return" /\ current_bb' = b /\ overwritten' = {}
      /\ work' = [pc |-> "synth", block |-> None] /\ UNCHANGED <<cache, dirty>>
  BY DEF Take
<1>2. b \in Blocks /\ cache \in Caches /\ References(Unheld) /\ Listing
  BY <1>1, TranslatingIs, UnheldIs DEF SeqInv, Translating, Steps
<1>3. Agree(cache, None)
  BY <1>1, <1>2 DEF Listing, Agree, CachedListed, Span
<1>4. work' \in Works /\ work'.pc = "synth" /\ work'.block = None
  BY <1>1 DEF Works
<1>5. References(Unheld)'
  BY <1>1, <1>2, <1>4 DEF References, Unheld, Counted
<1>6. Translating(Unheld)'
  BY <1>1, <1>2, <1>3, <1>4, <1>5 DEF Translating, Listing, Steps
<1> QED
  BY <1>1, <1>2, <1>4, <1>6 DEF SeqInv, StaleIsDirty

LEMMA SeqSynthesizeKeeps == ASSUME SeqInv, SeqSynthesize PROVE SeqInv'
<1>1. /\ work.pc = "synth" /\ work' = [pc |-> "idle", block |-> None]
      /\ UNCHANGED <<cache, dirty, current_bb, overwritten>>
  BY DEF SeqSynthesize, Idle
<1>2. /\ cache \in Caches /\ work.block = None /\ References(Unheld) /\ Agree(cache, None)
  BY <1>1 DEF SeqInv, Translating, Listing, Steps
<1>3. work' \in Works /\ work'.pc = "idle" /\ work'.block = None
  BY <1>1 DEF Works
<1>4. References(Unheld)'
  BY <1>1, <1>2, <1>3 DEF References, Unheld, Counted
<1>5. Translating(Unheld)'
  BY <1>1, <1>2, <1>3, <1>4 DEF Translating, Listing, Steps
<1> QED
  BY <1>1, <1>3, <1>5 DEF SeqInv, StaleIsDirty

(* The pages whose dirty bits the check clears have no translation left. *)
LEMMA SeqDetectKeeps ==
  ASSUME \A b \in Blocks : Hi[b] \in {Lo[b], Lo[b] + 1}, SeqInv, SeqDetectSMC
  PROVE  SeqInv'
<1> DEFINE b == current_bb
<1>1. /\ work.pc = "idle" /\ b # None /\ current_bb' = None /\ overwritten' = {} /\ work' = work
  BY DEF SeqDetectSMC, Executing
<1>2. PICK pages \in Watched :
        /\ cache' \in (IF pages = {Lo[b]} THEN PageInvalidated(cache, Lo[b])
                       ELSE PagesInvalidated(cache, pages))
        /\ dirty' = dirty \ pages
  BY DEF SeqDetectSMC
<1>3. /\ b \in Blocks /\ Lo[b] \in Pages /\ Hi[b] \in Pages /\ Lo[b] \in Nat
      /\ Hi[b] \in {Lo[b], Lo[b] + 1}
  BY <1>1, PagesAssumption DEF SeqInv
<1>4. /\ cache \in Caches /\ Agree(cache, None) /\ \A x \in Blocks : cache.refs[x] = 0
      /\ work.block = None
  BY <1>1, SeqIdle
<1>5. Frees(cache, cache') /\ \A x \in cache'.blocks : Span(x) \cap pages = {}
  <2>1. CASE pages = {Lo[b]}
    <3>1. cache' \in PageInvalidated(cache, Lo[b])
      BY <1>2, <2>1
    <3> QED
      BY <1>4, <2>1, <3>1, PageInvalidatedIs
  <2>2. CASE pages # {Lo[b]}
    <3>1. pages = {Lo[b], Lo[b] + 1} /\ pages \in SUBSET Pages
      BY <1>2, <1>3, <2>2 DEF Watched, Span
    <3>2. cache' \in PagesInvalidated(cache, pages)
      BY <1>2, <2>2
    <3>3. Lo[b] \in pages /\ \A r \in pages : Lo[b] <= r
      BY <1>3, <3>1
    <3>4. Frees(cache, cache')
      BY <1>4, <3>1, <3>2, PagesInvalidatedIs
    <3>5. \A x \in cache'.blocks : Lo[b] \notin Span(x) /\ Lo[b] + 1 \notin Span(x)
      BY <1>4, <3>1, <3>2, <3>3, PagesInvalidatedIs
    <3> QED
      BY <3>1, <3>4, <3>5
  <2> QED
    BY <2>1, <2>2
<1>6. /\ cache' \in Caches /\ Agree(cache', None) /\ \A x \in Blocks : cache'.refs[x] = 0
  BY <1>4, <1>5 DEF Frees
<1>7. Translating(Unheld)'
  <2>1. work \in Works /\ work.block = None /\ (work.pc \in Steps <=> work.block # None)
    BY <1>4 DEF SeqInv, Translating
  <2>2. References(Unheld)'
    BY <1>1, <1>6 DEF References, Unheld, Counted
  <2>3. Listing'
    BY <1>1, <1>6, <2>1 DEF Listing
  <2> QED
    BY <1>1, <1>6, <2>1, <2>2, <2>3 DEF Translating
<1>8. StaleIsDirty'
  <2> SUFFICES ASSUME NEW x \in Blocks
               PROVE  /\ cache'.stale[x] \subseteq dirty' \cap Span(x)
                      /\ x \notin cache'.blocks => cache'.stale[x] = {}
    BY DEF StaleIsDirty
  <2>1. cache.stale[x] \subseteq dirty \cap Span(x) /\ (x \notin cache.blocks => cache.stale[x] = {})
    BY DEF SeqInv, StaleIsDirty
  <2>2. cache'.stale[x] = IF x \in cache.blocks \ cache'.blocks THEN {} ELSE cache.stale[x]
    BY <1>5 DEF Frees
  <2>3. x \notin cache'.blocks => cache'.stale[x] = {}
    BY <2>1, <2>2
  <2>4. x \in cache'.blocks => cache'.stale[x] \subseteq (dirty \ pages) \cap Span(x)
    BY <1>5, <2>1, <2>2
  <2> QED
    BY <1>2, <2>3, <2>4
<1> QED
  BY <1>1, <1>2, <1>7, <1>8 DEF SeqInv

LEMMA ExecuteUopKeeps == ASSUME SeqInv, ExecuteUop PROVE SeqInv'
<1>1. PICK W \in {{}} \cup {{p} : p \in Pages} :
        /\ cache' = Overwritten(cache, W) /\ dirty' = dirty \cup W
        /\ overwritten' = overwritten \cup (Span(current_bb) \cap W)
  BY DEF ExecuteUop
<1>2. W \in SUBSET Pages /\ UNCHANGED <<work, current_bb>> /\ work.pc = "idle"
  BY DEF ExecuteUop, Executing
<1>3. /\ cache \in Caches /\ Agree(cache, None) /\ \A x \in Blocks : cache.refs[x] = 0
      /\ work.block = None
  BY <1>2, SeqIdle
<1>4. /\ cache' \in Caches /\ cache'.blocks = cache.blocks /\ cache'.refs = cache.refs
      /\ cache'.lists = cache.lists
      /\ \A b \in Blocks : cache'.stale[b] =
           cache.stale[b] \cup (IF b \in cache.blocks THEN Span(b) \cap W ELSE {})
  BY <1>1, <1>2, <1>3, OverwrittenIs
<1>5. Agree(cache', None)
  BY <1>3, <1>4, AgreeSame
<1>6. Translating(Unheld)'
  <2>1. work \in Works /\ (work.pc \in Steps <=> work.block # None)
    BY DEF SeqInv, Translating
  <2>2. References(Unheld)'
    BY <1>2, <1>3, <1>4 DEF References, Unheld, Counted
  <2>3. Listing'
    BY <1>2, <1>3, <1>5 DEF Listing
  <2> QED
    BY <1>2, <1>4, <2>1, <2>2, <2>3 DEF Translating
<1>7. StaleIsDirty'
  BY <1>1, <1>4 DEF SeqInv, StaleIsDirty
<1> QED
  BY <1>1, <1>2, <1>6, <1>7 DEF SeqInv

LEMMA SeqInvNext ==
  ASSUME \A b \in Blocks : Hi[b] \in {Lo[b], Lo[b] + 1}, SeqInv, [SeqNext]_seqvars
  PROVE  SeqInv'
<1>1. CASE Reclaim /\ UNCHANGED <<current_bb, overwritten>>
  <2>1. Translating(Unheld)' /\ Frees(cache, cache') /\ UNCHANGED <<dirty, work>>
    BY <1>1, TranslatingReclaim, UnheldIs DEF SeqInv, Reclaim
  <2>2. StaleIsDirty'
    BY <2>1, FreesStale DEF SeqInv
  <2> QED
    BY <1>1, <2>1, <2>2 DEF SeqInv
<1>2. CASE TranslateStep /\ UNCHANGED <<current_bb, overwritten>>
  <2>1. Translating(Unheld)' /\ dirty' = dirty /\ work.pc \in Steps
    BY <1>2, TranslatingStep, UnheldIs DEF SeqInv
  <2>2. StaleIsDirty'
    BY <1>2, TranslateStale DEF SeqInv, Translating
  <2> QED
    BY <1>2, <2>1, <2>2 DEF SeqInv, Steps
<1>3. CASE Leave
  <2>1. /\ UNCHANGED <<cache, dirty, work>> /\ current_bb' = None /\ overwritten' = {}
    BY <1>3 DEF Leave
  <2> QED
    BY <2>1, SeqSame DEF SeqInv, StaleIsDirty
<1>4. CASE UNCHANGED seqvars
  BY <1>4, SeqSame DEF seqvars, SeqInv, StaleIsDirty
<1> QED
  BY <1>1, <1>2, <1>3, <1>4, SeqFetchKeeps, TakeKeeps, SeqSynthesizeKeeps, SeqDetectKeeps,
     ExecuteUopKeeps DEF SeqNext

(* A block spans one page or two in a row (kernel.h:391). *)
LEMMA SeqInductive ==
  ASSUME \A b \in Blocks : Hi[b] \in {Lo[b], Lo[b] + 1}
  PROVE  SeqSpec => []SeqInv
<1>1. SeqInv /\ [SeqNext]_seqvars => SeqInv'
  BY SeqInvNext
<1> QED
  BY <1>1, SeqInvInit, PTL DEF SeqSpec

(* The variables of the sequential core have their types. *)
THEOREM SeqTypeCorrect ==
  ASSUME \A b \in Blocks : Hi[b] \in {Lo[b], Lo[b] + 1}
  PROVE  SeqSpec => []SeqTypeOK
<1>1. SeqInv => SeqTypeOK
  <2> SUFFICES ASSUME SeqInv PROVE SeqTypeOK
    OBVIOUS
  <2>1. cache \in Caches
    BY DEF SeqInv, Translating
  <2>2. \A p \in DOMAIN cache.lists : cache.lists[p] \in [blocks : SUBSET Blocks, refs : Nat]
    BY <2>1, ListsTyped DEF Lists
  <2>3. CacheType
    BY <2>1, <2>2, ListsTyped DEF CacheType
  <2> QED
    BY <2>3 DEF SeqInv, SeqTypeOK
<1> QED
  BY <1>1, SeqInductive, PTL

(* No uop executes on the page its block starts on once a store has        *)
(* overwritten that page, whatever is reclaimed, invalidated or found in   *)
(* the cache, and although the core holds no reference to the block.       *)
THEOREM FirstPageFresh ==
  ASSUME \A b \in Blocks : Hi[b] \in {Lo[b], Lo[b] + 1}
  PROVE  SeqSpec => []NoStaleFirstPage
<1>1. SeqInv => NoStaleFirstPage
  BY DEF SeqInv, NoStaleFirstPage, Watched, Span
<1> QED
  BY <1>1, SeqInductive, PTL
--------------------------------------------------------------------------------
(***************************************************************************)
(* The out-of-order core                                                   *)
(***************************************************************************)

Types ==
  /\ cache \in Caches
  /\ dirty \subseteq Pages
  /\ work \in [pc : Steps \cup {"idle", "synth"}, block : Blocks \cup {None}]
  /\ current \in [Threads -> Blocks \cup {None}]
  /\ fetcher \in Threads \cup {None}
  /\ rob \in [Threads -> Seq(Instructions)]
  /\ \A t \in Threads : Len(rob[t]) <= Depth
  /\ smc \in [Threads -> SUBSET Pages]
  /\ phase \in {"running", "ended", "down"}

Working ==
  /\ work.pc \in Steps <=> work.block # None
  /\ work.pc \in Steps => fetcher \in Threads /\ current[fetcher] = None
  /\ phase # "running" => work.pc = "idle" /\ \A t \in Threads : current[t] = None

Holders(b) == Cardinality({t \in Threads : current[t] = b})
Refs ==
  \A b \in Blocks :
    /\ cache.refs[b] =
         Holders(b) + (IF work.block = b /\ work.pc \in Counted THEN 1 ELSE 0)
    /\ cache.refs[b] > 0 => b \in cache.blocks

Emptied == phase = "down" => cache.blocks = {} /\ DOMAIN cache.lists = {}

IInv == Types /\ Working /\ Refs /\ Listing /\ Emptied

LEMMA TypesAgree == Types => TypeOK
<1> SUFFICES ASSUME Types PROVE TypeOK
  OBVIOUS
<1>1. CacheType
  <2>1. cache \in Caches
    BY DEF Types
  <2>2. \A p \in DOMAIN cache.lists : cache.lists[p] \in [blocks : SUBSET Blocks, refs : Nat]
    BY <2>1, ListsTyped DEF Lists
  <2> QED
    BY <2>1, <2>2, ListsTyped DEF CacheType
<1> QED
  BY <1>1 DEF Types, TypeOK

(* A thread turns from one block to another, or to none. *)
LEMMA HoldersChange ==
  ASSUME Types, NEW t \in Threads, NEW x \in Blocks \cup {None},
         current' = [current EXCEPT ![t] = x], NEW b \in Blocks
  PROVE  /\ Holders(b) \in Nat /\ Holders(b)' \in Nat
         /\ current[t] = b => Holders(b) > 0
         /\ Holders(b)' = Holders(b) - (IF current[t] = b THEN 1 ELSE 0)
                                     + (IF x = b THEN 1 ELSE 0)
<1> DEFINE S == {u \in Threads : current[u] = b}
           T == {u \in Threads : current'[u] = b}
<1>1. IsFiniteSet(S) /\ IsFiniteSet(T)
  BY ThreadsAssumption, FS_Subset
<1>2. T = (S \ {t}) \cup (IF x = b THEN {t} ELSE {})
  BY DEF Types
<1>3. t \in S <=> current[t] = b
  OBVIOUS
<1>4. Holders(b) = Cardinality(S) /\ Holders(b)' = Cardinality(T)
  BY DEF Holders
<1> HIDE DEF S, T
<1>5. Cardinality(S) \in Nat /\ Cardinality(T) \in Nat
  BY <1>1, FS_CardinalityType
<1>6. /\ IsFiniteSet(S \ {t})
      /\ Cardinality(S \ {t}) = Cardinality(S) - (IF t \in S THEN 1 ELSE 0)
  <2>1. CASE t \in S
    BY <1>1, <2>1, FS_RemoveElement
  <2>2. CASE t \notin S
    <3>1. S \ {t} = S
      BY <2>2
    <3> QED
      BY <1>1, <1>5, <2>2, <3>1
  <2> QED
    BY <2>1, <2>2
<1>7. Cardinality(S \ {t}) \in Nat
  BY <1>6, FS_CardinalityType
<1>8. CASE x = b
  <2>1. T = (S \ {t}) \cup {t} /\ t \notin S \ {t}
    BY <1>2, <1>8
  <2>2. Cardinality(T) = Cardinality(S \ {t}) + 1
    BY <1>6, <2>1, FS_AddElement
  <2> QED
    BY <1>3, <1>4, <1>5, <1>6, <1>7, <1>8, <2>2
<1>9. CASE x # b
  <2>1. T = S \ {t}
    BY <1>2, <1>9
  <2> QED
    BY <1>3, <1>4, <1>5, <1>6, <1>7, <1>9, <2>1
<1> QED
  BY <1>8, <1>9

(* A thread that gives its block up, and one that had none and takes x. *)
LEMMA HoldersLeave ==
  ASSUME Types, NEW t \in Threads, current' = [current EXCEPT ![t] = None], NEW b \in Blocks
  PROVE  /\ Holders(b) \in Nat /\ Holders(b)' \in Nat
         /\ Holders(b)' = Holders(b) - (IF current[t] = b THEN 1 ELSE 0)
<1>1. None # b /\ None \in Blocks \cup {None}
  BY PagesAssumption
<1>2. /\ Holders(b) \in Nat /\ Holders(b)' \in Nat
      /\ Holders(b)' = Holders(b) - (IF current[t] = b THEN 1 ELSE 0)
                                  + (IF None = b THEN 1 ELSE 0)
  BY <1>1, HoldersChange
<1>3. Holders(b) - (IF current[t] = b THEN 1 ELSE 0) \in Int
  BY <1>2
<1> QED
  BY <1>1, <1>2, <1>3

LEMMA HoldersTake ==
  ASSUME Types, NEW t \in Threads, current[t] = None, NEW x \in Blocks,
         current' = [current EXCEPT ![t] = x], NEW b \in Blocks
  PROVE  /\ Holders(b) \in Nat /\ Holders(b)' \in Nat
         /\ Holders(b)' = Holders(b) + (IF x = b THEN 1 ELSE 0)
<1>1. current[t] # b /\ x \in Blocks \cup {None}
  BY PagesAssumption
<1>2. /\ Holders(b) \in Nat /\ Holders(b)' \in Nat
      /\ Holders(b)' = Holders(b) - (IF current[t] = b THEN 1 ELSE 0)
                                  + (IF x = b THEN 1 ELSE 0)
  BY <1>1, HoldersChange
<1> QED
  BY <1>1, <1>2

LEMMA HoldersNat ==
  ASSUME NEW b
  PROVE  /\ Holders(b) \in Nat /\ Holders(b)' \in Nat
         /\ (\A t \in Threads : current[t] # b) <=> Holders(b) = 0
<1> DEFINE S == {u \in Threads : current[u] = b}
           T == {u \in Threads : current'[u] = b}
<1>1. IsFiniteSet(S) /\ IsFiniteSet(T)
  BY ThreadsAssumption, FS_Subset
<1>2. Holders(b) = Cardinality(S) /\ Holders(b)' = Cardinality(T)
  BY DEF Holders
<1> QED
  BY <1>1, <1>2, FS_CardinalityType, FS_EmptySet

(* The block a thread gives up is referenced. *)
LEMMA CurrentReferenced ==
  ASSUME Types, Refs, NEW t \in Threads
  PROVE  /\ current[t] \in Blocks \cup {None}
         /\ current[t] # None => cache.refs[current[t]] > 0 /\ current[t] \in cache.blocks
<1>1. current[t] \in Blocks \cup {None}
  BY DEF Types
<1>2. ASSUME current[t] # None PROVE cache.refs[current[t]] > 0
  <2>1. current[t] \in Blocks
    BY <1>1, <1>2
  <2>2. Holders(current[t]) \in Nat /\ Holders(current[t]) # 0
    BY HoldersNat
  <2> QED
    BY <2>1, <2>2 DEF Refs
<1> QED
  BY <1>1, <1>2 DEF Refs

LEMMA ReleasedIs ==
  ASSUME Types, Refs, NEW t \in Threads
  PROVE  LET c == Release(cache, current[t])
         IN  /\ c \in Caches
             /\ c.blocks = cache.blocks /\ c.lists = cache.lists /\ c.stale = cache.stale
             /\ \A b \in Blocks : c.refs[b] = cache.refs[b] - (IF current[t] = b THEN 1 ELSE 0)
             /\ \A w : Agree(c, w) <=> Agree(cache, w)
<1>1. current[t] \in Blocks \cup {None} /\ (current[t] # None => cache.refs[current[t]] > 0)
  BY CurrentReferenced
<1>2. cache \in Caches
  BY DEF Types
<1> QED
  BY <1>1, <1>2, ReleaseIs, AgreeSame

(* What the threads hold, as the references a translation has not. *)
LEMMA HeldIs ==
  ASSUME IInv
  PROVE  \E h \in [Blocks -> Nat] : (\A b \in Blocks : h[b] = Holders(b)) /\ Translating(h)
<1> DEFINE f == [b \in Blocks |-> Holders(b)]
<1>1. f \in [Blocks -> Nat] /\ \A b \in Blocks : f[b] = Holders(b)
  BY HoldersNat
<1> HIDE DEF f
<1>2. References(f)
  BY <1>1 DEF IInv, Refs, References
<1>3. Translating(f)
  BY <1>2 DEF Translating, IInv, Types, Working, Works
<1> QED
  BY <1>1, <1>3

(* A reclaim in between any two steps. *)
LEMMA ReclaimKeeps ==
  ASSUME IInv, phase # "down", Reclaim, UNCHANGED <<current, fetcher, rob, smc, phase>>
  PROVE  IInv'
<1>1. PICK h \in [Blocks -> Nat] : (\A b \in Blocks : h[b] = Holders(b)) /\ Translating(h)
  BY HeldIs
<1>2. Translating(h)' /\ UNCHANGED <<dirty, work>>
  BY <1>1, TranslatingReclaim DEF Reclaim
<1>3. \A b \in Blocks : Holders(b)' = h[b]
  BY <1>1 DEF Holders
<1>4. Types' /\ Working' /\ Refs' /\ Listing'
  BY <1>2, <1>3 DEF Translating, References, Works, IInv, Types, Working, Refs
<1> QED
  BY <1>4 DEF IInv, Emptied

(* A step of a translation. *)
LEMMA TranslateKeeps ==
  ASSUME IInv, TranslateStep, UNCHANGED <<current, fetcher, rob, smc, phase>>
  PROVE  IInv'
<1>1. PICK h \in [Blocks -> Nat] : (\A b \in Blocks : h[b] = Holders(b)) /\ Translating(h)
  BY HeldIs
<1>2. Translating(h)' /\ dirty' = dirty /\ work.pc \in Steps
  BY <1>1, TranslatingStep
<1>3. \A b \in Blocks : Holders(b)' = h[b]
  BY <1>1 DEF Holders
<1>4. phase = "running" /\ fetcher \in Threads /\ current[fetcher] = None
  BY <1>2 DEF IInv, Working, Steps
<1>5. Types' /\ Working' /\ Refs' /\ Listing'
  BY <1>2, <1>3, <1>4 DEF Translating, References, IInv, Types, Working, Works, Refs
<1> QED
  BY <1>4, <1>5 DEF IInv, Emptied

--------------------------------------------------------------------------------
(* A thread gives up its block, and unreferenced blocks may be freed. *)
LEMMA LeaveKeeps ==
  ASSUME IInv, Cycle, NEW t \in Threads, current' = [current EXCEPT ![t] = None],
         Frees(Release(cache, current[t]), cache'),
         UNCHANGED <<work, fetcher, phase>>,
         dirty' \subseteq Pages, rob' \in [Threads -> Seq(Instructions)],
         \A s \in Threads : Len(rob'[s]) <= Depth, smc' \in [Threads -> SUBSET Pages]
  PROVE  IInv'
<1> DEFINE c == Release(cache, current[t])
<1>0. work.pc = "idle" /\ work.block = None /\ phase = "running"
  BY DEF IInv, Cycle, Working, Steps
<1>1. /\ c \in Caches /\ c.blocks = cache.blocks
      /\ \A b \in Blocks : c.refs[b] = cache.refs[b] - (IF current[t] = b THEN 1 ELSE 0)
      /\ \A w : Agree(c, w) <=> Agree(cache, w)
  BY ReleasedIs DEF IInv
<1> HIDE DEF c
<1>2. Frees(c, cache')
  BY DEF c
<1>3. Types'
  BY <1>2 DEF IInv, Types, Frees
<1>4. Working'
  BY <1>0 DEF IInv, Working, Steps
<1>5. Refs'
  <2> SUFFICES ASSUME NEW b \in Blocks
               PROVE  /\ cache'.refs[b] = Holders(b)'
                      /\ cache'.refs[b] > 0 => b \in cache'.blocks
    BY <1>0, HoldersNat DEF Refs, Counted
  <2>1. /\ Holders(b) \in Nat /\ Holders(b)' \in Nat
        /\ Holders(b)' = Holders(b) - (IF current[t] = b THEN 1 ELSE 0)
    BY HoldersLeave DEF IInv
  <2>2. cache.refs[b] = Holders(b) /\ (cache.refs[b] > 0 => b \in cache.blocks)
    BY <1>0, <2>1 DEF IInv, Refs, Counted
  <2>3. cache'.refs[b] = c.refs[b] /\ (b \in c.blocks /\ c.refs[b] > 0 => b \in cache'.blocks)
    BY <1>2 DEF Frees
  <2> QED
    BY <1>1, <2>1, <2>2, <2>3
<1>6. Listing'
  BY <1>0, <1>1, <1>2 DEF IInv, Listing, Frees
<1> QED
  BY <1>0, <1>3, <1>4, <1>5, <1>6 DEF IInv, Emptied

LEMMA FetchKeeps ==
  ASSUME IInv, NEW t \in Threads, NEW b \in Blocks, Fetch(t, b)
  PROVE  IInv'
<1> DEFINE c == Release(cache, current[t])
<1>0. work.pc = "idle" /\ work.block = None /\ phase = "running" /\ Agree(cache, None) /\ b # None
  BY PagesAssumption DEF IInv, Fetch, Cycle, Working, Listing, Steps
<1>1. /\ c \in Caches /\ c.blocks = cache.blocks /\ c.lists = cache.lists
      /\ \A x \in Blocks : c.refs[x] = cache.refs[x] - (IF current[t] = x THEN 1 ELSE 0)
      /\ \A w : Agree(c, w) <=> Agree(cache, w)
  BY ReleasedIs DEF IInv
<1>2. /\ UNCHANGED <<dirty, rob, smc, phase>>
      /\ IF b \in c.blocks
         THEN /\ cache' = Acquire(c, b)
              /\ current' = [current EXCEPT ![t] = b]
              /\ UNCHANGED <<work, fetcher>>
         ELSE /\ cache' = c
              /\ current' = [current EXCEPT ![t] = None]
              /\ work' = [pc |-> "clone", block |-> b]
              /\ fetcher' = t
  BY DEF Fetch
<1> HIDE DEF c
<1>3. \A x \in Blocks : Holders(x) \in Nat /\ cache.refs[x] = Holders(x)
                        /\ (cache.refs[x] > 0 => x \in cache.blocks)
  BY <1>0, HoldersNat DEF IInv, Refs, Counted
<1>4. CASE b \in c.blocks
  <2>1. /\ cache' \in Caches /\ cache'.blocks = c.blocks /\ cache'.lists = c.lists
        /\ cache'.refs = [c.refs EXCEPT ![b] = @ + 1]
    BY <1>1, <1>2, <1>4, AcquireIs
  <2>2. current' = [current EXCEPT ![t] = b] /\ UNCHANGED <<work, fetcher>>
    BY <1>2, <1>4
  <2>3. Types'
    BY <1>2, <2>1, <2>2 DEF IInv, Types
  <2>4. Working'
    BY <1>0, <1>2, <2>2 DEF Working, Steps
  <2>5. Refs'
    <3> SUFFICES ASSUME NEW x \in Blocks
                 PROVE  cache'.refs[x] = Holders(x)' /\ (cache'.refs[x] > 0 => x \in cache'.blocks)
      BY <1>0, <2>2, HoldersNat DEF Refs, Counted
    <3>1. /\ Holders(x)' = Holders(x) - (IF current[t] = x THEN 1 ELSE 0)
                                      + (IF b = x THEN 1 ELSE 0)
      BY <2>2, HoldersChange DEF IInv
    <3>2. c.refs[x] \in Nat /\ cache'.refs[x] = c.refs[x] + (IF x = b THEN 1 ELSE 0)
      <4>1. c.refs \in [Blocks -> Nat]
        BY <1>1 DEF Caches
      <4> QED
        BY <2>1, <4>1
    <3>3. CASE x = b
      BY <1>1, <1>3, <1>4, <2>1, <3>1, <3>2, <3>3
    <3>4. CASE x # b
      BY <1>1, <1>3, <2>1, <3>1, <3>2, <3>4
    <3> QED
      BY <3>3, <3>4
  <2>6. Listing'
    <3>1. Agree(cache', None)
      BY <1>0, <1>1, <2>1, AgreeSame
    <3> QED
      BY <1>0, <2>2, <3>1 DEF Listing
  <2> QED
    BY <1>0, <1>2, <2>3, <2>4, <2>5, <2>6 DEF IInv, Emptied
<1>5. CASE b \notin c.blocks
  <2>1. /\ cache' = c /\ current' = [current EXCEPT ![t] = None]
        /\ work' = [pc |-> "clone", block |-> b] /\ fetcher' = t
    BY <1>2, <1>5
  <2>2. Types'
    BY <1>1, <1>2, <2>1 DEF IInv, Types, Steps
  <2>3. Working'
    BY <1>0, <1>2, <2>1 DEF IInv, Types, Working, Steps
  <2>4. Refs'
    <3> SUFFICES ASSUME NEW x \in Blocks
                 PROVE  cache'.refs[x] = Holders(x)' /\ (cache'.refs[x] > 0 => x \in cache'.blocks)
      BY <2>1, HoldersNat DEF Refs, Counted
    <3>1. Holders(x)' = Holders(x) - (IF current[t] = x THEN 1 ELSE 0)
      BY <2>1, HoldersLeave DEF IInv
    <3> QED
      BY <1>1, <1>3, <2>1, <3>1
  <2>5. Listing'
    <3>1. Agree(cache', b)
      <4>1. Agree(c, None) /\ None \notin c.blocks
        BY <1>0, <1>1, PagesAssumption DEF Caches
      <4> QED
        BY <2>1, <4>1 DEF Agree, CachedListed
    <3> QED
      BY <2>1, <3>1 DEF Listing
  <2> QED
    BY <1>0, <1>2, <2>2, <2>3, <2>4, <2>5 DEF IInv, Emptied
<1> QED
  BY <1>4, <1>5

(* The block is handed from the translator to the thread that asked. *)
LEMMA HoldKeeps == ASSUME IInv, Hold PROVE IInv'
<1> DEFINE b == work.block
           t == fetcher
<1>0. /\ cache \in Caches /\ work.pc = "return" /\ b \in Blocks /\ t \in Threads
      /\ current[t] = None /\ phase = "running" /\ b # None
      /\ Agree(cache, b) /\ OnList(cache, b, Lo[b]) /\ OnList(cache, b, Hi[b]) /\ b \in cache.blocks
  BY DEF IInv, Hold, Types, Working, Listing, Steps
<1>1. /\ cache' = Acquire(cache, b) /\ current' = [current EXCEPT ![t] = b]
      /\ work' = [work EXCEPT !.pc = "synth", !.block = None] /\ fetcher' = None
      /\ UNCHANGED <<dirty, rob, smc, phase>>
  BY DEF Hold
<1>2. /\ cache' \in Caches /\ cache'.blocks = cache.blocks /\ cache'.lists = cache.lists
      /\ cache'.refs = [cache.refs EXCEPT ![b] = @ + 1]
  BY <1>0, <1>1, AcquireIs
<1>3. work'.pc = "synth" /\ work'.block = None
  BY <1>1 DEF IInv, Types
<1>4. work' \in [pc : Steps \cup {"idle", "synth"}, block : Blocks \cup {None}]
  BY <1>1 DEF IInv, Types
<1>5. Agree(cache', None)
  <2>1. Agree(cache, None)
    BY <1>0 DEF Agree, CachedListed, Span
  <2> QED
    BY <1>2, <2>1, AgreeSame
<1> HIDE DEF b, t
<1>6. Types'
  BY <1>0, <1>1, <1>2, <1>4 DEF IInv, Types
<1>7. Working'
  BY <1>0, <1>1, <1>3 DEF IInv, Working, Steps
<1>8. Refs'
  <2> SUFFICES ASSUME NEW x \in Blocks
               PROVE  cache'.refs[x] = Holders(x)' /\ (cache'.refs[x] > 0 => x \in cache'.blocks)
    BY <1>3, HoldersNat DEF Refs, Counted
  <2>1. /\ Holders(x) \in Nat
        /\ Holders(x)' = Holders(x) + (IF b = x THEN 1 ELSE 0)
    BY <1>0, <1>1, HoldersTake DEF IInv
  <2>2. cache.refs[x] = Holders(x) /\ (cache.refs[x] > 0 => x \in cache.blocks)
    BY <1>0, <2>1 DEF IInv, Refs, Counted
  <2>3. cache'.refs[x] = cache.refs[x] + (IF x = b THEN 1 ELSE 0)
    <3>1. cache.refs \in [Blocks -> Nat]
      BY <1>0 DEF Caches
    <3> QED
      BY <1>0, <1>2, <3>1
  <2> QED
    BY <1>0, <1>2, <2>1, <2>2, <2>3
<1>9. Listing'
  BY <1>3, <1>5 DEF Listing
<1> QED
  BY <1>0, <1>1, <1>6, <1>7, <1>8, <1>9 DEF IInv, Emptied

--------------------------------------------------------------------------------
(* Instructions that commit, and the marks a store leaves on all others.   *)
(* Instruction i of a thread was instruction i + Shift before.             *)
Shift(t, s) == IF s = t /\ rob[t][1].left = 1 THEN 1 ELSE 0
Committed(t, W) ==
  /\ rob' \in [Threads -> Seq(Instructions)]
  /\ \A s \in Threads :
       /\ Len(rob'[s]) = Len(rob[s]) - Shift(t, s)
       /\ \A i \in 1..Len(rob'[s]) :
            LET o == rob[s][i + Shift(t, s)]
                n == rob'[s][i]
            IN  /\ i + Shift(t, s) \in 1..Len(rob[s])
                /\ n.pages = o.pages /\ n.size = o.size
                /\ n.stale <=> o.stale \/ o.pages \cap W # {}
                /\ IF s = t /\ i = 1 /\ Shift(t, s) = 0
                   THEN n.left = o.left - 1 /\ n.wrote = W
                   ELSE n.left = o.left /\ n.wrote = o.wrote

LEMMA CommitIs ==
  ASSUME Types, NEW t \in Threads, Commit(t)
  PROVE  \E W \in SUBSET Pages :
           /\ cache' = Overwritten(cache, W) /\ dirty' = dirty \cup W
           /\ Committed(t, W)
           /\ UNCHANGED <<work, current, fetcher, smc, phase>>
<1> DEFINE mark(i, W) == [i EXCEPT !.stale = @ \/ i.pages \cap W # {}]
           rest(W) == IF Head(rob[t]).left = 1 THEN Tail(rob[t])
                      ELSE [rob[t] EXCEPT ![1].left = @ - 1, ![1].wrote = W]
           q(s, W) == IF s = t THEN rest(W) ELSE rob[s]
<1>1. PICK W \in {{}} \cup {{p} : p \in Pages} :
        /\ rob' = [s \in Threads |-> [i \in DOMAIN q(s, W) |-> mark(q(s, W)[i], W)]]
        /\ cache' = Overwritten(cache, W) /\ dirty' = dirty \cup W
  BY DEF Commit
<1>2. W \in SUBSET Pages
  OBVIOUS
<1>3. rob[t] # <<>> /\ UNCHANGED <<work, current, fetcher, smc, phase>>
  BY DEF Commit, Ready
<1>4. rob[t] \in Seq(Instructions) /\ Len(rob[t]) \in Nat \ {0} /\ Head(rob[t]) = rob[t][1]
      /\ rob[t][1] \in Instructions
  BY <1>3 DEF Types
<1>5. ASSUME NEW x \in Instructions
      PROVE  /\ mark(x, W) \in Instructions
             /\ mark(x, W).pages = x.pages /\ mark(x, W).size = x.size
             /\ mark(x, W).left = x.left /\ mark(x, W).wrote = x.wrote
             /\ mark(x, W).stale <=> x.stale \/ x.pages \cap W # {}
  BY DEF Instructions
<1> HIDE DEF mark
<1>6. ASSUME NEW s \in Threads
      PROVE  /\ q(s, W) \in Seq(Instructions)
             /\ Len(q(s, W)) = Len(rob[s]) - Shift(t, s)
             /\ \A i \in 1..Len(q(s, W)) :
                  LET o == rob[s][i + Shift(t, s)]
                      n == q(s, W)[i]
                  IN  /\ i + Shift(t, s) \in 1..Len(rob[s])
                      /\ n \in Instructions
                      /\ n.pages = o.pages /\ n.size = o.size /\ n.stale = o.stale
                      /\ IF s = t /\ i = 1 /\ Shift(t, s) = 0
                         THEN n.left = o.left - 1 /\ n.wrote = W
                         ELSE n.left = o.left /\ n.wrote = o.wrote
  <2>1. CASE s # t
    <3>1. q(s, W) = rob[s] /\ Shift(t, s) = 0 /\ rob[s] \in Seq(Instructions)
      BY <2>1 DEF Types, Shift
    <3> QED
      BY <2>1, <3>1
  <2>2. CASE s = t /\ rob[t][1].left = 1
    <3>1. q(s, W) = Tail(rob[t]) /\ Shift(t, s) = 1
      BY <1>4, <2>2 DEF Shift
    <3>2. /\ Tail(rob[t]) \in Seq(Instructions) /\ Len(Tail(rob[t])) = Len(rob[t]) - 1
          /\ \A i \in 1..(Len(rob[t]) - 1) : Tail(rob[t])[i] = rob[t][i + 1]
      BY <1>4
    <3> QED
      BY <1>4, <2>2, <3>1, <3>2
  <2>3. CASE s = t /\ rob[t][1].left # 1
    <3> DEFINE h == [rob[t][1] EXCEPT !.left = @ - 1, !.wrote = W]
    <3>1. /\ h \in Instructions /\ h.pages = rob[t][1].pages /\ h.size = rob[t][1].size
          /\ h.stale = rob[t][1].stale /\ h.left = rob[t][1].left - 1 /\ h.wrote = W
      <4> DEFINE x == rob[t][1]
      <4>1. x \in Instructions
        BY <1>4
      <4>2. x.left # 1
        BY <2>3
      <4>3. h = [x EXCEPT !.left = @ - 1, !.wrote = W]
        OBVIOUS
      <4> HIDE DEF x, q, rest, h
      <4>4. x.left - 1 \in 1..2
        BY <4>1, <4>2 DEF Instructions
      <4>5. [x EXCEPT !.left = @ - 1, !.wrote = W] \in Instructions
        BY <1>2, <4>1, <4>4 DEF Instructions
      <4>6. /\ h.pages = x.pages /\ h.size = x.size
            /\ h.stale = x.stale /\ h.left = x.left - 1 /\ h.wrote = W
        BY <4>1, <4>3 DEF Instructions
      <4> QED
        BY <4>3, <4>5, <4>6 DEF x
    <3>2. q(s, W) = [rob[t] EXCEPT ![1] = h] /\ Shift(t, s) = 0
      <4>1. rest(W) = [rob[t] EXCEPT ![1].left = @ - 1, ![1].wrote = W]
        BY <1>4, <2>3
      <4>2. [rob[t] EXCEPT ![1].left = @ - 1, ![1].wrote = W] = [rob[t] EXCEPT ![1] = h]
        BY <1>4
      <4> QED
        BY <2>3, <4>1, <4>2 DEF Shift
    <3> HIDE DEF h
    <3>3. /\ [rob[t] EXCEPT ![1] = h] \in Seq(Instructions)
          /\ Len([rob[t] EXCEPT ![1] = h]) = Len(rob[t])
      BY <1>4, <3>1
    <3>4. \A i \in 1..Len(rob[t]) : [rob[t] EXCEPT ![1] = h][i] = IF i = 1 THEN h ELSE rob[t][i]
      BY <1>4
    <3>5. \A i \in 1..Len(rob[t]) : rob[t][i] \in Instructions /\ i + 0 = i
      BY <1>4
    <3> HIDE DEF q, rest
    <3> QED
      BY <1>4, <2>3, <3>1, <3>2, <3>3, <3>4, <3>5
  <2> QED
    BY <2>1, <2>2, <2>3
<1> HIDE DEF q
<1>7. ASSUME NEW s \in Threads
      PROVE  /\ rob'[s] \in Seq(Instructions) /\ Len(rob'[s]) = Len(q(s, W))
             /\ \A i \in 1..Len(q(s, W)) : rob'[s][i] = mark(q(s, W)[i], W)
  <2> DEFINE u == q(s, W)
             v == [i \in DOMAIN u |-> mark(u[i], W)]
  <2>1. u \in Seq(Instructions)
    BY <1>6
  <2>2. rob'[s] = v
    BY <1>1
  <2> HIDE DEF u
  <2>3. DOMAIN u = 1..Len(u) /\ Len(u) \in Nat /\ \A i \in 1..Len(u) : u[i] \in Instructions
    BY <2>1
  <2>4. v \in [1..Len(u) -> Instructions]
    BY <1>5, <2>3
  <2>5. v \in Seq(Instructions) /\ Len(v) = Len(u)
    BY <2>3, <2>4
  <2> QED
    BY <2>2, <2>3, <2>5 DEF u
<1>8. rob' \in [Threads -> Seq(Instructions)]
  BY <1>1, <1>7
<1>9. Committed(t, W)
  <2> SUFFICES ASSUME NEW s \in Threads, NEW i \in 1..Len(rob'[s])
               PROVE  LET o == rob[s][i + Shift(t, s)]
                          n == rob'[s][i]
                      IN  /\ i + Shift(t, s) \in 1..Len(rob[s])
                          /\ n.pages = o.pages /\ n.size = o.size
                          /\ n.stale <=> o.stale \/ o.pages \cap W # {}
                          /\ IF s = t /\ i = 1 /\ Shift(t, s) = 0
                             THEN n.left = o.left - 1 /\ n.wrote = W
                             ELSE n.left = o.left /\ n.wrote = o.wrote
    BY <1>6, <1>7, <1>8 DEF Committed
  <2>1. i \in 1..Len(q(s, W)) /\ rob'[s][i] = mark(q(s, W)[i], W)
    BY <1>7
  <2> DEFINE k == i + Shift(t, s)
             x == q(s, W)[i]
  <2>2. /\ k \in 1..Len(rob[s]) /\ x \in Instructions
        /\ x.pages = rob[s][k].pages /\ x.size = rob[s][k].size /\ x.stale = rob[s][k].stale
        /\ IF s = t /\ i = 1 /\ Shift(t, s) = 0
           THEN x.left = rob[s][k].left - 1 /\ x.wrote = W
           ELSE x.left = rob[s][k].left /\ x.wrote = rob[s][k].wrote
    BY <1>6, <2>1
  <2>3. rob'[s][i] = mark(x, W)
    BY <2>1
  <2> HIDE DEF k, x, rest
  <2>4. /\ rob'[s][i].pages = x.pages /\ rob'[s][i].size = x.size
        /\ rob'[s][i].left = x.left /\ rob'[s][i].wrote = x.wrote
        /\ rob'[s][i].stale <=> x.stale \/ x.pages \cap W # {}
    BY <1>5, <2>2, <2>3
  <2> QED
    BY <2>2, <2>4 DEF k
<1> QED
  BY <1>1, <1>2, <1>3, <1>9

LEMMA CommitKeeps ==
  ASSUME IInv, NEW t \in Threads, Commit(t)
  PROVE  IInv'
<1>1. PICK W \in SUBSET Pages :
        /\ cache' = Overwritten(cache, W) /\ dirty' = dirty \cup W
        /\ Committed(t, W)
        /\ UNCHANGED <<work, current, fetcher, smc, phase>>
  BY CommitIs DEF IInv
<1>2. /\ cache' \in Caches /\ cache'.blocks = cache.blocks /\ cache'.refs = cache.refs
      /\ cache'.lists = cache.lists
  <2>1. cache \in Caches
    BY DEF IInv, Types
  <2> QED
    BY <1>1, <2>1, OverwrittenIs
<1>3. \A s \in Threads : Len(rob'[s]) <= Depth
  BY <1>1, ThreadsAssumption DEF IInv, Types, Committed, Shift
<1>4. Types'
  BY <1>1, <1>2, <1>3 DEF IInv, Types, Committed
<1>5. \A b : Holders(b)' = Holders(b)
  BY <1>1 DEF Holders
<1>6. Refs'
  BY <1>1, <1>2, <1>5 DEF IInv, Refs
<1>7. Listing'
  BY <1>1, <1>2, AgreeSame DEF IInv, Listing
<1>8. Working' /\ Emptied'
  BY <1>1, <1>2 DEF IInv, Working, Emptied
<1> QED
  BY <1>4, <1>6, <1>7, <1>8 DEF IInv

(* Only what waits in the reorder buffer changes, or nothing does. *)
LEMMA BufferKeeps ==
  ASSUME IInv, UNCHANGED <<cache, dirty, work, current, fetcher, phase>>,
         rob' \in [Threads -> Seq(Instructions)],
         \A s \in Threads : Len(rob'[s]) <= Depth, smc' \in [Threads -> SUBSET Pages]
  PROVE  IInv'
<1>1. Types'
  BY DEF IInv, Types
<1>2. Working' /\ Listing' /\ Emptied'
  BY DEF IInv, Working, Listing, Emptied
<1>3. \A b : Holders(b)' = Holders(b)
  BY DEF Holders
<1>4. Refs'
  BY <1>3 DEF IInv, Refs
<1> QED
  BY <1>1, <1>2, <1>4 DEF IInv

LEMMA SynthesizeKeeps == ASSUME IInv, Synthesize PROVE IInv'
<1>1. /\ work.pc = "synth" /\ work.block = None
      /\ work' = [pc |-> "idle", block |-> None]
      /\ UNCHANGED <<cache, dirty, current, fetcher, rob, smc, phase>>
  BY DEF IInv, Synthesize, Idle, Working, Steps
<1>2. Types'
  BY <1>1 DEF IInv, Types
<1>3. Working' /\ Listing' /\ Emptied'
  BY <1>1 DEF IInv, Working, Listing, Emptied, Steps
<1>4. \A b : Holders(b)' = Holders(b)
  BY <1>1 DEF Holders
<1>5. Refs'
  BY <1>1, <1>4 DEF IInv, Refs, Counted
<1> QED
  BY <1>2, <1>3, <1>5 DEF IInv

LEMMA FetchInstructionKeeps ==
  ASSUME IInv, NEW t \in Threads, FetchInstruction(t)
  PROVE  IInv'
<1>1. PICK pages \in (SUBSET Span(current[t])) \ {{}}, n \in 1..2 :
        rob' = [rob EXCEPT ![t] = Append(@,
                 [pages |-> pages, left |-> n, size |-> n,
                  stale |-> cache.stale[current[t]] \cap pages # {}, wrote |-> {}])]
  BY DEF FetchInstruction
<1> DEFINE i == [pages |-> pages, left |-> n, size |-> n,
                 stale |-> cache.stale[current[t]] \cap pages # {}, wrote |-> {}]
<1>2. current[t] \in Blocks /\ Len(rob[t]) < Depth /\ rob[t] \in Seq(Instructions)
  BY DEF IInv, Types, FetchInstruction
<1>3. i \in Instructions
  <2>1. pages \in SUBSET Pages
    BY <1>2, PagesAssumption DEF Span
  <2>2. (cache.stale[current[t]] \cap pages # {}) \in BOOLEAN
    OBVIOUS
  <2> QED
    BY <2>1, <2>2 DEF Instructions
<1>4. rob' = [rob EXCEPT ![t] = Append(rob[t], i)]
  BY <1>1, <1>2 DEF IInv, Types
<1> HIDE DEF i
<1>5. Append(rob[t], i) \in Seq(Instructions) /\ Len(Append(rob[t], i)) <= Depth
  BY <1>2, <1>3, ThreadsAssumption
<1>6. rob' \in [Threads -> Seq(Instructions)] /\ \A s \in Threads : Len(rob'[s]) <= Depth
  BY <1>4, <1>5 DEF IInv, Types
<1>7. UNCHANGED <<cache, dirty, work, current, fetcher, smc, phase>>
  BY DEF FetchInstruction
<1> QED
  BY <1>6, <1>7, BufferKeeps DEF IInv, Types

LEMMA DetectKeeps ==
  ASSUME IInv, NEW t \in Threads, DetectSMC(t)
  PROVE  IInv'
<1>1. smc' = [smc EXCEPT ![t] = Head(rob[t]).pages]
      /\ UNCHANGED <<cache, dirty, work, current, fetcher, rob, phase>>
  BY DEF DetectSMC
<1>2. Head(rob[t]) \in Instructions
  BY DEF IInv, Types, DetectSMC, Ready
<1>3. smc' \in [Threads -> SUBSET Pages]
  BY <1>1, <1>2 DEF IInv, Types, Instructions
<1> QED
  BY <1>1, <1>3, BufferKeeps DEF IInv, Types

(* A mispredict, self-modifying code and a spurious fault: the thread is   *)
(* flushed, wholly or in part, and gives up its block.                     *)
LEMMA FlushKeeps ==
  ASSUME IInv, NEW t \in Threads,
         Redirect(t) \/ HandleSMC(t) \/ SpuriousFault(t)
  PROVE  IInv'
<1> DEFINE c == Release(cache, current[t])
<1>1. c \in Caches
  BY ReleasedIs DEF IInv
<1>2. [rob EXCEPT ![t] = <<>>] \in [Threads -> Seq(Instructions)]
      /\ \A s \in Threads : Len([rob EXCEPT ![t] = <<>>][s]) <= Depth
  <2>1. <<>> \in Seq(Instructions) /\ Len(<<>>) <= Depth
    BY ThreadsAssumption
  <2> QED
    BY <2>1 DEF IInv, Types
<1>3. CASE Redirect(t)
  <2>1. PICK n \in (IF Begun(t) THEN 1 ELSE 0)..Len(rob[t]) :
          rob' = [rob EXCEPT ![t] = SubSeq(@, 1, n)]
    BY <1>3 DEF Redirect
  <2>2. rob[t] \in Seq(Instructions) /\ Len(rob[t]) <= Depth /\ n \in 0..Len(rob[t])
    BY DEF IInv, Types
  <2>3. SubSeq(rob[t], 1, n) \in Seq(Instructions) /\ Len(SubSeq(rob[t], 1, n)) <= Depth
    BY <2>2, ThreadsAssumption
  <2>4. rob' \in [Threads -> Seq(Instructions)] /\ \A s \in Threads : Len(rob'[s]) <= Depth
    BY <2>1, <2>3 DEF IInv, Types
  <2>5. /\ Cycle /\ Frees(c, cache') /\ current' = [current EXCEPT ![t] = None]
        /\ UNCHANGED <<dirty, work, fetcher, smc, phase>>
    BY <1>1, <1>3, FreesNothing DEF Redirect
  <2> QED
    BY <2>4, <2>5, LeaveKeeps DEF IInv, Types
<1>4. CASE HandleSMC(t)
  <2>1. /\ Cycle /\ current' = [current EXCEPT ![t] = None]
        /\ UNCHANGED <<work, fetcher, phase>>
        /\ rob' = [rob EXCEPT ![t] = <<>>] /\ smc' = [smc EXCEPT ![t] = {}]
        /\ dirty' \subseteq dirty /\ cache' \in PagesInvalidated(c, smc[t])
    BY <1>4 DEF HandleSMC
  <2>2. smc[t] \in SUBSET Pages /\ smc' \in [Threads -> SUBSET Pages] /\ dirty' \subseteq Pages
    BY <2>1 DEF IInv, Types
  <2>3. Frees(c, cache')
    BY <1>1, <2>1, <2>2, PagesInvalidatedIs
  <2> QED
    BY <1>2, <2>1, <2>2, <2>3, LeaveKeeps
<1>5. CASE SpuriousFault(t)
  <2>1. /\ Cycle /\ current' = [current EXCEPT ![t] = None]
        /\ UNCHANGED <<dirty, work, fetcher, smc, phase>>
        /\ rob' = [rob EXCEPT ![t] = <<>>]
        /\ \E b \in cache.blocks : cache' = Invalidated(c, {b} \cap Unreferenced(c))
    BY <1>5 DEF SpuriousFault, Ready
  <2>2. PICK b \in cache.blocks : cache' = Invalidated(c, {b} \cap Unreferenced(c))
    BY <2>1
  <2>3. Frees(c, cache')
    <3>1. {b} \cap Unreferenced(c) \in SUBSET Unreferenced(c)
      OBVIOUS
    <3> QED
      BY <1>1, <2>2, <3>1, InvalidatedFrees
  <2> QED
    BY <1>2, <2>1, <2>3, LeaveKeeps DEF IInv, Types
<1> QED
  BY <1>3, <1>4, <1>5

--------------------------------------------------------------------------------
(* The end of a run takes back one reference per thread and block. *)
LEMMA EndRunKeeps == ASSUME IInv, EndRun PROVE IInv'
<1> DEFINE f == [b \in Blocks |-> cache.refs[b] - Holders(b)]
<1>0. work.pc = "idle" /\ work.block = None /\ phase = "running" /\ cache \in Caches
  BY DEF IInv, EndRun, Cycle, Working, Types, Steps
<1>1. /\ cache' = [cache EXCEPT !.refs = f]
      /\ current' = [t \in Threads |-> None] /\ rob' = [t \in Threads |-> <<>>]
      /\ phase' = "ended" /\ UNCHANGED <<dirty, work, fetcher, smc>>
  BY DEF EndRun, ReleasedAll, Holders
<1>2. \A b \in Blocks : f[b] = 0
  BY <1>0, HoldersNat DEF IInv, Refs, Counted
<1>3. f \in [Blocks -> Nat]
  BY <1>2
<1> HIDE DEF f
<1>4. /\ cache' \in Caches /\ cache'.blocks = cache.blocks /\ cache'.lists = cache.lists
      /\ cache'.refs = f
  BY <1>0, <1>1, <1>3, SetRefs DEF Caches
<1>5. rob' \in [Threads -> Seq(Instructions)] /\ \A s \in Threads : Len(rob'[s]) <= Depth
  <2>1. <<>> \in Seq(Instructions) /\ Len(<<>>) <= Depth
    BY ThreadsAssumption
  <2> QED
    BY <1>1, <2>1
<1>6. Types'
  BY <1>1, <1>4, <1>5 DEF IInv, Types
<1>7. Working'
  BY <1>0, <1>1 DEF Working, Steps
<1>8. Refs'
  <2> SUFFICES ASSUME NEW b \in Blocks PROVE cache'.refs[b] = 0 /\ Holders(b)' = 0
    BY <1>0, <1>1 DEF Refs, Counted
  <2>1. \A t \in Threads : current'[t] # b
    BY <1>1, PagesAssumption
  <2>2. {t \in Threads : current'[t] = b} = {}
    BY <2>1
  <2> QED
    BY <1>2, <1>4, <2>2, FS_EmptySet DEF Holders
<1>9. Listing'
  BY <1>0, <1>1, <1>4, AgreeSame DEF IInv, Listing
<1> QED
  BY <1>1, <1>6, <1>7, <1>8, <1>9 DEF IInv, Emptied

(* After the end of a run no block is referenced: the flush takes all of   *)
(* them off every list, and then every list.                               *)
LEMMA ShutdownKeeps == ASSUME IInv, Shutdown PROVE IInv'
<1> DEFINE c == Invalidated(cache, Unreferenced(cache))
           D == {p \in DOMAIN c.lists : c.lists[p].blocks # {}}
           f == [p \in D |-> c.lists[p]]
<1>0. /\ work.pc = "idle" /\ work.block = None /\ phase = "ended" /\ cache \in Caches
      /\ \A t \in Threads : current[t] = None
  BY DEF IInv, Shutdown, Working, Types, Steps
<1>1. \A b \in Blocks : Holders(b) = 0
  BY <1>0, HoldersNat, PagesAssumption
<1>2. Unreferenced(cache) = cache.blocks
  <2>1. cache.blocks \subseteq Blocks
    BY <1>0 DEF Caches
  <2>2. \A b \in Blocks : cache.refs[b] = 0
    BY <1>0, <1>1 DEF IInv, Refs, Counted
  <2> QED
    BY <2>1, <2>2 DEF Unreferenced
<1>3. /\ c \in Caches /\ c.blocks = {} /\ c.refs = cache.refs
      /\ \A p \in DOMAIN c.lists : c.lists[p].blocks = {}
  <2>1. Unreferenced(cache) \in SUBSET Unreferenced(cache)
    OBVIOUS
  <2>2. Frees(cache, c) /\ c.blocks = cache.blocks \ Unreferenced(cache)
    BY <1>0, <2>1, InvalidatedFrees
  <2> HIDE DEF c
  <2>3. ListedCached(c)
    BY <2>2 DEF IInv, Listing, Agree, Frees
  <2> QED
    BY <1>2, <2>2, <2>3 DEF Frees, ListedCached
<1>4. cache' = [c EXCEPT !.lists = RestrictValues(@, LAMBDA l : l.blocks # {})]
      /\ phase' = "down" /\ UNCHANGED <<dirty, work, current, fetcher, rob, smc>>
  BY DEF Shutdown
<1> HIDE DEF c
<1>5. cache' = [c EXCEPT !.lists = f]
  BY <1>3, <1>4 DEF RestrictValues, Restrict, Caches
<1>6. D = {} /\ D \in SUBSET Pages /\ f \in [D -> Lists] /\ DOMAIN f = {}
  BY <1>3
<1> HIDE DEF D, f
<1>7. /\ cache' \in Caches /\ cache'.lists = f
      /\ cache'.blocks = {} /\ cache'.refs = cache.refs
  <2>1. c \in Caches /\ D \in SUBSET Pages /\ f \in [D -> Lists]
    BY <1>3, <1>6
  <2>2. /\ cache' \in Caches /\ cache'.lists = f
        /\ cache'.blocks = c.blocks /\ cache'.refs = c.refs
    BY <1>5, <2>1, SetLists
  <2> QED
    BY <1>3, <2>2
<1>8. DOMAIN cache'.lists = {}
  BY <1>6, <1>7
<1>9. Types'
  BY <1>4, <1>7 DEF IInv, Types
<1>10. Working'
  BY <1>0, <1>4 DEF Working, Steps
<1>11. \A b : Holders(b)' = Holders(b)
  BY <1>4 DEF Holders
<1>12. Refs'
  BY <1>0, <1>1, <1>4, <1>7, <1>11 DEF IInv, Refs, Counted
<1>13. Listing'
  BY <1>0, <1>4, <1>7, <1>8 DEF Listing, Agree, ListedCached, CachedListed
<1> QED
  BY <1>7, <1>8, <1>9, <1>10, <1>12, <1>13 DEF IInv, Emptied

LEMMA RerunKeeps == ASSUME IInv, Rerun PROVE IInv'
<1>1. /\ phase = "ended" /\ phase' = "running" /\ cache' = cache /\ work' = work
      /\ current' = current /\ dirty' = dirty /\ fetcher' = fetcher /\ rob' = rob /\ smc' = smc
  BY DEF Rerun
<1>2. Types'
  BY <1>1 DEF IInv, Types
<1>3. Working' /\ Listing' /\ Emptied'
  BY <1>1 DEF IInv, Working, Listing, Emptied
<1>4. \A b : Holders(b)' = Holders(b)
  BY <1>1 DEF Holders
<1>5. Refs'
  BY <1>1, <1>4 DEF IInv, Refs
<1> QED
  BY <1>2, <1>3, <1>5 DEF IInv

LEMMA InitIInv == OooInit => IInv
<1> SUFFICES ASSUME OooInit PROVE IInv
  OBVIOUS
<1>1. /\ cache.blocks = {} /\ cache.lists = [p \in {} |-> 0]
      /\ cache.refs = [b \in Blocks |-> 0] /\ cache.stale = [b \in Blocks |-> {}]
      /\ cache = [blocks |-> cache.blocks, refs |-> cache.refs, stale |-> cache.stale, lists |-> cache.lists]
      /\ dirty = {} /\ work = [pc |-> "idle", block |-> None]
      /\ current = [t \in Threads |-> None] /\ fetcher = None
      /\ rob = [t \in Threads |-> <<>>] /\ smc = [t \in Threads |-> {}] /\ phase = "running"
  BY DEF OooInit, Init, EmptyCache, Idle
<1>2. cache \in Caches
  <2>1. cache.lists \in [{} -> Lists] /\ {} \in SUBSET Pages
    BY <1>1
  <2>2. cache.lists \in UNION {[D -> Lists] : D \in SUBSET Pages}
    BY <2>1, ListsFrom
  <2>3. cache.refs \in [Blocks -> Nat] /\ cache.stale \in [Blocks -> SUBSET Pages]
    BY <1>1
  <2>4. cache.blocks \in SUBSET Blocks
    BY <1>1
  <2>5. ASSUME NEW l PROVE l \in UNION {[D -> Lists] : D \in SUBSET Pages} =>
          [blocks |-> cache.blocks, refs |-> cache.refs, stale |-> cache.stale, lists |-> l] \in Caches
    BY <2>3, <2>4 DEF Caches
  <2> QED
    BY <1>1, <2>2, <2>5
<1>3. Types
  <2>1. <<>> \in Seq(Instructions) /\ Len(<<>>) <= Depth
    BY ThreadsAssumption
  <2> QED
    BY <1>1, <1>2, <2>1 DEF Types
<1>4. Working /\ Emptied
  BY <1>1 DEF Working, Steps, Emptied
<1>5. Refs
  <2> SUFFICES ASSUME NEW b \in Blocks PROVE Holders(b) = 0
    BY <1>1 DEF Refs, Counted
  <2>1. \A t \in Threads : current[t] # b
    BY <1>1, PagesAssumption
  <2> QED
    BY <2>1, HoldersNat
<1>6. Listing
  BY <1>1 DEF Listing, Agree, ListedCached, CachedListed
<1> QED
  BY <1>3, <1>4, <1>5, <1>6 DEF IInv

LEMMA NextIInv == IInv /\ [Next]_vars => IInv'
<1> SUFFICES ASSUME IInv, [Next]_vars PROVE IInv'
  OBVIOUS
<1>1. CASE phase # "down" /\ Reclaim /\ UNCHANGED <<current, fetcher, rob, smc, phase>>
  BY <1>1, ReclaimKeeps
<1>2. CASE TranslateStep /\ UNCHANGED <<current, fetcher, rob, smc, phase>>
  BY <1>2, TranslateKeeps
<1>3. CASE Hold
  BY <1>3, HoldKeeps
<1>4. CASE Synthesize
  BY <1>4, SynthesizeKeeps
<1>5. CASE \E t \in Threads : \E b \in Blocks : Fetch(t, b)
  BY <1>5, FetchKeeps
<1>6. CASE \E t \in Threads : FetchInstruction(t) \/ Commit(t) \/ DetectSMC(t)
  BY <1>6, FetchInstructionKeeps, CommitKeeps, DetectKeeps
<1>7. CASE \E t \in Threads : Redirect(t) \/ HandleSMC(t) \/ SpuriousFault(t)
  BY <1>7, FlushKeeps
<1>8. CASE EndRun \/ Rerun \/ Shutdown
  BY <1>8, EndRunKeeps, RerunKeeps, ShutdownKeeps
<1>9. CASE UNCHANGED vars
  BY <1>9, BufferKeeps DEF vars, IInv, Types
<1> QED
  BY <1>1, <1>2, <1>3, <1>4, <1>5, <1>6, <1>7, <1>8, <1>9 DEF Next

LEMMA Inductive == Spec => []IInv
BY InitIInv, NextIInv, PTL DEF Spec

--------------------------------------------------------------------------------
(* Every field of the cache and of every thread has its type. *)
THEOREM OooTypeCorrect == Spec => []TypeOK
<1>1. IInv => TypeOK
  BY TypesAgree DEF IInv
<1> QED
  BY <1>1, Inductive, PTL

(* No reference is lost or counted twice, and no block in use is freed,    *)
(* however many threads share it and whatever is reclaimed in between.     *)
THEOREM ReferencesSound == Spec => []ReferencesExact
<1>1. IInv => ReferencesExact
  <2> SUFFICES ASSUME IInv, NEW b \in Blocks
               PROVE  LET h == Cardinality({t \in Threads : current[t] = b})
                          w == IF work.block = b /\ work.pc \in Counted THEN 1 ELSE 0
                      IN  cache.refs[b] = h + w /\ (h + w > 0 => b \in cache.blocks)
    BY DEF ReferencesExact, Counted
  <2> QED
    BY DEF IInv, Refs, Holders
<1> QED
  BY <1>1, Inductive, PTL

(* An invalidation of a page finds every block that spans it. *)
THEOREM ListsSound == Spec => []ListsMatchCache
<1>1. IInv => ListsMatchCache
  BY DEF IInv, Listing, Agree, ListedCached, CachedListed, OnList, ListsMatchCache
<1> QED
  BY <1>1, Inductive, PTL

(* A reclaim between locking a page list and adding to it leaves the list. *)
THEOREM LockedListsSound == Spec => []LockedListsExist
<1>1. IInv => LockedListsExist
  BY DEF IInv, Listing, HasLock, LockedListsExist, HoldsLo, HoldsHi
<1> QED
  BY <1>1, Inductive, PTL

(* shutdown_decode leaves no block and no page list behind. *)
THEOREM FlushSound == Spec => []FlushedEmpty
<1>1. IInv => FlushedEmpty
  BY DEF IInv, Emptied, FlushedEmpty
<1> QED
  BY <1>1, Inductive, PTL
--------------------------------------------------------------------------------
(* One thread, as in the userspace build.  What is stale is dirty, in the  *)
(* cache and in the reorder buffer; and only the oldest instruction may    *)
(* have begun, with no page of it dirty but by its own store.              *)
Marked ==
  \A t \in Threads : \A i \in 1..Len(rob[t]) :
    rob[t][i].stale => rob[t][i].pages \cap dirty # {}
Halves ==
  \A t \in Threads :
    /\ \A i \in 2..Len(rob[t]) : rob[t][i].left = rob[t][i].size
    /\ Len(rob[t]) > 0 /\ rob[t][1].left < rob[t][1].size =>
         /\ rob[t][1].pages \cap dirty \subseteq rob[t][1].wrote
         /\ smc[t] # {} => rob[t][1].wrote \cap smc[t] # {}
Fresh == StaleIsDirty /\ Marked /\ Halves

(* The youngest instructions, or all, are annulled. *)
LEMMA ShorterKeeps ==
  ASSUME Marked, Halves, dirty' = dirty,
         \A s \in Threads :
           /\ Len(rob[s]) \in Nat /\ Len(rob'[s]) \in 0..Len(rob[s])
           /\ \A i \in 1..Len(rob'[s]) : rob'[s][i] = rob[s][i]
           /\ smc'[s] = smc[s] \/ Len(rob'[s]) = 0
  PROVE  Marked' /\ Halves'
<1>1. Marked'
  BY DEF Marked
<1>2. Halves'
  <2> SUFFICES ASSUME NEW s \in Threads
               PROVE  /\ \A i \in 2..Len(rob'[s]) : rob'[s][i].left = rob'[s][i].size
                      /\ Len(rob'[s]) > 0 /\ rob'[s][1].left < rob'[s][1].size =>
                           /\ rob'[s][1].pages \cap dirty' \subseteq rob'[s][1].wrote
                           /\ smc'[s] # {} => rob'[s][1].wrote \cap smc'[s] # {}
    BY DEF Halves
  <2>1. \A i \in 2..Len(rob'[s]) : rob'[s][i] = rob[s][i] /\ i \in 2..Len(rob[s])
    OBVIOUS
  <2>2. Len(rob'[s]) > 0 => rob'[s][1] = rob[s][1] /\ Len(rob[s]) > 0 /\ smc'[s] = smc[s]
    OBVIOUS
  <2> QED
    BY <2>1, <2>2 DEF Halves
<1> QED
  BY <1>1, <1>2

LEMMA EmptyKeeps ==
  ASSUME \A s \in Threads : rob'[s] = <<>>
  PROVE  Marked' /\ Halves'
<1>1. Len(<<>>) = 0
  OBVIOUS
<1> QED
  BY <1>1 DEF Marked, Halves

(* A thread's whole flush, when it is the only one. *)
LEMMA OnlyThread ==
  ASSUME NEW t0, Threads = {t0}, NEW t \in Threads, IInv, rob' = [rob EXCEPT ![t] = <<>>]
  PROVE  \A s \in Threads : rob'[s] = <<>>
BY DEF IInv, Types
--------------------------------------------------------------------------------
(* Steps that neither store nor invalidate. *)
LEMMA QuietKeeps ==
  ASSUME IInv, Fresh, cache'.stale = cache.stale, cache.blocks \subseteq cache'.blocks,
         UNCHANGED <<dirty, rob, smc>>
  PROVE  Fresh'
<1>1. StaleIsDirty'
  BY DEF Fresh, StaleIsDirty
<1>2. Marked' /\ Halves'
  BY DEF Fresh, Marked, Halves
<1> QED
  BY <1>1, <1>2 DEF Fresh

LEMMA CacheShaped ==
  ASSUME IInv, NEW b
  PROVE  /\ Shaped(cache) /\ Same(cache, Release(cache, b))
         /\ \A x : Same(cache, Acquire(Release(cache, b), x)) /\ Same(cache, Acquire(cache, x))
<1>1. Shaped(cache)
  BY DEF IInv, Types, Caches, Shaped
<1>2. Same(cache, Release(cache, b))
  BY <1>1, SameStale
<1>3. ASSUME NEW x PROVE Same(cache, Acquire(Release(cache, b), x))
  <2>1. Same(Release(cache, b), Acquire(Release(cache, b), x))
    BY <1>2, SameStale DEF Same
  <2> QED
    BY <1>2, <2>1 DEF Same
<1>4. ASSUME NEW x PROVE Same(cache, Acquire(cache, x))
  BY <1>1, SameStale
<1> QED
  BY <1>1, <1>2, <1>3, <1>4

LEMMA FetchInstructionFresh ==
  ASSUME IInv, Fresh, NEW t \in Threads, FetchInstruction(t)
  PROVE  Fresh'
<1>1. PICK pages \in (SUBSET Span(current[t])) \ {{}}, n \in 1..2 :
        rob' = [rob EXCEPT ![t] = Append(@,
                 [pages |-> pages, left |-> n, size |-> n,
                  stale |-> cache.stale[current[t]] \cap pages # {}, wrote |-> {}])]
  BY DEF FetchInstruction
<1> DEFINE x == [pages |-> pages, left |-> n, size |-> n,
                 stale |-> cache.stale[current[t]] \cap pages # {}, wrote |-> {}]
<1>2. UNCHANGED <<cache, dirty, smc>> /\ current[t] \in Blocks
  BY DEF FetchInstruction, IInv, Types
<1>3. /\ x.left = x.size
      /\ x.stale => x.pages \cap dirty # {}
  <2>1. cache.stale[current[t]] \subseteq dirty
    BY <1>2 DEF Fresh, StaleIsDirty
  <2> QED
    BY <2>1
<1>4. x.left \in Int
  OBVIOUS
<1>5. rob' = [rob EXCEPT ![t] = Append(rob[t], x)]
  BY <1>1 DEF IInv, Types
<1> HIDE DEF x
<1>6. /\ \A s \in Threads : rob[s] \in Seq(Instructions) /\ Len(rob[s]) \in Nat
      /\ rob' = [s \in Threads |-> IF s = t THEN Append(rob[t], x) ELSE rob[s]]
  <2>1. rob \in [Threads -> Seq(Instructions)]
    BY DEF IInv, Types
  <2> DEFINE a == Append(rob[t], x)
  <2> HIDE DEF a
  <2>2. [rob EXCEPT ![t] = a] = [s \in Threads |-> IF s = t THEN a ELSE rob[s]]
    BY <2>1
  <2> QED
    BY <1>5, <2>1, <2>2 DEF a
<1>7. ASSUME NEW s \in Threads, NEW i \in 1..Len(rob'[s])
      PROVE  \/ i \in 1..Len(rob[s]) /\ rob'[s][i] = rob[s][i]
             \/ rob'[s][i] = x
  <2>1. CASE s = t
    <3>1. rob'[s] = Append(rob[s], x)
      BY <1>6, <2>1
    <3>2. rob[s] \in Seq(Instructions) /\ Len(rob'[s]) = Len(rob[s]) + 1
      BY <1>6, <3>1
    <3>3. CASE i = Len(rob[s]) + 1
      BY <3>1, <3>2, <3>3
    <3>4. CASE i # Len(rob[s]) + 1
      BY <3>1, <3>2, <3>4
    <3> QED
      BY <3>3, <3>4
  <2>2. CASE s # t
    BY <1>6, <2>2
  <2> QED
    BY <2>1, <2>2
<1>8. Marked'
  BY <1>2, <1>3, <1>7 DEF Fresh, Marked
<1>9. Halves'
  <2> SUFFICES ASSUME NEW s \in Threads
               PROVE  /\ \A i \in 2..Len(rob'[s]) : rob'[s][i].left = rob'[s][i].size
                      /\ Len(rob'[s]) > 0 /\ rob'[s][1].left < rob'[s][1].size =>
                           /\ rob'[s][1].pages \cap dirty \subseteq rob'[s][1].wrote
                           /\ smc[s] # {} => rob'[s][1].wrote \cap smc[s] # {}
    BY <1>2 DEF Halves
  <2>1. Len(rob'[s]) \in Nat
    BY <1>6
  <2>2. ASSUME NEW i \in 2..Len(rob'[s]) PROVE rob'[s][i].left = rob'[s][i].size
    <3>1. i \in 1..Len(rob'[s])
      OBVIOUS
    <3> QED
      BY <1>3, <1>7, <3>1 DEF Fresh, Halves
  <2>3. ASSUME Len(rob'[s]) > 0, rob'[s][1].left < rob'[s][1].size
        PROVE  /\ rob'[s][1].pages \cap dirty \subseteq rob'[s][1].wrote
               /\ smc[s] # {} => rob'[s][1].wrote \cap smc[s] # {}
    <3>1. rob'[s][1] # x
      BY <1>3, <1>4, <2>3
    <3>2. 1 \in 1..Len(rob[s]) /\ rob'[s][1] = rob[s][1]
      BY <1>7, <2>1, <2>3, <3>1
    <3> QED
      BY <1>6, <2>3, <3>2 DEF Fresh, Halves
  <2> QED
    BY <2>2, <2>3
<1> QED
  BY <1>2, <1>8, <1>9 DEF Fresh, StaleIsDirty

(* The store that commits marks what it overwrites, and its own page is    *)
(* the only one of its instruction that can be dirty from then on.         *)
LEMMA CommitFresh ==
  ASSUME NEW t0, Threads = {t0}, IInv, Fresh, NEW t \in Threads, Commit(t)
  PROVE  Fresh'
<1>1. PICK W \in SUBSET Pages :
        /\ cache' = Overwritten(cache, W) /\ dirty' = dirty \cup W
        /\ Committed(t, W)
        /\ UNCHANGED <<work, current, fetcher, smc, phase>>
  BY CommitIs DEF IInv
<1>2. StaleIsDirty'
  <2>1. /\ cache'.blocks = cache.blocks
        /\ \A b \in Blocks : cache'.stale[b] =
             cache.stale[b] \cup (IF b \in cache.blocks THEN Span(b) \cap W ELSE {})
    BY <1>1, OverwrittenIs DEF IInv, Types
  <2> QED
    BY <1>1, <2>1 DEF Fresh, StaleIsDirty
<1>3. ASSUME NEW s \in Threads, NEW i \in 1..Len(rob'[s]), rob'[s][i].stale
      PROVE  rob'[s][i].pages \cap dirty' # {}
  <2> DEFINE j == i + Shift(t, s)
  <2>1. /\ j \in 1..Len(rob[s]) /\ rob'[s][i].pages = rob[s][j].pages
        /\ rob[s][j].stale \/ rob[s][j].pages \cap W # {}
    BY <1>1, <1>3 DEF Committed
  <2> QED
    BY <1>1, <2>1 DEF Fresh, Marked
<1>4. /\ smc[t] = {} /\ rob[t] # <<>> /\ Head(rob[t]).pages \cap dirty = {}
      /\ rob[t] \in Seq(Instructions)
  BY DEF Commit, Ready, IsClean, IInv, Types
<1>5. Len(rob[t]) \in Nat \ {0} /\ rob[t][1].pages \cap dirty = {}
  BY <1>4
<1>6. Halves'
  <2> SUFFICES /\ \A i \in 2..Len(rob'[t]) : rob'[t][i].left = rob'[t][i].size
               /\ Len(rob'[t]) > 0 /\ rob'[t][1].left < rob'[t][1].size =>
                    /\ rob'[t][1].pages \cap dirty' \subseteq rob'[t][1].wrote
                    /\ smc'[t] # {} => rob'[t][1].wrote \cap smc'[t] # {}
    BY DEF Halves
  <2>1. smc'[t] = {}
    BY <1>1, <1>4
  <2>2. Shift(t, t) \in {0, 1} /\ Len(rob'[t]) = Len(rob[t]) - Shift(t, t)
    BY <1>1 DEF Committed, Shift
  <2>3. ASSUME NEW i \in 1..Len(rob'[t]), i # 1 \/ Shift(t, t) = 1
        PROVE  rob'[t][i].left = rob'[t][i].size
    <3> DEFINE j == i + Shift(t, t)
    <3>1. /\ j \in 1..Len(rob[t])
          /\ rob'[t][i].size = rob[t][j].size /\ rob'[t][i].left = rob[t][j].left
      BY <1>1, <2>3 DEF Committed
    <3>2. j \in 2..Len(rob[t])
      BY <1>5, <2>2, <2>3, <3>1
    <3> QED
      BY <3>1, <3>2 DEF Fresh, Halves
  <2>4. \A i \in 2..Len(rob'[t]) : i \in 1..Len(rob'[t])
    BY <1>5, <2>2
  <2>5. ASSUME Len(rob'[t]) > 0, rob'[t][1].left < rob'[t][1].size
        PROVE  rob'[t][1].pages \cap dirty' \subseteq rob'[t][1].wrote
    <3>1. 1 \in 1..Len(rob'[t])
      BY <1>5, <2>2, <2>5
    <3>2. rob'[t][1] \in Instructions
      <4>1. rob'[t] \in Seq(Instructions)
        BY <1>1 DEF Committed
      <4> QED
        BY <3>1, <4>1
    <3>3. Shift(t, t) = 0
      <4>1. rob'[t][1].left \in Int
        BY <3>2 DEF Instructions
      <4> QED
        BY <2>2, <2>3, <2>5, <3>1, <4>1
    <3>4. rob'[t][1].pages = rob[t][1].pages /\ rob'[t][1].wrote = W
      BY <1>1, <3>1, <3>3 DEF Committed
    <3> QED
      BY <1>1, <1>5, <3>4
  <2> QED
    BY <2>1, <2>3, <2>4, <2>5
<1> QED
  BY <1>2, <1>3, <1>6 DEF Fresh, Marked

(* When the one thread is flushed no block is in use, and the pages that   *)
(* become clean lose every block that spans them.                          *)
LEMMA HandleFresh ==
  ASSUME NEW t0, Threads = {t0}, IInv, Fresh, NEW t \in Threads, HandleSMC(t)
  PROVE  Fresh'
<1> DEFINE c == Release(cache, current[t])
<1>1. /\ work.pc = "idle" /\ work.block = None
      /\ cache' \in PagesInvalidated(c, smc[t]) /\ dirty' = dirty \ Requested(smc[t])
      /\ current' = [current EXCEPT ![t] = None]
      /\ rob' = [rob EXCEPT ![t] = <<>>]
      /\ smc[t] \in SUBSET Pages
  BY DEF IInv, HandleSMC, Cycle, Working, Types, Steps
<1>2. /\ c \in Caches /\ c.blocks = cache.blocks /\ c.stale = cache.stale
      /\ \A b \in Blocks : c.refs[b] = cache.refs[b] - (IF current[t] = b THEN 1 ELSE 0)
      /\ Agree(c, None)
  BY <1>1, ReleasedIs DEF IInv, Listing
<1>3. \A b \in Blocks : c.refs[b] = 0
  <2> SUFFICES ASSUME NEW b \in Blocks PROVE c.refs[b] = 0
    OBVIOUS
  <2>1. cache.refs[b] = Holders(b) /\ Holders(b) \in Nat
    BY <1>1, HoldersNat DEF IInv, Refs, Counted
  <2>2. /\ Holders(b)' = Holders(b) - (IF current[t] = b THEN 1 ELSE 0)
    BY <1>1, HoldersLeave DEF IInv
  <2>3. Holders(b)' = 0
    <3>1. \A u \in Threads : current'[u] # b
      BY <1>1, PagesAssumption DEF IInv, Types
    <3>2. {u \in Threads : current'[u] = b} = {}
      BY <3>1
    <3> QED
      BY <3>2, FS_EmptySet DEF Holders
  <2> HIDE DEF c
  <2> QED
    BY <1>2, <2>1, <2>2, <2>3
<1> HIDE DEF c
<1>4. /\ Frees(c, cache')
      /\ \A q \in smc[t] : (\A r \in smc[t] : q <= r) =>
           \A b \in cache'.blocks : q \notin Span(b) /\ q + 1 \notin Span(b)
  BY <1>1, <1>2, <1>3, PagesInvalidatedIs
<1>5. \A p \in Requested(smc[t]) : \A b \in cache'.blocks : p \notin Span(b)
  BY <1>4 DEF Requested
<1>6. StaleIsDirty'
  <2> SUFFICES ASSUME NEW b \in Blocks
               PROVE  /\ cache'.stale[b] \subseteq dirty' \cap Span(b)
                      /\ b \notin cache'.blocks => cache'.stale[b] = {}
    BY DEF StaleIsDirty
  <2>1. /\ cache.stale[b] \subseteq dirty \cap Span(b)
        /\ b \notin cache.blocks => cache.stale[b] = {}
    BY DEF Fresh, StaleIsDirty
  <2>2. cache'.stale[b] = IF b \in cache.blocks \ cache'.blocks THEN {} ELSE cache.stale[b]
    BY <1>2, <1>4 DEF Frees
  <2>3. CASE b \in cache'.blocks
    BY <1>1, <1>5, <2>1, <2>2, <2>3
  <2>4. CASE b \notin cache'.blocks
    BY <2>1, <2>2, <2>4
  <2> QED
    BY <2>3, <2>4
<1> QED
  BY <1>1, <1>6, OnlyThread, EmptyKeeps DEF Fresh

(* The rest of the steps of a thread. *)
LEMMA ThreadFresh ==
  ASSUME NEW t0, Threads = {t0}, IInv, Fresh, NEW t \in Threads,
         Redirect(t) \/ SpuriousFault(t) \/ DetectSMC(t)
  PROVE  Fresh'
<1> DEFINE c == Release(cache, current[t])
<1>1. c \in Caches /\ c.stale = cache.stale /\ c.blocks = cache.blocks
  BY ReleasedIs DEF IInv
<1>2. rob \in [Threads -> Seq(Instructions)] /\ \A s \in Threads : Len(rob[s]) \in Nat
  BY DEF IInv, Types
<1>3. CASE Redirect(t)
  <2>1. PICK n \in (IF Begun(t) THEN 1 ELSE 0)..Len(rob[t]) :
          rob' = [rob EXCEPT ![t] = SubSeq(@, 1, n)]
    BY <1>3 DEF Redirect
  <2>2. /\ cache' = c /\ UNCHANGED <<dirty, smc>>
        /\ rob' = [rob EXCEPT ![t] = SubSeq(rob[t], 1, n)] /\ n \in 0..Len(rob[t])
    <3>1. n \in 0..Len(rob[t])
      BY <1>2
    <3>2. cache' = c /\ UNCHANGED <<dirty, smc>>
      BY <1>3 DEF Redirect
    <3>3. rob' = [rob EXCEPT ![t] = SubSeq(rob[t], 1, n)]
      BY <1>2, <2>1
    <3> QED
      BY <3>1, <3>2, <3>3
  <2>3. StaleIsDirty'
    BY <1>1, <2>2, FreesNothing, FreesStale DEF Fresh
  <2>4. /\ Len(SubSeq(rob[t], 1, n)) = n
        /\ \A i \in 1..n : SubSeq(rob[t], 1, n)[i] = rob[t][i]
    BY <1>2, <2>2
  <2>5. \A s \in Threads :
          /\ Len(rob[s]) \in Nat /\ Len(rob'[s]) \in 0..Len(rob[s])
          /\ \A i \in 1..Len(rob'[s]) : rob'[s][i] = rob[s][i]
          /\ smc'[s] = smc[s] \/ Len(rob'[s]) = 0
    BY <1>2, <2>2, <2>4
  <2> QED
    BY <2>2, <2>3, <2>5, ShorterKeeps DEF Fresh
<1>4. CASE SpuriousFault(t)
  <2>1. /\ dirty' = dirty /\ rob' = [rob EXCEPT ![t] = <<>>]
        /\ \E b \in cache.blocks : cache' = Invalidated(c, {b} \cap Unreferenced(c))
    BY <1>4 DEF SpuriousFault
  <2>2. Frees(c, cache')
    <3>1. PICK b \in cache.blocks : cache' = Invalidated(c, {b} \cap Unreferenced(c))
      BY <2>1
    <3>2. {b} \cap Unreferenced(c) \in SUBSET Unreferenced(c)
      OBVIOUS
    <3> QED
      BY <1>1, <3>1, <3>2, InvalidatedFrees
  <2>3. StaleIsDirty'
    BY <1>1, <2>1, <2>2, FreesStale DEF Fresh
  <2> QED
    BY <2>1, <2>3, OnlyThread, EmptyKeeps DEF Fresh
<1>5. CASE DetectSMC(t)
  <2>1. /\ UNCHANGED <<cache, dirty, rob>>
        /\ smc' = [smc EXCEPT ![t] = Head(rob[t]).pages]
        /\ Head(rob[t]).pages \cap dirty # {} /\ rob[t] # <<>>
    BY <1>5 DEF DetectSMC, Ready, IsClean
  <2>2. Len(rob[t]) > 0 /\ Head(rob[t]) = rob[t][1]
    BY <1>2, <2>1
  <2>3. StaleIsDirty' /\ Marked'
    BY <2>1 DEF Fresh, StaleIsDirty, Marked
  <2>4. Halves'
    <3> SUFFICES ASSUME rob[t][1].left < rob[t][1].size
                 PROVE  /\ rob[t][1].pages \cap dirty \subseteq rob[t][1].wrote
                        /\ rob[t][1].wrote \cap smc'[t] # {}
      BY <2>1, <2>2 DEF Fresh, Halves
    <3>1. rob[t][1].pages \cap dirty \subseteq rob[t][1].wrote
      BY <2>2 DEF Fresh, Halves
    <3>2. smc'[t] = rob[t][1].pages
      BY <2>1, <2>2 DEF IInv, Types
    <3> QED
      BY <2>1, <2>2, <3>1, <3>2
  <2> QED
    BY <2>3, <2>4 DEF Fresh
<1> QED
  BY <1>3, <1>4, <1>5
LEMMA MachineFresh ==
  ASSUME IInv, Fresh, EndRun \/ Shutdown
  PROVE  Fresh'
<1>0. cache \in Caches
  BY DEF IInv, Types
<1>1. CASE EndRun
  <2>1. cache' = ReleasedAll(cache) /\ dirty' = dirty /\ rob' = [t \in Threads |-> <<>>]
    BY <1>1 DEF EndRun
  <2>2. cache'.stale = cache.stale /\ cache'.blocks = cache.blocks
    BY <1>0, <2>1 DEF ReleasedAll, Caches
  <2> QED
    BY <2>1, <2>2, EmptyKeeps DEF Fresh, StaleIsDirty
<1>2. CASE Shutdown
  <2> DEFINE c == Invalidated(cache, Unreferenced(cache))
  <2>1. cache' = [c EXCEPT !.lists = RestrictValues(@, LAMBDA l : l.blocks # {})]
        /\ UNCHANGED <<dirty, rob, smc>>
    BY <1>2 DEF Shutdown
  <2>2. Frees(cache, c)
    <3>1. Unreferenced(cache) \in SUBSET Unreferenced(cache)
      OBVIOUS
    <3> QED
      BY <1>0, <3>1, InvalidatedFrees
  <2> HIDE DEF c
  <2>3. cache'.stale = c.stale /\ cache'.blocks = c.blocks
    BY <2>1, <2>2 DEF Frees, Caches
  <2>4. StaleIsDirty'
    BY <2>1, <2>2, <2>3 DEF Fresh, StaleIsDirty, Frees
  <2> QED
    BY <2>1, <2>4 DEF Fresh, Marked, Halves
<1> QED
  BY <1>1, <1>2

LEMMA NextFresh ==
  ASSUME NEW t0, Threads = {t0}, IInv, Fresh, [Next]_vars
  PROVE  Fresh'
<1>0. cache \in Caches
  BY DEF IInv, Types
<1>1. CASE Reclaim /\ UNCHANGED <<current, fetcher, rob, smc, phase>>
  <2>1. Frees(cache, cache') /\ dirty' = dirty
    BY <1>0, <1>1, ReclaimIs DEF Reclaim
  <2>2. StaleIsDirty'
    BY <2>1, FreesStale DEF Fresh
  <2> QED
    BY <1>1, <2>1, <2>2 DEF Fresh, Marked, Halves
<1>2. CASE TranslateStep /\ UNCHANGED <<current, fetcher, rob, smc, phase>>
  <2>1. dirty' = dirty
    BY <1>2 DEF TranslateStep, Insert, LockLo, AddLo, LockHi, AddHi
  <2> QED
    BY <1>2, <2>1, TranslateStale DEF Fresh, Marked, Halves, IInv, Types
<1>3. CASE Hold
  <2>1. Same(cache, cache') /\ UNCHANGED <<dirty, rob, smc>>
    BY <1>3, CacheShaped DEF Hold
  <2> QED
    BY <2>1, QuietKeeps DEF Same
<1>4. CASE Synthesize \/ Rerun \/ UNCHANGED vars
  <2>1. UNCHANGED <<cache, dirty, rob, smc>>
    BY <1>4 DEF Synthesize, Rerun, vars
  <2> QED
    BY <2>1, QuietKeeps
<1>5. ASSUME NEW t \in Threads, NEW b \in Blocks, Fetch(t, b) PROVE Fresh'
  <2>1. Same(cache, cache') /\ UNCHANGED <<dirty, rob, smc>>
    <3>1. \/ cache' = Release(cache, current[t])
          \/ cache' = Acquire(Release(cache, current[t]), b)
      BY <1>5 DEF Fetch
    <3>2. UNCHANGED <<dirty, rob, smc>>
      BY <1>5 DEF Fetch
    <3> QED
      BY <3>1, <3>2, CacheShaped
  <2> QED
    BY <2>1, QuietKeeps DEF Same
<1>6. CASE \E t \in Threads : FetchInstruction(t) \/ Commit(t) \/ HandleSMC(t)
  BY <1>6, FetchInstructionFresh, CommitFresh, HandleFresh
<1>7. CASE \E t \in Threads : Redirect(t) \/ DetectSMC(t) \/ SpuriousFault(t)
  BY <1>7, ThreadFresh
<1>8. CASE EndRun \/ Shutdown
  BY <1>8, MachineFresh
<1> QED
  BY <1>1, <1>2, <1>3, <1>4, <1>5, <1>6, <1>7, <1>8 DEF Next

LEMMA InitFresh == OooInit => Fresh
<1> SUFFICES ASSUME OooInit PROVE Fresh
  OBVIOUS
<1>1. cache.stale = [b \in Blocks |-> {}] /\ rob = [t \in Threads |-> <<>>]
  BY DEF OooInit, Init, EmptyCache
<1>2. Len(<<>>) = 0
  OBVIOUS
<1> QED
  BY <1>1, <1>2 DEF Fresh, StaleIsDirty, Marked, Halves

LEMMA InductiveFresh ==
  ASSUME NEW t0, Threads = {t0}
  PROVE  Spec => [](IInv /\ Fresh)
<1>1. OooInit => IInv /\ Fresh
  BY InitIInv, InitFresh
<1>2. IInv /\ Fresh /\ [Next]_vars => (IInv /\ Fresh)'
  BY NextIInv, NextFresh
<1> QED
  BY <1>1, <1>2, PTL DEF Spec

(* With one hardware thread, no instruction whose bytes an older committed *)
(* store has overwritten starts to commit.                                 *)
THEOREM CommitsFresh ==
  ASSUME NEW t0, Threads = {t0}
  PROVE  Spec => []NoStaleCommit
<1>1. IInv /\ Fresh => NoStaleCommit
  <2> SUFFICES ASSUME IInv, Fresh, NEW t \in Threads, Ready(t), IsClean(t) PROVE ~Head(rob[t]).stale
    BY DEF NoStaleCommit
  <2>1. rob[t] \in Seq(Instructions) /\ rob[t] # <<>>
    BY DEF IInv, Types, Ready
  <2>2. 1 \in 1..Len(rob[t]) /\ Head(rob[t]) = rob[t][1]
    BY <2>1
  <2> QED
    BY <2>2 DEF Fresh, Marked, IsClean
<1> QED
  BY <1>1, InductiveFresh, PTL

(* With one hardware thread, an instruction is cut in two by the check for *)
(* self-modifying code only if it overwrote its own page.                  *)
THEOREM CutsSound ==
  ASSUME NEW t0, Threads = {t0}
  PROVE  Spec => []CutByOwnStoreOnly
<1>1. IInv /\ Fresh => CutByOwnStoreOnly
  <2> SUFFICES ASSUME IInv, Fresh, NEW t \in Threads, smc[t] # {}, Begun(t)
               PROVE  Head(rob[t]).wrote \cap smc[t] # {}
    BY DEF CutByOwnStoreOnly
  <2>1. rob[t] \in Seq(Instructions) /\ rob[t] # <<>>
    BY DEF IInv, Types, Begun
  <2>2. Len(rob[t]) > 0 /\ Head(rob[t]) = rob[t][1]
    BY <2>1
  <2> QED
    BY <2>2 DEF Fresh, Halves, Begun
<1> QED
  BY <1>1, InductiveFresh, PTL
================================================================================
