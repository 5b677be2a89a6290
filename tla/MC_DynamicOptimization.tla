------------------------ MODULE MC_DynamicOptimization -------------------------
(* Small instances of dynamic optimization: f1, also a static constructor,  *)
(* has a loop and is run by the main thread only, s is run by both threads.  *)
EXTENDS DynamicOptimization, TLC

CONSTANTS t1, t2, f1, s, fe, fl, se

RunsBoth  == t1 :> {f1, s} @@ t2 :> {s}
OwnerOf   == fe :> f1 @@ fl :> f1 @@ se :> s
EntryOf   == f1 :> fe @@ s :> se
PastOf    == fe :> 1 @@ fl :> 0 @@ se :> 0
DepthOf   == t1 :> 2 @@ t2 :> 1
===============================================================================
