----------------------------- MODULE MC_DataCache -----------------------------
(* Small instances of the data cache: two threads, two slots, and lines    *)
(* that are private (and one prefetched) or shared with a prefetch.        *)
EXTENDS DataCache, TLC

CONSTANTS t1, t2, la, lb, lp

LinesOfThreads == t1 :> {la} @@ t2 :> {lb}
TwoLevels == <<1, 2>>
===============================================================================
