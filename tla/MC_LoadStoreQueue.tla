--------------------------- MODULE MC_LoadStoreQueue ---------------------------
(* Programs for the load and store queues of two threads. *)
EXTENDS LoadStoreQueue, TLC

CONSTANTS t1, t2, a, b

(* An instruction of one uop at position i. *)
Uop(kind, i, c, bytes, src, holds) ==
  [kind |-> kind, chunk |-> c, bytes |-> bytes, src |-> src, holds |-> holds,
   locked |-> FALSE, som |-> i, eom |-> i]
Ld(i, c, bytes) == Uop("ld", i, c, bytes, 0, {})
St(i, c, bytes, src) == Uop("st", i, c, bytes, src, {})
Mf(i, holds) == Uop("mf", i, None, {}, 0, holds)

(* A locked instruction: mf, ld.acq, st.rel, mf, from position i on. *)
Locked(i, c, bytes) ==
  LET in(u) == [u EXCEPT !.som = i, !.eom = i + 3]
      acq(u) == [in(u) EXCEPT !.locked = TRUE]
  IN  <<in(Mf(i, {"ld", "st"})), acq(Ld(i + 1, c, bytes)),
        acq(St(i + 2, c, bytes, i + 1)), in(Mf(i + 3, {"ld", "st"}))>>

(* cmpxchg8b: two locked loads of four bytes each, of one 8-byte chunk. *)
Cmpxchg8b ==
  LET in(u) == [u EXCEPT !.som = 1, !.eom = 6]
      acq(u) == [in(u) EXCEPT !.locked = TRUE]
  IN  <<in(Mf(1, {"ld", "st"})), acq(Ld(2, a, {1})), acq(Ld(3, a, {2})),
        acq(St(4, a, {1}, 3)), acq(St(5, a, {2}, 3)), in(Mf(6, {"ld", "st"}))>>

Alone(p) == (t1 :> p) @@ (t2 :> <<>>)

MC_Programs ==
  { (* A store per byte, and loads of both between and behind them. *)
    Alone(<<St(1, a, {1}, 0), St(2, a, {2}, 0), Ld(3, a, {1, 2}), St(4, a, {1}, 3), Ld(5, a, {1})>>),
    (* Stores of loaded data, to the chunk of a later load and to another. *)
    Alone(<<Ld(1, a, {1}), St(2, b, {1}, 1), Ld(3, b, {1, 2}), St(4, a, {1, 2}, 3), Ld(5, a, {1, 2})>>),
    (* Fences for loads, for stores and for both. *)
    Alone(<<St(1, a, {1}, 0), Mf(2, {"ld"}), Ld(3, a, {1}), Mf(4, {"st"}), St(5, a, {1}, 0)>>),
    (* Two locked updates of a chunk, one after a plain store to it. *)
    (t1 :> Locked(1, a, {1})) @@ (t2 :> <<St(1, a, {1}, 0)>> \o Locked(2, a, {1})),
    (* A locked update against a store of the other half, and a load. *)
    (t1 :> Locked(1, a, {1}) \o <<Ld(5, a, {1})>>) @@ (t2 :> <<Ld(1, a, {1}), St(2, a, {2}, 1)>>),
    (* Locked updates of two chunks. *)
    (t1 :> Locked(1, a, {1})) @@ (t2 :> Locked(1, b, {1})),
    (* Unlocked stores of two threads to one chunk, and a fence between two. *)
    (t1 :> <<St(1, a, {1}, 0), St(2, a, {2}, 0), Mf(3, {"st"}), St(4, a, {2}, 0)>>)
      @@ (t2 :> <<St(1, a, {1, 2}, 0), Ld(2, a, {1})>>) }

(* What the theorem about double locking assumes. *)
ASSUME ProgramsAssumption == \A p \in MC_Programs : LockedAlone(p)

MC_Cmpxchg8b == {Alone(Cmpxchg8b)}
================================================================================
