------------------------------ MODULE GatingLib ------------------------------
(***************************************************************************)
(* One simulated functional unit (class FunctionalUnit of                  *)
(* ptlsim/gatinglib.h and gatinglib.cpp) as a record, and the three        *)
(* operations the simulator applies to it: synchronize, turnOff, turnOn.   *)
(*                                                                         *)
(* Times are tick_t values.  The power level of a rising unit is kept in   *)
(* the only form later code reads it: "charge", the ticks of rise the      *)
(* unit already has at the start of the transition,                        *)
(* (tick_t)((onLatency/onPower) * lastPeakPower).  Accumulated energy and  *)
(* the two transition-time totals are not kept: nothing reads them back.   *)
(*                                                                         *)
(* lat = [on |-> onLatency, off |-> offLatency].                           *)
(***************************************************************************)
EXTENDS Integers

(* enum FunctionalUnitStatus *)
Statuses == {"OFF", "OFF_TRANSITION", "ON_TRANSITION", "ON"}
InTransition(u) == u.status \in {"OFF_TRANSITION", "ON_TRANSITION"}

(* The constructor: every unit starts ON at tick 0. *)
NewUnit(isValid) ==
  [status |-> "ON", nextClock |-> 0, onTime |-> 0, transitionTime |-> 0,
   charge |-> 0, totalOnTime |-> 0, totalOffTime |-> 0, valid |-> isValid]

(***************************************************************************)
(* (tick_t)(n/d) computed in double precision, n/d a power level scaled to *)
(* ticks.  The cast truncates towards zero; when n/d is a whole number the *)
(* rounding of the product may leave it just short of it.                  *)
(***************************************************************************)
Truncations(n, d) ==
  LET q == IF n >= 0 THEN n \div d ELSE -((-n) \div d)
  IN  {q} \cup {r \in {q - 1} : n > 0 /\ n % d = 0}
          \cup {r \in {q + 1} : n < 0 /\ n % d = 0}

(* Mutant: the completed transition keeps the onTime of the spell before. *)
SynchronizeKeepsOnTime(u, now) ==
  IF u.nextClock > now \/ ~InTransition(u) THEN u
  ELSE IF u.status = "ON_TRANSITION"
       THEN [u EXCEPT !.status = "ON", !.transitionTime = u.nextClock]
       ELSE [u EXCEPT !.status = "OFF", !.transitionTime = u.nextClock]

(***************************************************************************)
(* The lazy completion of a transition.  An ON transition that completes   *)
(* sets onTime to the tick of the call; both record its scheduled end.     *)
(***************************************************************************)
Synchronize(u, now) ==
  IF u.nextClock > now \/ ~InTransition(u) THEN u
  ELSE IF u.status = "ON_TRANSITION"
       THEN [u EXCEPT !.status = "ON", !.onTime = now, !.transitionTime = u.nextClock]
       ELSE [u EXCEPT !.status = "OFF", !.transitionTime = u.nextClock]

(***************************************************************************)
(* assert((powerTotal - powerNotConsumed) >= 0): a rise that took less     *)
(* than onLatency subtracts a triangle whose side is the unsigned          *)
(* difference onLatency - transitionTime, which wraps to about 2^64 when   *)
(* the transition began after tick onLatency.                              *)
(***************************************************************************)
EnergyAssertHolds(u, now, lat) ==
  (u.status = "ON_TRANSITION" /\ u.nextClock <= now /\ now - u.transitionTime < lat.on)
    => u.transitionTime <= lat.on

(***************************************************************************)
(* turnOff.  A rise interrupted after k ticks' worth of charge falls for   *)
(* offLatency - (tick_t)((onLatency - k) * offLatency / onLatency).  A     *)
(* negative k wraps as a tick_t, the level becomes about 2^64, and the     *)
(* fall is scheduled far ahead of every other tick: wrap ticks ahead.      *)
(***************************************************************************)
FallTimesWhole(k, lat, wrap) == {lat.off}  \* mutant: as if the rise had completed
FallTimes(k, lat, wrap) ==
  IF k >= 0
  THEN {lat.off - t : t \in Truncations((lat.on - k) * lat.off, lat.on)}
  ELSE {lat.off + wrap}

(* What a unit that is on adds to totalOnTime when it is turned off, and   *)
(* two mutants: the difference swapped, and the addition forgotten.        *)
SpellSwapped(u, now) == u.onTime - now
SpellForgotten(u, now) == 0
Spell(u, now) == now - u.onTime

TurnOff(u, now, lat, wrap) ==
  CASE u.status \in {"OFF", "OFF_TRANSITION"} -> {u}
    [] u.status = "ON" ->
         {[u EXCEPT !.status = "OFF_TRANSITION", !.transitionTime = now,
                    !.nextClock = now + lat.off,
                    !.totalOnTime = @ + Spell(u, now)]}
    [] u.status = "ON_TRANSITION" ->
         {[u EXCEPT !.status = "OFF_TRANSITION", !.transitionTime = now,
                    !.nextClock = now + t] :
            t \in FallTimes((now - u.transitionTime) + u.charge, lat, wrap)}

(***************************************************************************)
(* turnOn.  A fall scheduled for prev ticks and interrupted after charged  *)
(* of them is taken to be at level (2*prev - offLatency - charged)/prev of *)
(* onPower, and the rise needs onLatency less that share of onLatency.     *)
(* When prev is the wrapped value, offLatency - prev wraps too and the     *)
(* level is (2*offLatency - onLatency)/offLatency, or 0 if the cast of     *)
(* the level in turnOff saturated.                                         *)
(***************************************************************************)
ChargesTwice(prev, charged, lat) ==  \* mutant: the time charged counts twice
  Truncations(lat.on * (2 * prev - lat.off - 2 * charged), prev)
Charges(prev, charged, lat) ==
  IF prev <= lat.off
  THEN Truncations(lat.on * (2 * prev - lat.off - charged), prev)
  ELSE IF 2 * lat.off >= lat.on THEN {0}
       ELSE Truncations(lat.on * (2 * lat.off - lat.on), lat.off)

TurnOn(u, now, lat) ==
  CASE u.status \in {"ON", "ON_TRANSITION"} -> {[u EXCEPT !.valid = TRUE]}
    [] u.status = "OFF" ->
         {[u EXCEPT !.status = "ON_TRANSITION", !.transitionTime = now,
                    !.nextClock = now + lat.on, !.charge = 0, !.valid = TRUE,
                    !.totalOffTime = @ + (now - u.transitionTime)]}
    [] u.status = "OFF_TRANSITION" ->
         {[u EXCEPT !.status = "ON_TRANSITION", !.transitionTime = now,
                    !.nextClock = now + (lat.on - c), !.charge = c, !.valid = TRUE] :
            c \in Charges(u.nextClock - u.transitionTime, now - u.transitionTime, lat)}

(***************************************************************************)
(* A rise of k ticks that is interrupted and resumed at once resumes with  *)
(* at most k ticks of charge: what the fall gains by its truncation to     *)
(* whole ticks is less than a tick of rise.  A question of the latencies.  *)
(***************************************************************************)
KeepsLevel(lat) ==
  \A k \in 0..lat.on - 2 : \A p \in FallTimes(k, lat, 1) :
    lat.on * (2 * p - lat.off) < (k + 1) * p

(* getTimeSpentOn and getTimeSpentOff: both synchronize first. *)
TimeSpentOn(u, now) ==
  LET s == Synchronize(u, now)
  IN  s.totalOnTime + (IF s.status = "ON" THEN now - s.onTime ELSE 0)
TimeSpentOff(u, now) ==
  LET s == Synchronize(u, now)
  IN  s.totalOffTime + (IF s.status = "OFF" THEN now - s.transitionTime ELSE 0)
=============================================================================
