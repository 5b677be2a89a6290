---------------------------- MODULE FunctionalUnit ----------------------------
(***************************************************************************)
(* One functional unit driven by gating requests.  The simulator calls     *)
(* turnOn, turnOff and synchronize with its clock, which may not move      *)
(* between two calls: two GATE instructions are decoded in one cycle when  *)
(* their basic blocks are fetched in one cycle.                            *)
(***************************************************************************)
EXTENDS GatingLib

CONSTANTS
  OnLatency,   \* ticks a full wake-up takes
  OffLatency,  \* ticks a full shut-down takes
  Wrap,        \* how far ahead a wrapped fall is scheduled (2^63 in the build)
  MaxTime      \* bound on the clock

ASSUME LatencyAssumption == OnLatency \in Nat \ {0} /\ OffLatency \in Nat \ {0}
ASSUME BoundAssumption == Wrap \in Nat \ {0} /\ MaxTime \in Nat

VARIABLES
  fu,      \* the unit
  now,     \* the tick passed to the calls
  fault,   \* the assertion that stopped the simulator, or "none"
  leftOff, \* history: the tick at which the unit last left OFF, or -1
  chain    \* history: transitions interrupted since it was ON or OFF, 2 for more

vars == <<fu, now, fault, leftOff, chain>>

Lat == [on |-> OnLatency, off |-> OffLatency]

Init ==
  /\ fu = NewUnit(FALSE)
  /\ now = 0
  /\ fault = "none"
  /\ leftOff = -1
  /\ chain = 0

Tick ==
  /\ fault = "none"
  /\ now < MaxTime
  /\ now' = now + 1
  /\ UNCHANGED <<fu, fault, leftOff, chain>>

(* Every operation synchronizes first and dies on synchronize's assertion. *)
EnergyAbort ==
  /\ fault = "none"
  /\ ~EnergyAssertHolds(fu, now, Lat)
  /\ fault' = "energy"
  /\ UNCHANGED <<fu, now, leftOff, chain>>

Running == fault = "none" /\ EnergyAssertHolds(fu, now, Lat)

(* The interruptions after a request made v of the synchronized unit s,    *)
(* which had seen n of them.                                               *)
Interrupted(n, s, v) ==
  IF v.status = s.status THEN n
  ELSE IF ~InTransition(s) THEN 0 ELSE IF n = 0 THEN 1 ELSE 2

(* The outcome v of a request, unless assert(nextClock > now) fails on it; *)
(* and a mutant without the assertion.                                     *)
SettleUnchecked(v) ==
  fu' = v /\ chain' = Interrupted(chain, Synchronize(fu, now), v) /\ UNCHANGED fault
Settle(v) ==
  IF InTransition(v) /\ v.nextClock <= now
  THEN fault' = "nextClock" /\ UNCHANGED <<fu, chain>>
  ELSE fu' = v /\ chain' = Interrupted(chain, Synchronize(fu, now), v) /\ UNCHANGED fault

RequestOff ==
  /\ Running
  /\ \E v \in TurnOff(Synchronize(fu, now), now, Lat, Wrap) : Settle(v)
  /\ UNCHANGED <<now, leftOff>>

RequestOn ==
  /\ Running
  /\ \E v \in TurnOn(Synchronize(fu, now), now, Lat) : Settle(v)
  /\ leftOff' = IF Synchronize(fu, now).status = "OFF" THEN now ELSE leftOff
  /\ UNCHANGED now

(* functionalUnitAvailable, getTotalPower and dumpStats only synchronize.  *)
Poll ==
  /\ Running
  /\ Synchronize(fu, now) # fu
  /\ fu' = Synchronize(fu, now)
  /\ UNCHANGED <<now, fault, leftOff, chain>>

Next == Tick \/ EnergyAbort \/ RequestOff \/ RequestOn \/ Poll

Spec == Init /\ [][Next]_vars
-----------------------------------------------------------------------------
(* The variables have their types, and the clock readings of the unit their *)
(* order: the start of the last transition and, while the unit is on, the  *)
(* tick it was completed at lie in the past, and the scheduled end of a    *)
(* transition lies after its start (transitionTime, onTime and nextClock   *)
(* of gatinglib.h), however requests interrupt it.                         *)
TypeOK ==
  /\ fu \in [status : Statuses, nextClock : Int, onTime : Nat, transitionTime : Nat,
             charge : Int, totalOnTime : Nat, totalOffTime : Nat, valid : BOOLEAN]
  /\ fu.transitionTime <= now
  /\ fu.status = "ON" => fu.onTime <= now
  /\ InTransition(fu) => fu.nextClock > fu.transitionTime
  /\ now \in Nat
  /\ fault \in {"none", "energy", "nextClock"}
  /\ leftOff \in Nat \cup {-1}
  /\ chain \in 0..2

(* The on-time and the off-time dumpStats prints are times of disjoint     *)
(* stretches of the run, so together they never exceed the elapsed time,   *)
(* however requests interrupt transitions and whenever the lazy            *)
(* synchronize runs (turnOff, turnOn, synchronize of gatinglib.cpp).       *)
OnOffDisjoint == TimeSpentOn(fu, now) + TimeSpentOff(fu, now) <= now

(* What getTimeSpentOn and getTimeSpentOff report never shrinks from one   *)
(* query to the next, whatever call comes in between.                      *)
ReportsGrow ==
  [][ /\ TimeSpentOn(fu, now)' >= TimeSpentOn(fu, now)
      /\ TimeSpentOff(fu, now)' >= TimeSpentOff(fu, now) ]_vars

(* A unit that was fully off is never available (checkAvailable) before a  *)
(* full onLatency has passed, even if the wake-up is interrupted and       *)
(* resumed from the power level the code computes.                         *)
NeverAvailableEarly ==
  (fu.status = "ON" /\ leftOff # -1) => now - leftOff >= OnLatency

(* A transition from a steady level, and one that interrupts it, end within *)
(* their full latency.  Only further interruptions, which resume from the   *)
(* wrong level (gatinglib.cpp:234), may take longer.                        *)
SettlesInTime ==
  chain < 2 =>
    /\ fu.status = "ON_TRANSITION" => fu.nextClock - fu.transitionTime <= OnLatency
    /\ fu.status = "OFF_TRANSITION" => fu.nextClock - fu.transitionTime <= OffLatency

(* The simulator's own assertions on a unit never fail: a transition ends   *)
(* after the tick it starts at (gatinglib.cpp:181, 252: assert(nextClock >  *)
(* now)), and a completed rise consumed no negative energy (290).           *)
AssertionsHold == fault = "none"
=============================================================================
