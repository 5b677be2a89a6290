------------------------- MODULE FunctionalUnitManager -------------------------
(***************************************************************************)
(* All functional units under their manager (class FunctionalUnitManager   *)
(* of ptlsim/gatinglib.cpp).  Decoding a GATE instruction hands a mask to  *)
(* processAtIssue; decoding the 0x0f39 instruction, which the JIT executes *)
(* before the program, starts the measured run; flushing the basic block   *)
(* cache at the end of the simulation dumps the statistics.                *)
(*                                                                         *)
(* Units are named by the compiler's numbers (lib/Target/X86/PowerGating.h,*)
(* FUT_INT_ADD_ARITH = 1), which are bit positions of a mask.  A mask is   *)
(* the set of its one bits, without bit 0, which is no unit's (FUT_NONE).  *)
(***************************************************************************)
EXTENDS GatingLib

CONSTANTS
  N,           \* number of units
  OnLatency, OffLatency,  \* their latencies, as functions of the unit
  AlwaysShown, \* units constructed as valid: dumped even if never turned on
  Wrap,        \* how far ahead a wrapped fall is scheduled (2^63 in the build)
  TickModulus, \* tick_t values are taken modulo this (2^64 in the build)
  MaxTime      \* bound on the clock

Units == 1..N
Masks == SUBSET Units

ASSUME UnitsAssumption ==
  /\ N \in Nat
  /\ OnLatency \in [Units -> Nat \ {0}] /\ OffLatency \in [Units -> Nat \ {0}]
  /\ Wrap \in Nat \ {0} /\ TickModulus \in Nat \ {0} /\ MaxTime \in Nat

VARIABLES
  units,   \* the units
  clock,   \* sim_cycle
  offset,  \* the tick the measured run began at; uninitialized before
  phase,   \* "loading", "measured", "dumped", or "aborted" by an assertion
  mask     \* history: the last mask

vars == <<units, clock, offset, phase, mask>>

Lat(u) == [on |-> OnLatency[u], off |-> OffLatency[u]]

Init ==
  /\ units = [u \in Units |-> NewUnit(u \in AlwaysShown)]
  /\ clock = 0
  /\ offset \in 0..MaxTime
  /\ phase = "loading"
  /\ mask = Units

Simulating == phase \in {"loading", "measured"}

Tick ==
  /\ Simulating
  /\ clock < MaxTime
  /\ clock' = clock + 1
  /\ UNCHANGED <<units, offset, phase, mask>>

(* The JIT executes 0x0f39 once before it calls the program; only the      *)
(* program's code has GATE instructions.                                   *)
InitializationComplete ==
  /\ phase = "loading"
  /\ phase' = "measured"
  /\ offset' = clock
  /\ UNCHANGED <<units, clock, mask>>

(* realTime in processAtIssue, and a mutant that forgets the offset. *)
RawTime == clock
RequestTime == clock - offset

(* Bit i of mask >> 1 belongs to the unit at index i, the compiler's unit  *)
(* i + 1, and a mutant without the shift.                                  *)
SelectedUnshifted(m, u) == u - 1 \in m
Selected(m, u) == u \in m

(* The outcomes of the request m for unit u. *)
Served(m, u) ==
  LET s == Synchronize(units[u], RequestTime)
  IN  IF Selected(m, u) THEN TurnOn(s, RequestTime, Lat(u))
                        ELSE TurnOff(s, RequestTime, Lat(u), Wrap)

(* The assertions a request evaluates on a unit that becomes v. *)
Accepted(u, v) ==
  /\ EnergyAssertHolds(units[u], RequestTime, Lat(u))
  /\ InTransition(v) => v.nextClock > RequestTime

(* One GATE: every unit is turned on or off, at the same tick. *)
ProcessAtIssue(m) ==
  /\ phase = "measured"
  /\ \E next \in [Units -> UNION {Served(m, u) : u \in Units}] :
       /\ \A u \in Units : next[u] \in Served(m, u)
       /\ IF \A u \in Units : Accepted(u, next[u])
          THEN units' = next /\ mask' = m /\ UNCHANGED phase
          ELSE phase' = "aborted" /\ UNCHANGED <<units, mask>>
  /\ UNCHANGED <<clock, offset>>

(* dumpStats synchronizes on the clock and reads on the run's time. *)
DumpStats ==
  /\ Simulating
  /\ IF \A u \in Units : EnergyAssertHolds(units[u], clock, Lat(u))
     THEN phase' = "dumped" /\ units' = [u \in Units |-> Synchronize(units[u], clock)]
     ELSE phase' = "aborted" /\ UNCHANGED units
  /\ UNCHANGED <<clock, offset, mask>>

(* The TotalOnTime it prints for unit u. *)
PrintedOnTime(u) == TimeSpentOn(units[u], clock - offset) % TickModulus

Next ==
  \/ Tick \/ InitializationComplete \/ DumpStats
  \/ \E m \in Masks : ProcessAtIssue(m)

Spec == Init /\ [][Next]_vars
-----------------------------------------------------------------------------
TypeOK ==
  /\ units \in [Units -> [status : Statuses, nextClock : Int, onTime : Nat,
                          transitionTime : Nat, charge : Int, totalOnTime : Nat,
                          totalOffTime : Nat, valid : BOOLEAN]]
  /\ clock \in Nat /\ offset \in Nat /\ mask \in Masks
  /\ phase \in {"loading", "measured", "dumped", "aborted"}

(* Requests keep the promise of GatedUnits.  A unit is available when       *)
(* functionalUnitAvailable would say so: it completes an overdue transition *)
(* before it looks (gatinglib.cpp:111).                                     *)
Available == {u \in Units : Synchronize(units[u], clock - offset).status = "ON"}
Gated == INSTANCE GatedUnits WITH wanted <- mask, available <- Available
RequestsImplementGating == Gated!Spec

(* Until the dump the accounted times of every unit lie within the         *)
(* measured run: what was spent before 0x0f39 is in none of them.          *)
AccountedWithinRun ==
  phase = "measured" =>
    \A u \in Units :
      TimeSpentOn(units[u], clock - offset) + TimeSpentOff(units[u], clock - offset)
        <= clock - offset

(* "Percent Time On" (gatinglib.cpp:464), the printed on-time over the time *)
(* of the run, is at most one hundred percent.                              *)
PercentInRange ==
  phase = "dumped" =>
    \A u \in Units : units[u].valid => PrintedOnTime(u) <= (clock - offset) % TickModulus
=============================================================================
