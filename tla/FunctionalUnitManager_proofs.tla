---------------------- MODULE FunctionalUnitManager_proofs ----------------------
(***************************************************************************)
(* Proofs about the manager for any number of units and any latencies: it  *)
(* implements GatedUnits, and before the dump its accounts are relative to *)
(* the measured run.                                                       *)
(***************************************************************************)
EXTENDS FunctionalUnitManager, GatingLib_proofs

(* Whether the unit is on or on its way. *)
Rising(v) == v.status \in {"ON", "ON_TRANSITION"}

(* A unit as it is constructed, at whatever time it is first looked at. *)
Fresh(v) ==
  v \in Unit /\ Rising(v) /\ v.status = "ON" /\ \A t \in Nat : Sound(v, t)

(* Before the measured run no unit was ever gated; during it every unit is  *)
(* sound on the run's own time, and at all times it follows its mask bit.   *)
Wanted == mask \subseteq Units /\ \A u \in Units : Rising(units[u]) <=> u \in mask
RunSound ==
  /\ phase = "loading" =>
       \A u \in Units : Fresh(units[u])
  /\ phase = "measured" =>
       offset <= clock /\ \A u \in Units : Sound(units[u], clock - offset)
IInv ==
  /\ units \in [Units -> Unit]
  /\ clock \in Nat /\ offset \in Nat
  /\ phase \in {"loading", "measured", "dumped", "aborted"}
  /\ Wanted
  /\ RunSound

LEMMA LatIsLatencies ==
  /\ Wrap \in Nat \ {0}
  /\ \A u \in Units : Lat(u) \in Latencies
BY UnitsAssumption DEF Lat, Latencies

(* A unit that is constructed is fresh. *)
LEMMA NewUnitFresh == \A u \in Units : Fresh(NewUnit(u \in AlwaysShown))
<1>1. Fresh(NewUnit(TRUE)) /\ Fresh(NewUnit(FALSE))
  BY DEF Fresh, NewUnit, Unit, Statuses, Rising, Sound, InTransition, AccountedUntil
<1>2. ASSUME NEW u \in Units PROVE (u \in AlwaysShown) = TRUE \/ (u \in AlwaysShown) = FALSE
  OBVIOUS
<1> QED
  BY <1>1, <1>2, Zenon

(* Completing a transition changes neither the type nor the direction. *)
LEMMA SynchronizeRising ==
  ASSUME NEW v \in Unit, NEW t \in Int
  PROVE  /\ Rising(Synchronize(v, t)) <=> Rising(v)
         /\ Synchronize(v, t).status = "ON" <=>
              (v.status = "ON" \/ (v.status = "ON_TRANSITION" /\ v.nextClock <= t))
<1> DEFINE s == Synchronize(v, t)
<1>1. CASE v.nextClock > t \/ ~InTransition(v)
  <2>1. s = v
    BY <1>1 DEF Synchronize
  <2>2. v.status = "ON_TRANSITION" => ~(v.nextClock <= t)
    BY <1>1 DEF InTransition, Unit
  <2> QED
    BY <2>1, <2>2 DEF Rising
<1>2. CASE ~(v.nextClock > t \/ ~InTransition(v)) /\ v.status = "ON_TRANSITION"
  <2>1. s.status = "ON"
    BY <1>2 DEF Synchronize, Unit
  <2>2. v.nextClock <= t
    BY <1>2 DEF Unit
  <2> QED
    BY <1>2, <2>1, <2>2 DEF Rising
<1>3. CASE ~(v.nextClock > t \/ ~InTransition(v)) /\ v.status = "OFF_TRANSITION"
  <2>1. s.status = "OFF"
    BY <1>3 DEF Synchronize, Unit
  <2> QED
    BY <1>3, <2>1 DEF Rising
<1> QED
  BY <1>1, <1>2, <1>3 DEF InTransition

LEMMA InitIInv == Init => IInv
<1> SUFFICES ASSUME Init PROVE IInv
  OBVIOUS
<1>1. units \in [Units -> Unit] /\ \A u \in Units : Fresh(units[u]) /\ Rising(units[u])
  BY NewUnitFresh DEF Init, Fresh
<1>2. offset \in Nat
  BY UnitsAssumption DEF Init
<1> QED
  BY <1>1, <1>2 DEF Init, IInv, Wanted, RunSound

(* What one accepted request makes of a unit. *)
LEMMA ServedUnit ==
  ASSUME IInv, phase = "measured", NEW m \in Masks, NEW u \in Units,
         NEW v \in Served(m, u), Accepted(u, v)
  PROVE  /\ v \in Unit /\ Sound(v, clock - offset)
         /\ Rising(v) <=> u \in m
         /\ Synchronize(v, clock - offset).status = "ON" <=>
              (Synchronize(units[u], clock - offset).status = "ON" /\ u \in m)
<1> DEFINE t == clock - offset
           s == Synchronize(units[u], t)
<1>1. t \in Nat /\ Sound(units[u], t)
  BY DEF IInv, RunSound
<1>2. Sound(s, t) /\ (InTransition(s) => s.nextClock > t)
  BY <1>1, SynchronizeSound
<1>3. v \in Unit /\ Sound(v, t)
  <2>1. InTransition(v) => v.nextClock > t
    BY DEF Accepted, RequestTime
  <2>2. v \in TurnOn(s, t, Lat(u)) \/ v \in TurnOff(s, t, Lat(u), Wrap)
    BY DEF Served, RequestTime
  <2> HIDE DEF s, t
  <2> QED
    BY <1>1, <1>2, <2>1, <2>2, TurnOnSound, TurnOffSound, LatIsLatencies
<1>4. Synchronize(v, t) = v
  <2>1. InTransition(v) => v.nextClock > t
    BY DEF Accepted, RequestTime
  <2> QED
    BY <2>1 DEF Synchronize
<1>5. CASE u \in m
  <2>1. v \in TurnOn(s, t, Lat(u))
    BY <1>5 DEF Served, Selected, RequestTime
  <2> HIDE DEF s, t
  <2>2. CASE s.status \in {"ON", "ON_TRANSITION"}
    <3>1. v = [s EXCEPT !.valid = TRUE]
      BY <2>1, <2>2 DEF TurnOn
    <3>2. v.status = s.status
      BY <1>2, <3>1 DEF Sound, Unit
    <3> QED
      BY <1>3, <1>4, <1>5, <2>2, <3>2 DEF Rising, s, t
  <2>3. CASE s.status \in {"OFF", "OFF_TRANSITION"}
    <3>1. v.status = "ON_TRANSITION"
      BY <1>2, <2>1, <2>3 DEF TurnOn, Sound, Unit
    <3> QED
      BY <1>3, <1>4, <1>5, <2>3, <3>1 DEF Rising, s, t
  <2> QED
    BY <1>2, <2>2, <2>3 DEF Sound, Unit, Statuses
<1>6. CASE u \notin m
  <2>1. v \in TurnOff(s, t, Lat(u), Wrap)
    BY <1>6 DEF Served, Selected, RequestTime
  <2> HIDE DEF s, t
  <2>2. v.status \in {"OFF", "OFF_TRANSITION"}
    BY <1>2, <2>1 DEF TurnOff, Sound, Unit, Statuses
  <2> QED
    BY <1>3, <1>4, <1>6, <2>2 DEF Rising, s, t
<1> QED
  BY <1>5, <1>6

LEMMA NextIInv == IInv /\ [Next]_vars => IInv'
<1> SUFFICES ASSUME IInv, [Next]_vars PROVE IInv'
  OBVIOUS
<1>1. CASE Tick
  <2>1. /\ units' = units /\ offset' = offset /\ phase' = phase /\ mask' = mask
        /\ clock' = clock + 1
    BY <1>1 DEF Tick
  <2>2. ASSUME phase = "measured", NEW u \in Units
        PROVE  Sound(units[u], clock + 1 - offset)
    BY <2>2 DEF IInv, RunSound, Sound, Unit, AccountedUntil
  <2> QED
    BY <2>1, <2>2 DEF IInv, Wanted, RunSound
<1>2. CASE InitializationComplete
  <2>1. /\ units' = units /\ offset' = clock /\ phase' = "measured" /\ mask' = mask
        /\ clock' = clock /\ clock - clock = 0
    BY <1>2 DEF InitializationComplete, IInv
  <2>2. \A u \in Units : Sound(units[u], 0)
    BY <1>2 DEF InitializationComplete, IInv, RunSound, Fresh
  <2> QED
    BY <2>1, <2>2 DEF IInv, Wanted, RunSound
<1>3. CASE DumpStats
  <2>1. clock' = clock /\ offset' = offset /\ mask' = mask
    BY <1>3 DEF DumpStats
  <2>2. CASE phase' = "aborted" /\ units' = units
    BY <2>1, <2>2 DEF IInv, Wanted, RunSound
  <2>3. CASE phase' = "dumped" /\ units' = [u \in Units |-> Synchronize(units[u], clock)]
    <3>1. ASSUME NEW u \in Units
          PROVE  /\ Synchronize(units[u], clock) \in Unit
                 /\ Rising(Synchronize(units[u], clock)) <=> u \in mask
      <4>1. units[u] \in Unit /\ clock \in Nat /\ (Rising(units[u]) <=> u \in mask)
        BY DEF IInv, Wanted
      <4>2. phase = "measured" => Sound(units[u], clock)
        BY <4>1 DEF IInv, RunSound, Sound, Unit, AccountedUntil
      <4>3. phase = "loading" => Sound(units[u], clock)
        BY <4>1 DEF IInv, RunSound, Fresh
      <4>4. Sound(units[u], clock)
        BY <1>3, <4>2, <4>3 DEF DumpStats, Simulating
      <4> QED
        BY <4>1, <4>4, SynchronizeSound, SynchronizeRising DEF Sound
    <3> QED
      BY <2>1, <2>3, <3>1 DEF IInv, Wanted, RunSound
  <2> QED
    BY <1>3, <2>2, <2>3 DEF DumpStats
<1>4. ASSUME NEW m \in Masks, ProcessAtIssue(m) PROVE IInv'
  <2>1. PICK next \in [Units -> UNION {Served(m, u) : u \in Units}] :
          /\ \A u \in Units : next[u] \in Served(m, u)
          /\ IF \A u \in Units : Accepted(u, next[u])
             THEN units' = next /\ mask' = m /\ UNCHANGED phase
             ELSE phase' = "aborted" /\ UNCHANGED <<units, mask>>
    BY <1>4 DEF ProcessAtIssue
  <2>2. clock' = clock /\ offset' = offset /\ phase = "measured"
    BY <1>4 DEF ProcessAtIssue
  <2>3. CASE ~ \A u \in Units : Accepted(u, next[u])
    BY <2>1, <2>2, <2>3 DEF IInv, Wanted, RunSound
  <2>4. CASE \A u \in Units : Accepted(u, next[u])
    <3>1. \A u \in Units : /\ next[u] \in Unit /\ Sound(next[u], clock - offset)
                          /\ (Rising(next[u]) <=> u \in m)
      BY <2>1, <2>2, <2>4, ServedUnit
    <3>2. next \in [Units -> Unit]
      <4> DEFINE S == UNION {Served(m, u) : u \in Units}
      <4> HIDE DEF S
      <4>1. next \in [Units -> S]
        BY DEF S
      <4> QED
        BY <3>1, <4>1
    <3> QED
      BY <2>1, <2>2, <2>4, <3>1, <3>2 DEF IInv, Wanted, RunSound, Masks
  <2> QED
    BY <2>3, <2>4
<1>5. CASE UNCHANGED vars
  BY <1>5 DEF vars, IInv, Wanted, RunSound
<1> QED
  BY <1>1, <1>2, <1>3, <1>4, <1>5 DEF Next

(* Every account of every unit, the clocks, the mask and the phase keep    *)
(* their types; a next-transition clock may be negative, an account not.   *)
THEOREM ManagerTypeCorrect == Spec => []TypeOK
<1>1. IInv => TypeOK
  BY DEF IInv, Wanted, Masks, Unit, TypeOK
<1> QED
  BY <1>1, InitIInv, NextIInv, PTL DEF Spec

(* AccountedWithinRun for every number of units and all latencies: what the *)
(* units did while lli was loading is in no account of the measured run.    *)
THEOREM AccountsRelative == Spec => []AccountedWithinRun
<1>1. IInv => AccountedWithinRun
  BY SoundIsDisjoint DEF IInv, RunSound, AccountedWithinRun
<1> QED
  BY <1>1, InitIInv, NextIInv, PTL DEF Spec
-----------------------------------------------------------------------------
(* Which units are available, read off their states. *)
LEMMA AvailableIs ==
  ASSUME IInv
  PROVE  Available = {u \in Units : \/ units[u].status = "ON"
                                    \/ /\ units[u].status = "ON_TRANSITION"
                                       /\ units[u].nextClock <= clock - offset}
<1>1. clock - offset \in Int /\ \A u \in Units : units[u] \in Unit
  BY DEF IInv
<1> QED
  BY <1>1, SynchronizeRising DEF Available

LEMMA NextGated == IInv /\ IInv' /\ [Next]_vars => [Gated!Next]_(Gated!vars)
<1> SUFFICES ASSUME IInv, IInv', [Next]_vars PROVE [Gated!Next]_(Gated!vars)
  OBVIOUS
<1>1. ASSUME mask' = mask, Available \subseteq Available', Available' \subseteq mask
      PROVE  Gated!Next
  <2> DEFINE risen == Available' \ Available
  <2>1. risen \in SUBSET (mask \ Available) /\ Available' = Available \cup risen
    BY <1>1
  <2> QED
    BY <1>1, <2>1 DEF Gated!Next, Gated!Rise
<1>0. Available' = {u \in Units : \/ units'[u].status = "ON"
                                 \/ /\ units'[u].status = "ON_TRANSITION"
                                    /\ units'[u].nextClock <= clock' - offset'}
  <2>1. clock' - offset' \in Int /\ \A u \in Units : units'[u] \in Unit
    BY DEF IInv
  <2> QED
    BY <2>1, SynchronizeRising DEF Available
<1>2. Available' \subseteq mask'
  BY <1>0 DEF IInv, Wanted, Rising
<1>3. CASE Tick
  <2>1. units' = units /\ offset' = offset /\ mask' = mask /\ clock' = clock + 1
    BY <1>3 DEF Tick
  <2>2. \A u \in Units : units[u].nextClock <= clock - offset
                          => units[u].nextClock <= clock + 1 - offset
    BY DEF IInv, Unit
  <2>0. clock' - offset' = clock + 1 - offset
    BY <2>1 DEF IInv
  <2>3. Available \subseteq Available'
    BY <1>0, <2>0, <2>1, <2>2, AvailableIs
  <2> QED
    BY <1>1, <1>2, <2>1, <2>3
<1>4. CASE InitializationComplete
  <2>1. units' = units /\ mask' = mask
    BY <1>4 DEF InitializationComplete
  <2>2. \A u \in Units : units[u].status = "ON"
    BY <1>4 DEF InitializationComplete, IInv, RunSound, Fresh
  <2>3. Available = Units /\ Available' = Units
    BY <1>0, <2>1, <2>2, AvailableIs
  <2> QED
    BY <1>1, <1>2, <2>1, <2>3
<1>5. CASE DumpStats
  <2>1. clock' = clock /\ offset' = offset /\ mask' = mask
    BY <1>5 DEF DumpStats
  <2>2. CASE units' = units
    BY <1>0, <1>1, <1>2, <2>1, <2>2, AvailableIs
  <2>3. CASE units' = [u \in Units |-> Synchronize(units[u], clock)]
    <3>1. ASSUME NEW u \in Units
          PROVE  (\/ units[u].status = "ON"
                  \/ units[u].status = "ON_TRANSITION" /\ units[u].nextClock <= clock - offset)
                 => units'[u].status = "ON"
      <4>1. units[u] \in Unit /\ clock \in Int /\ offset \in Nat
        BY DEF IInv
      <4>2. units[u].nextClock <= clock - offset => units[u].nextClock <= clock
        BY <4>1 DEF Unit
      <4> QED
        BY <2>3, <4>1, <4>2, SynchronizeRising
    <3>2. Available \subseteq Available'
      BY <1>0, <3>1, AvailableIs
    <3> QED
      BY <1>1, <1>2, <2>1, <3>2
  <2> QED
    BY <1>5, <2>2, <2>3 DEF DumpStats
<1>6. ASSUME NEW m \in Masks, ProcessAtIssue(m) PROVE Gated!Next
  <2>1. PICK next \in [Units -> UNION {Served(m, u) : u \in Units}] :
          /\ \A u \in Units : next[u] \in Served(m, u)
          /\ IF \A u \in Units : Accepted(u, next[u])
             THEN units' = next /\ mask' = m /\ UNCHANGED phase
             ELSE phase' = "aborted" /\ UNCHANGED <<units, mask>>
    BY <1>6 DEF ProcessAtIssue
  <2>2. clock' = clock /\ offset' = offset /\ phase = "measured"
    BY <1>6 DEF ProcessAtIssue
  <2>3. CASE ~ \A u \in Units : Accepted(u, next[u])
    BY <1>0, <1>1, <1>2, <2>1, <2>2, <2>3, AvailableIs
  <2>4. CASE \A u \in Units : Accepted(u, next[u])
    <3>1. \A u \in Units : Synchronize(next[u], clock - offset).status = "ON" <=>
            (Synchronize(units[u], clock - offset).status = "ON" /\ u \in m)
      BY <2>1, <2>2, <2>4, ServedUnit
    <3>2. Available' = Available \cap m
      BY <2>1, <2>2, <2>4, <3>1 DEF Available
    <3>3. m \in SUBSET Units
      BY DEF Masks
    <3> QED
      BY <2>1, <2>4, <3>2, <3>3 DEF Gated!Next, Gated!Request
  <2> QED
    BY <2>3, <2>4
<1>7. CASE UNCHANGED vars
  BY <1>7 DEF vars, Gated!vars, Available
<1> QED
  BY <1>3, <1>4, <1>5, <1>6, <1>7 DEF Next

(* RequestsImplementGating for every number of units and all latencies:    *)
(* whatever order GATEs, ticks, the start of the run and the dump come in, *)
(* a unit is taken away when its bit is cleared and comes back only while  *)
(* it is set.                                                              *)
THEOREM ManagerImplementsGating == Spec => RequestsImplementGating
<1>1. Init => Gated!Init
  <2> SUFFICES ASSUME Init PROVE Gated!Init
    OBVIOUS
  <2>1. \A u \in Units : units[u].status = "ON"
    BY InitIInv DEF Init, IInv, RunSound, Fresh
  <2>2. Available = Units
    BY <2>1, InitIInv, AvailableIs
  <2> QED
    BY <2>2 DEF Init, Gated!Init
<1> QED
  BY <1>1, InitIInv, NextIInv, NextGated, PTL DEF Spec, RequestsImplementGating, Gated!Spec
=============================================================================
