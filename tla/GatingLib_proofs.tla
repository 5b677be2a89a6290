---------------------------- MODULE GatingLib_proofs ----------------------------
(***************************************************************************)
(* Lemmas about one functional unit's operations, for all latencies.  The  *)
(* invariant that carries the accounting says where the accounted time     *)
(* ends: everything counted so far lies before onTime (a unit that is on)  *)
(* or before transitionTime (any other unit).                              *)
(***************************************************************************)
EXTENDS GatingLib, TLAPS

Latencies == [on : Nat \ {0}, off : Nat \ {0}]

Unit == [status : Statuses, nextClock : Int, onTime : Nat, transitionTime : Nat,
         charge : Int, totalOnTime : Nat, totalOffTime : Nat, valid : BOOLEAN]

(* The tick before which all accounted on and off time lies. *)
AccountedUntil(u) == IF u.status = "ON" THEN u.onTime ELSE u.transitionTime

(* What every unit satisfies at tick t between two calls. *)
Sound(u, t) ==
  /\ u \in Unit
  /\ u.transitionTime <= t
  /\ u.status = "ON" => u.onTime <= t
  /\ InTransition(u) => u.nextClock > u.transitionTime
  /\ u.totalOnTime + u.totalOffTime <= AccountedUntil(u)

(* A truncated quotient is an integer. *)
LEMMA TruncationsInt ==
  ASSUME NEW n \in Int, NEW d \in Nat \ {0}
  PROVE  Truncations(n, d) \subseteq Int
<1>1. n \div d \in Int /\ (-n) \div d \in Int
  OBVIOUS
<1> QED
  BY <1>1 DEF Truncations

(* synchronize keeps a unit sound and leaves no overdue transition. *)
LEMMA SynchronizeSound ==
  ASSUME NEW u, NEW t \in Nat, Sound(u, t)
  PROVE  /\ Sound(Synchronize(u, t), t)
         /\ InTransition(Synchronize(u, t)) => Synchronize(u, t).nextClock > t
<1> DEFINE s == Synchronize(u, t)
<1>1. CASE u.nextClock > t \/ ~InTransition(u)
  BY <1>1 DEF Synchronize, Sound, InTransition, Unit, Statuses
<1>2. CASE u.nextClock <= t /\ u.status = "ON_TRANSITION"
  <2>1. s = [u EXCEPT !.status = "ON", !.onTime = t, !.transitionTime = u.nextClock]
    BY <1>2 DEF Synchronize, InTransition, Sound, Unit
  <2>0. u \in Unit /\ u.nextClock \in Nat
    BY <1>2 DEF Sound, InTransition, Unit
  <2>2. s \in Unit
    BY <2>0, <2>1 DEF Unit, Statuses
  <2>3. /\ s.status = "ON" /\ s.onTime = t /\ s.transitionTime = u.nextClock
        /\ s.totalOnTime = u.totalOnTime /\ s.totalOffTime = u.totalOffTime
    BY <2>1 DEF Sound, Unit
  <2> HIDE DEF s
  <2>4. Sound(s, t) /\ ~InTransition(s)
    BY <1>2, <2>2, <2>3 DEF Sound, InTransition, Unit, AccountedUntil
  <2> QED
    BY <2>4 DEF s
<1>3. CASE u.nextClock <= t /\ u.status = "OFF_TRANSITION"
  <2>1. s = [u EXCEPT !.status = "OFF", !.transitionTime = u.nextClock]
    BY <1>3 DEF Synchronize, InTransition, Sound, Unit
  <2>0. u \in Unit /\ u.nextClock \in Nat
    BY <1>3 DEF Sound, InTransition, Unit
  <2>2. s \in Unit
    BY <2>0, <2>1 DEF Unit, Statuses
  <2>3. /\ s.status = "OFF" /\ s.transitionTime = u.nextClock
        /\ s.totalOnTime = u.totalOnTime /\ s.totalOffTime = u.totalOffTime
    BY <2>1 DEF Sound, Unit
  <2> HIDE DEF s
  <2>4. Sound(s, t) /\ ~InTransition(s)
    BY <1>3, <2>2, <2>3 DEF Sound, InTransition, Unit, AccountedUntil
  <2> QED
    BY <2>4 DEF s
<1> QED
  BY <1>1, <1>2, <1>3 DEF Sound, Unit, Statuses, InTransition

(* The fall and rise times the code computes are integers. *)
LEMMA FallTimesInt ==
  ASSUME NEW lat \in Latencies, NEW wrap \in Nat \ {0}, NEW k \in Int
  PROVE  FallTimes(k, lat, wrap) \subseteq Int
<1>1. CASE k >= 0
  <2>1. (lat.on - k) * lat.off \in Int
    BY DEF Latencies
  <2>2. Truncations((lat.on - k) * lat.off, lat.on) \subseteq Int
    BY <2>1, TruncationsInt DEF Latencies
  <2> QED
    BY <1>1, <2>2 DEF Latencies, FallTimes
<1>2. CASE ~(k >= 0)
  BY <1>2 DEF Latencies, FallTimes
<1> QED
  BY <1>1, <1>2

LEMMA ChargesInt ==
  ASSUME NEW lat \in Latencies, NEW prev \in Nat \ {0}, NEW charged \in Nat
  PROVE  Charges(prev, charged, lat) \subseteq Int
<1>1. CASE prev <= lat.off
  <2>1. lat.on * (2 * prev - lat.off - charged) \in Int
    BY DEF Latencies
  <2>2. Truncations(lat.on * (2 * prev - lat.off - charged), prev) \subseteq Int
    BY <2>1, TruncationsInt
  <2> QED
    BY <1>1, <2>2 DEF Charges
<1>2. CASE ~(prev <= lat.off)
  <2>1. lat.on * (2 * lat.off - lat.on) \in Int
    BY DEF Latencies
  <2>2. Truncations(lat.on * (2 * lat.off - lat.on), lat.off) \subseteq Int
    BY <2>1, TruncationsInt DEF Latencies
  <2> QED
    BY <1>2, <2>2 DEF Charges
<1> QED
  BY <1>1, <1>2

(* turnOff and turnOn keep a synchronized unit sound, provided the outcome *)
(* passes the assertion on nextClock.                                      *)
LEMMA TurnOffSound ==
  ASSUME NEW lat \in Latencies, NEW wrap \in Nat \ {0}, NEW u, NEW t \in Nat, Sound(u, t),
         NEW v \in TurnOff(u, t, lat, wrap)
  PROVE  /\ v \in Unit
         /\ (InTransition(v) => v.nextClock > t) => Sound(v, t)
<1>0. u \in Unit /\ u.transitionTime <= t
  BY DEF Sound
<1>1. CASE u.status \in {"OFF", "OFF_TRANSITION"}
  <2>1. v = u
    BY <1>1 DEF TurnOff
  <2> QED
    BY <1>0, <2>1
<1>2. CASE u.status = "ON"
  <2>1. v = [u EXCEPT !.status = "OFF_TRANSITION", !.transitionTime = t,
                      !.nextClock = t + lat.off,
                      !.totalOnTime = @ + (t - u.onTime)]
    BY <1>2 DEF TurnOff, Spell
  <2>0. u.totalOnTime + (t - u.onTime) \in Nat /\ t + lat.off \in Int
    BY <1>0, <1>2 DEF Latencies, Sound, Unit
  <2>2. v \in Unit
    BY <1>0, <2>0, <2>1 DEF Unit, Statuses
  <2>3. /\ v.status = "OFF_TRANSITION" /\ v.transitionTime = t
        /\ v.totalOnTime = u.totalOnTime + (t - u.onTime)
        /\ v.totalOffTime = u.totalOffTime
    BY <1>0, <2>1 DEF Unit
  <2> QED
    BY <1>0, <1>2, <2>2, <2>3 DEF Sound, Unit, InTransition, AccountedUntil
<1>3. CASE u.status = "ON_TRANSITION"
  <2>1. (t - u.transitionTime) + u.charge \in Int
    BY <1>0 DEF Unit
  <2>2. PICK d \in FallTimes((t - u.transitionTime) + u.charge, lat, wrap) :
          v = [u EXCEPT !.status = "OFF_TRANSITION", !.transitionTime = t,
                        !.nextClock = t + d]
    BY <1>3 DEF TurnOff
  <2>3. d \in Int
    BY <2>1, FallTimesInt
  <2> DEFINE end == t + d
  <2>0. end \in Int
    BY <2>3
  <2> HIDE DEF end
  <2>4. v \in Unit
    <3>1. v = [u EXCEPT !.status = "OFF_TRANSITION", !.transitionTime = t, !.nextClock = end]
      BY <2>2 DEF end
    <3> QED
      BY <1>0, <2>0, <3>1 DEF Unit, Statuses
  <2>5. /\ v.status = "OFF_TRANSITION" /\ v.transitionTime = t
        /\ v.totalOnTime = u.totalOnTime /\ v.totalOffTime = u.totalOffTime
    BY <1>0, <2>2 DEF Unit
  <2> QED
    BY <1>0, <1>3, <2>4, <2>5 DEF Sound, Unit, InTransition, AccountedUntil
<1> QED
  BY <1>0, <1>1, <1>2, <1>3 DEF Unit, Statuses

LEMMA TurnOnSound ==
  ASSUME NEW lat \in Latencies, NEW u, NEW t \in Nat, Sound(u, t),
         NEW v \in TurnOn(u, t, lat)
  PROVE  /\ v \in Unit
         /\ (InTransition(v) => v.nextClock > t) => Sound(v, t)
<1>0. u \in Unit /\ u.transitionTime <= t
  BY DEF Sound
<1>1. CASE u.status \in {"ON", "ON_TRANSITION"}
  <2>1. v = [u EXCEPT !.valid = TRUE]
    BY <1>1 DEF TurnOn
  <2>2. v \in Unit
    BY <1>0, <2>1 DEF Unit
  <2>3. /\ v.status = u.status /\ v.transitionTime = u.transitionTime
        /\ v.onTime = u.onTime /\ v.nextClock = u.nextClock
        /\ v.totalOnTime = u.totalOnTime /\ v.totalOffTime = u.totalOffTime
    BY <1>0, <2>1 DEF Unit
  <2> QED
    BY <2>2, <2>3 DEF Sound, InTransition, AccountedUntil
<1>2. CASE u.status = "OFF"
  <2>1. v = [u EXCEPT !.status = "ON_TRANSITION", !.transitionTime = t,
                      !.nextClock = t + lat.on, !.charge = 0, !.valid = TRUE,
                      !.totalOffTime = @ + (t - u.transitionTime)]
    BY <1>2 DEF TurnOn
  <2> DEFINE end == t + lat.on
             off == u.totalOffTime + (t - u.transitionTime)
             zero == 0
  <2>0. end \in Int /\ off \in Nat /\ zero \in Int
    BY <1>0 DEF Latencies, Unit
  <2> HIDE DEF end, off, zero
  <2>2. v \in Unit
    <3>1. v = [u EXCEPT !.status = "ON_TRANSITION", !.transitionTime = t,
                        !.nextClock = end, !.charge = zero, !.valid = TRUE,
                        !.totalOffTime = off]
      BY <2>1 DEF end, off, zero
    <3> QED
      BY <1>0, <2>0, <3>1 DEF Unit, Statuses
  <2>3. /\ v.status = "ON_TRANSITION" /\ v.transitionTime = t
        /\ v.totalOffTime = u.totalOffTime + (t - u.transitionTime)
        /\ v.totalOnTime = u.totalOnTime
    BY <1>0, <2>1 DEF Unit
  <2> QED
    BY <1>0, <1>2, <2>2, <2>3 DEF Sound, Unit, InTransition, AccountedUntil
<1>3. CASE u.status = "OFF_TRANSITION"
  <2>1. u.nextClock - u.transitionTime \in Nat \ {0} /\ t - u.transitionTime \in Nat
    BY <1>0, <1>3 DEF Sound, Unit, InTransition
  <2>2. PICK c \in Charges(u.nextClock - u.transitionTime, t - u.transitionTime, lat) :
          v = [u EXCEPT !.status = "ON_TRANSITION", !.transitionTime = t,
                        !.nextClock = t + (lat.on - c), !.charge = c, !.valid = TRUE]
    BY <1>3 DEF TurnOn
  <2>3. c \in Int
    BY <2>1, ChargesInt
  <2> DEFINE end == t + (lat.on - c)
  <2>0. end \in Int
    BY <2>3 DEF Latencies
  <2> HIDE DEF end
  <2>4. v \in Unit
    <3>1. v = [u EXCEPT !.status = "ON_TRANSITION", !.transitionTime = t,
                        !.nextClock = end, !.charge = c, !.valid = TRUE]
      BY <2>2 DEF end
    <3> QED
      BY <1>0, <2>0, <2>3, <3>1 DEF Unit, Statuses
  <2>5. /\ v.status = "ON_TRANSITION" /\ v.transitionTime = t
        /\ v.totalOnTime = u.totalOnTime /\ v.totalOffTime = u.totalOffTime
    BY <1>0, <2>2 DEF Unit
  <2> QED
    BY <1>0, <1>3, <2>4, <2>5 DEF Sound, Unit, InTransition, AccountedUntil
<1> QED
  BY <1>0, <1>1, <1>2, <1>3 DEF Unit, Statuses

(* A sound unit reports disjoint on and off time. *)
LEMMA SoundIsDisjoint ==
  ASSUME NEW u, NEW t \in Nat, Sound(u, t)
  PROVE  TimeSpentOn(u, t) + TimeSpentOff(u, t) <= t
<1> DEFINE s == Synchronize(u, t)
<1>1. Sound(s, t)
  BY SynchronizeSound
<1> HIDE DEF s
<1>2. s.totalOnTime + s.totalOffTime <= t
        - (IF s.status = "ON" THEN t - s.onTime ELSE 0)
        - (IF s.status = "OFF" THEN t - s.transitionTime ELSE 0)
  BY <1>1 DEF Sound, Unit, Statuses, AccountedUntil
<1>3. TimeSpentOn(u, t) = s.totalOnTime + (IF s.status = "ON" THEN t - s.onTime ELSE 0)
  BY DEF TimeSpentOn, s
<1>4. TimeSpentOff(u, t) = s.totalOffTime + (IF s.status = "OFF" THEN t - s.transitionTime ELSE 0)
  BY DEF TimeSpentOff, s
<1> QED
  BY <1>1, <1>2, <1>3, <1>4 DEF Sound, Unit
-----------------------------------------------------------------------------
(* What a synchronized unit reports. *)
OnReport(u, t) == u.totalOnTime + (IF u.status = "ON" THEN t - u.onTime ELSE 0)
OffReport(u, t) == u.totalOffTime + (IF u.status = "OFF" THEN t - u.transitionTime ELSE 0)

LEMMA ReportsRead ==
  ASSUME NEW u \in Unit, NEW t \in Nat, InTransition(u) => u.nextClock > t
  PROVE  TimeSpentOn(u, t) = OnReport(u, t) /\ TimeSpentOff(u, t) = OffReport(u, t)
<1>1. Synchronize(u, t) = u
  BY DEF Synchronize, Unit
<1> QED
  BY <1>1 DEF TimeSpentOn, TimeSpentOff, OnReport, OffReport

(* A request moves time between the parts of a report and adds none. *)
LEMMA TurnOffReports ==
  ASSUME NEW lat \in Latencies, NEW wrap \in Nat \ {0}, NEW u \in Unit, NEW t \in Nat, NEW v \in TurnOff(u, t, lat, wrap)
  PROVE  OnReport(v, t) = OnReport(u, t) /\ OffReport(v, t) = OffReport(u, t)
<1>1. CASE u.status \in {"OFF", "OFF_TRANSITION"}
  BY <1>1 DEF TurnOff
<1>2. CASE u.status = "ON"
  <2>1. v = [u EXCEPT !.status = "OFF_TRANSITION", !.transitionTime = t,
                      !.nextClock = t + lat.off,
                      !.totalOnTime = @ + (t - u.onTime)]
    BY <1>2 DEF TurnOff, Spell
  <2>2. /\ v.status = "OFF_TRANSITION" /\ v.totalOffTime = u.totalOffTime
        /\ v.totalOnTime = u.totalOnTime + (t - u.onTime)
    BY <2>1 DEF Unit
  <2> QED
    BY <1>2, <2>2 DEF OnReport, OffReport, Unit
<1>3. CASE u.status = "ON_TRANSITION"
  <2>1. PICK d \in FallTimes((t - u.transitionTime) + u.charge, lat, wrap) :
          v = [u EXCEPT !.status = "OFF_TRANSITION", !.transitionTime = t,
                        !.nextClock = t + d]
    BY <1>3 DEF TurnOff
  <2>2. /\ v.status = "OFF_TRANSITION" /\ v.totalOnTime = u.totalOnTime
        /\ v.totalOffTime = u.totalOffTime
    BY <2>1 DEF Unit
  <2> QED
    BY <1>3, <2>2 DEF OnReport, OffReport
<1> QED
  BY <1>1, <1>2, <1>3 DEF Unit, Statuses

LEMMA TurnOnReports ==
  ASSUME NEW lat \in Latencies, NEW u \in Unit, NEW t \in Nat, NEW v \in TurnOn(u, t, lat)
  PROVE  OnReport(v, t) = OnReport(u, t) /\ OffReport(v, t) = OffReport(u, t)
<1>1. CASE u.status \in {"ON", "ON_TRANSITION"}
  <2>1. v = [u EXCEPT !.valid = TRUE]
    BY <1>1 DEF TurnOn
  <2>2. /\ v.status = u.status /\ v.transitionTime = u.transitionTime
        /\ v.onTime = u.onTime
        /\ v.totalOnTime = u.totalOnTime /\ v.totalOffTime = u.totalOffTime
    BY <2>1 DEF Unit
  <2> QED
    BY <2>2 DEF OnReport, OffReport
<1>2. CASE u.status = "OFF"
  <2>1. v = [u EXCEPT !.status = "ON_TRANSITION", !.transitionTime = t,
                      !.nextClock = t + lat.on, !.charge = 0, !.valid = TRUE,
                      !.totalOffTime = @ + (t - u.transitionTime)]
    BY <1>2 DEF TurnOn
  <2>2. /\ v.status = "ON_TRANSITION" /\ v.totalOnTime = u.totalOnTime
        /\ v.totalOffTime = u.totalOffTime + (t - u.transitionTime)
    BY <2>1 DEF Unit
  <2> QED
    BY <1>2, <2>2 DEF OnReport, OffReport, Unit
<1>3. CASE u.status = "OFF_TRANSITION"
  <2>1. PICK c \in Charges(u.nextClock - u.transitionTime, t - u.transitionTime, lat) :
          v = [u EXCEPT !.status = "ON_TRANSITION", !.transitionTime = t,
                        !.nextClock = t + (lat.on - c), !.charge = c, !.valid = TRUE]
    BY <1>3 DEF TurnOn
  <2>2. /\ v.status = "ON_TRANSITION" /\ v.totalOnTime = u.totalOnTime
        /\ v.totalOffTime = u.totalOffTime
    BY <2>1 DEF Unit
  <2> QED
    BY <1>3, <2>2 DEF OnReport, OffReport
<1> QED
  BY <1>1, <1>2, <1>3 DEF Unit, Statuses

(* A tick adds to the report of the state the unit is in, and a transition *)
(* it completes adds nothing.                                              *)
LEMMA TickReports ==
  ASSUME NEW u \in Unit, NEW t \in Nat
  PROVE  /\ TimeSpentOn(u, t + 1) >= TimeSpentOn(u, t)
         /\ TimeSpentOff(u, t + 1) >= TimeSpentOff(u, t)
<1>1. CASE ~InTransition(u)
  <2>1. /\ TimeSpentOn(u, t) = OnReport(u, t) /\ TimeSpentOff(u, t) = OffReport(u, t)
        /\ TimeSpentOn(u, t + 1) = OnReport(u, t + 1)
        /\ TimeSpentOff(u, t + 1) = OffReport(u, t + 1)
    BY <1>1, ReportsRead
  <2> QED
    BY <2>1 DEF OnReport, OffReport, Unit
<1>2. CASE u.status = "ON_TRANSITION"
  <2>1. ASSUME NEW r \in Nat
        PROVE  TimeSpentOn(u, r) = u.totalOnTime /\ TimeSpentOff(u, r) = u.totalOffTime
    <3> DEFINE w == [u EXCEPT !.status = "ON", !.onTime = r, !.transitionTime = u.nextClock]
    <3>1. /\ w.status = "ON" /\ w.onTime = r
          /\ w.totalOnTime = u.totalOnTime /\ w.totalOffTime = u.totalOffTime
      BY DEF Unit
    <3>2. Synchronize(u, r) = u \/ Synchronize(u, r) = w
      BY <1>2 DEF Synchronize
    <3> HIDE DEF w
    <3>3. /\ u.totalOnTime + 0 = u.totalOnTime /\ u.totalOffTime + 0 = u.totalOffTime
          /\ u.totalOnTime + (r - r) = u.totalOnTime
      BY DEF Unit
    <3> QED
      BY <1>2, <3>1, <3>2, <3>3 DEF TimeSpentOn, TimeSpentOff
  <2> QED
    BY <2>1 DEF Unit
<1>3. CASE u.status = "OFF_TRANSITION"
  <2>1. ASSUME NEW r \in Nat
        PROVE  /\ TimeSpentOn(u, r) = u.totalOnTime
               /\ TimeSpentOff(u, r) = u.totalOffTime
                    + (IF u.nextClock <= r THEN r - u.nextClock ELSE 0)
    <3> DEFINE w == [u EXCEPT !.status = "OFF", !.transitionTime = u.nextClock]
    <3>1. /\ w.status = "OFF" /\ w.transitionTime = u.nextClock
          /\ w.totalOnTime = u.totalOnTime /\ w.totalOffTime = u.totalOffTime
      BY DEF Unit
    <3>2. /\ u.nextClock <= r => Synchronize(u, r) = w
          /\ ~(u.nextClock <= r) => Synchronize(u, r) = u
      BY <1>3 DEF Synchronize, InTransition, Unit
    <3> HIDE DEF w
    <3>3. u.totalOnTime + 0 = u.totalOnTime
      BY DEF Unit
    <3> QED
      BY <1>3, <3>1, <3>2, <3>3 DEF TimeSpentOn, TimeSpentOff
  <2>2. u.totalOffTime \in Nat /\ u.totalOnTime \in Nat /\ u.nextClock \in Int
    BY DEF Unit
  <2> QED
    BY <2>1, <2>2
<1> QED
  BY <1>1, <1>2, <1>3 DEF Unit, Statuses, InTransition
=============================================================================
