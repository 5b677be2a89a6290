------------------------- MODULE FunctionalUnit_proofs -------------------------
(***************************************************************************)
(* Proofs about one functional unit for all latencies, from the lemmas of  *)
(* GatingLib_proofs about its operations.                                  *)
(***************************************************************************)
EXTENDS FunctionalUnit, GatingLib_proofs

IInv == TypeOK /\ Sound(fu, now)

LEMMA LatIsLatencies == Lat \in Latencies /\ Wrap \in Nat \ {0}
BY LatencyAssumption, BoundAssumption DEF Lat, Latencies

LEMMA InitIInv == Init => IInv
BY DEF Init, IInv, TypeOK, Sound, Unit, NewUnit, Statuses, InTransition, AccountedUntil

LEMMA NextIInv == IInv /\ [Next]_vars => IInv'
<1> SUFFICES ASSUME IInv, [Next]_vars PROVE IInv'
  OBVIOUS
<1> USE DEF IInv
<1>0. /\ now \in Nat /\ fault \in {"none", "energy", "nextClock"}
      /\ leftOff \in Nat \cup {-1} /\ chain \in 0..2
  BY DEF TypeOK
<1>1. Sound(Synchronize(fu, now), now)
  BY <1>0, SynchronizeSound
<1>2. CASE Tick
  BY <1>0, <1>2 DEF Tick, TypeOK, Sound, Unit, AccountedUntil, InTransition
<1>3. CASE EnergyAbort
  BY <1>0, <1>3 DEF EnergyAbort, TypeOK, Sound, Unit
<1>4. CASE RequestOff
  <2>1. PICK v \in TurnOff(Synchronize(fu, now), now, Lat, Wrap) : Settle(v)
    BY <1>4 DEF RequestOff
  <2>2. now' = now /\ leftOff' = leftOff
    BY <1>4 DEF RequestOff
  <2>3. CASE InTransition(v) /\ v.nextClock <= now
    BY <1>0, <2>1, <2>2, <2>3 DEF Settle, TypeOK
  <2>4. CASE ~(InTransition(v) /\ v.nextClock <= now)
    <3>1. fu' = v /\ fault' = fault /\ chain' \in 0..2
      BY <1>0, <2>1, <2>4 DEF Settle, Interrupted
    <3>2. v \in Unit /\ ((InTransition(v) => v.nextClock > now) => Sound(v, now))
      BY <1>0, <1>1, <2>1, TurnOffSound, LatIsLatencies
    <3>3. Sound(v, now)
      BY <1>0, <2>4, <3>2 DEF Unit
    <3> QED
      BY <1>0, <2>2, <3>1, <3>3 DEF TypeOK, Sound, Unit
  <2> QED
    BY <2>3, <2>4
<1>5. CASE RequestOn
  <2>1. PICK v \in TurnOn(Synchronize(fu, now), now, Lat) : Settle(v)
    BY <1>5 DEF RequestOn
  <2>2. now' = now /\ leftOff' \in Nat \cup {-1}
    BY <1>0, <1>5 DEF RequestOn
  <2>3. CASE InTransition(v) /\ v.nextClock <= now
    BY <1>0, <2>1, <2>2, <2>3 DEF Settle, TypeOK
  <2>4. CASE ~(InTransition(v) /\ v.nextClock <= now)
    <3>1. fu' = v /\ fault' = fault /\ chain' \in 0..2
      BY <1>0, <2>1, <2>4 DEF Settle, Interrupted
    <3>2. v \in Unit /\ ((InTransition(v) => v.nextClock > now) => Sound(v, now))
      BY <1>0, <1>1, <2>1, TurnOnSound, LatIsLatencies
    <3>3. Sound(v, now)
      BY <1>0, <2>4, <3>2 DEF Unit
    <3> QED
      BY <1>0, <2>2, <3>1, <3>3 DEF TypeOK, Sound, Unit
  <2> QED
    BY <2>3, <2>4
<1>6. CASE Poll
  BY <1>0, <1>1, <1>6 DEF Poll, TypeOK, Sound, Unit
<1>7. CASE UNCHANGED vars
  BY <1>7 DEF vars, TypeOK, Sound
<1> QED
  BY <1>2, <1>3, <1>4, <1>5, <1>6, <1>7 DEF Next

(* The type invariant, for all latencies: a unit's clocks stay natural     *)
(* numbers in their order, however the level arithmetic rounds.            *)
THEOREM TypeCorrect == Spec => []TypeOK
<1>1. IInv => TypeOK
  BY DEF IInv
<1> QED
  BY <1>1, InitIInv, NextIInv, PTL DEF Spec

(* OnOffDisjoint for all latencies, wrap distances and run lengths: read by *)
(* the clock of its requests, a unit's on-time and off-time never add up to *)
(* more than the time that has passed.                                      *)
THEOREM AccountingSound == Spec => []OnOffDisjoint
<1>1. IInv => OnOffDisjoint
  BY SoundIsDisjoint DEF IInv, TypeOK, OnOffDisjoint
<1> QED
  BY <1>1, InitIInv, NextIInv, PTL DEF Spec

-----------------------------------------------------------------------------
(* A non-negative quotient truncates to a natural number. *)
LEMMA TruncationsNat ==
  ASSUME NEW n \in Nat, NEW d \in Nat \ {0}
  PROVE  Truncations(n, d) \subseteq Nat
<1>1. n \div d \in Nat
  OBVIOUS
<1>2. (n > 0 /\ n % d = 0) => n \div d >= 1
  OBVIOUS
<1> QED
  BY <1>1, <1>2 DEF Truncations

(* A fall that interrupts a rise of 0 to onLatency ticks is not too long. *)
LEMMA FallTimesBounded ==
  ASSUME NEW k \in 0..OnLatency, NEW t \in FallTimes(k, Lat, Wrap)
  PROVE  t <= OffLatency
<1> DEFINE n == (OnLatency - k) * OffLatency
<1>1. n \in Nat
  BY LatencyAssumption
<1> HIDE DEF n
<1>2. PICK q \in Truncations(n, OnLatency) : t = OffLatency - q
  BY LatencyAssumption DEF FallTimes, Lat, n
<1>3. q \in Nat
  BY <1>1, <1>2, TruncationsNat, LatencyAssumption
<1> QED
  BY <1>2, <1>3, LatencyAssumption

(* A full fall leaves a charge that is not negative. *)
LEMMA ChargesNat ==
  ASSUME NEW k \in 0..OffLatency, NEW c \in Charges(OffLatency, k, Lat)
  PROVE  c \in Nat
<1> DEFINE n == OnLatency * (2 * OffLatency - OffLatency - k)
<1>1. n \in Nat
  BY LatencyAssumption
<1> HIDE DEF n
<1>2. c \in Truncations(n, OffLatency)
  BY LatencyAssumption DEF Charges, Lat, n
<1> QED
  BY <1>1, <1>2, TruncationsNat, LatencyAssumption

(* SettlesInTime needs to know more of a transition nothing interrupted:   *)
(* the interruption computes its level from that transition's length.      *)
Settling(u, n) ==
  /\ (n = 0 /\ u.status = "ON_TRANSITION") =>
        u.charge = 0 /\ u.nextClock = u.transitionTime + OnLatency
  /\ (n = 0 /\ u.status = "OFF_TRANSITION") =>
        u.nextClock = u.transitionTime + OffLatency
  /\ (n < 2 /\ u.status = "ON_TRANSITION") =>
        u.nextClock - u.transitionTime <= OnLatency
  /\ (n < 2 /\ u.status = "OFF_TRANSITION") =>
        u.nextClock - u.transitionTime <= OffLatency

LEMMA SynchronizeSettling ==
  ASSUME NEW u \in Unit, NEW n \in 0..2, NEW t \in Nat, Settling(u, n)
  PROVE  Settling(Synchronize(u, t), n)
<1> DEFINE s == Synchronize(u, t)
<1>1. s = u \/ ~InTransition(s)
  BY DEF Synchronize, InTransition, Unit
<1>2. CASE s = u
  BY <1>2
<1>3. CASE ~InTransition(s)
  <2> HIDE DEF s
  <2>1. Settling(s, n)
    BY <1>3 DEF Settling, InTransition
  <2> QED
    BY <2>1 DEF s
<1> QED
  BY <1>1, <1>2, <1>3

(* A request to a synchronized unit keeps Settling with the interruptions  *)
(* counted.                                                                *)
LEMMA TurnOffSettling ==
  ASSUME NEW u, NEW n \in 0..2, NEW t \in Nat, Sound(u, t), Settling(u, n),
         InTransition(u) => u.nextClock > t,
         NEW v \in TurnOff(u, t, Lat, Wrap)
  PROVE  Settling(v, Interrupted(n, u, v))
<1>0. u \in Unit /\ u.transitionTime <= t
  BY DEF Sound
<1>1. CASE u.status \in {"OFF", "OFF_TRANSITION"}
  BY <1>1 DEF TurnOff, Interrupted
<1>2. CASE u.status = "ON"
  <2>1. v = [u EXCEPT !.status = "OFF_TRANSITION", !.transitionTime = t,
                      !.nextClock = t + OffLatency,
                      !.totalOnTime = @ + (t - u.onTime)]
    BY <1>2 DEF TurnOff, Spell, Lat
  <2>2. /\ v.status = "OFF_TRANSITION" /\ v.transitionTime = t
        /\ v.nextClock = t + OffLatency
    BY <1>0, <2>1 DEF Unit
  <2> QED
    BY <2>2, LatencyAssumption DEF Settling
<1>3. CASE u.status = "ON_TRANSITION"
  <2>1. PICK d \in FallTimes((t - u.transitionTime) + u.charge, Lat, Wrap) :
          v = [u EXCEPT !.status = "OFF_TRANSITION", !.transitionTime = t,
                        !.nextClock = t + d]
    BY <1>3 DEF TurnOff
  <2>2. v.status = "OFF_TRANSITION" /\ v.transitionTime = t /\ v.nextClock = t + d
    BY <1>0, <2>1 DEF Unit
  <2>3. CASE n = 0
    <3>1. (t - u.transitionTime) + u.charge \in 0..OnLatency
      BY <1>0, <1>3, <2>3, LatencyAssumption DEF Settling, InTransition, Unit
    <3>2. d \in Int /\ d <= OffLatency
      BY <3>1, FallTimesBounded, FallTimesInt, LatIsLatencies
    <3>3. Interrupted(n, u, v) = 1
      BY <1>3, <2>2, <2>3 DEF Interrupted, InTransition
    <3> QED
      BY <2>2, <3>2, <3>3, LatencyAssumption DEF Settling
  <2>4. CASE n # 0
    <3>1. Interrupted(n, u, v) = 2
      BY <1>3, <2>2, <2>4 DEF Interrupted, InTransition
    <3> QED
      BY <3>1 DEF Settling
  <2> QED
    BY <2>3, <2>4
<1> QED
  BY <1>0, <1>1, <1>2, <1>3 DEF Unit, Statuses

LEMMA TurnOnSettling ==
  ASSUME NEW u, NEW n \in 0..2, NEW t \in Nat, Sound(u, t), Settling(u, n),
         InTransition(u) => u.nextClock > t,
         NEW v \in TurnOn(u, t, Lat)
  PROVE  Settling(v, Interrupted(n, u, v))
<1>0. u \in Unit /\ u.transitionTime <= t
  BY DEF Sound
<1>1. CASE u.status \in {"ON", "ON_TRANSITION"}
  <2>1. v = [u EXCEPT !.valid = TRUE]
    BY <1>1 DEF TurnOn
  <2>2. /\ v.status = u.status /\ v.transitionTime = u.transitionTime
        /\ v.nextClock = u.nextClock /\ v.charge = u.charge
    BY <1>0, <2>1 DEF Unit
  <2> QED
    BY <2>2 DEF Settling, Interrupted
<1>2. CASE u.status = "OFF"
  <2>1. v = [u EXCEPT !.status = "ON_TRANSITION", !.transitionTime = t,
                      !.nextClock = t + OnLatency, !.charge = 0, !.valid = TRUE,
                      !.totalOffTime = @ + (t - u.transitionTime)]
    BY <1>2 DEF TurnOn, Lat
  <2>2. /\ v.status = "ON_TRANSITION" /\ v.transitionTime = t
        /\ v.nextClock = t + OnLatency /\ v.charge = 0
    BY <1>0, <2>1 DEF Unit
  <2> QED
    BY <2>2, LatencyAssumption DEF Settling
<1>3. CASE u.status = "OFF_TRANSITION"
  <2>1. PICK c \in Charges(u.nextClock - u.transitionTime, t - u.transitionTime, Lat) :
          v = [u EXCEPT !.status = "ON_TRANSITION", !.transitionTime = t,
                        !.nextClock = t + (OnLatency - c), !.charge = c, !.valid = TRUE]
    BY <1>3 DEF TurnOn, Lat
  <2>2. /\ v.status = "ON_TRANSITION" /\ v.transitionTime = t
        /\ v.nextClock = t + (OnLatency - c)
    BY <1>0, <2>1 DEF Unit
  <2>3. CASE n = 0
    <3>1. /\ u.nextClock - u.transitionTime = OffLatency
          /\ t - u.transitionTime \in 0..OffLatency
      BY <1>0, <1>3, <2>3, LatencyAssumption DEF Settling, InTransition, Unit
    <3>2. c \in Nat
      BY <2>1, <3>1, ChargesNat
    <3>3. Interrupted(n, u, v) = 1
      BY <1>3, <2>2, <2>3 DEF Interrupted, InTransition
    <3> QED
      BY <2>2, <3>2, <3>3, LatencyAssumption DEF Settling
  <2>4. CASE n # 0
    <3>1. Interrupted(n, u, v) = 2
      BY <1>3, <2>2, <2>4 DEF Interrupted, InTransition
    <3> QED
      BY <3>1 DEF Settling
  <2> QED
    BY <2>3, <2>4
<1> QED
  BY <1>0, <1>1, <1>2, <1>3 DEF Unit, Statuses

LEMMA NextSettling == IInv /\ Settling(fu, chain) /\ [Next]_vars => Settling(fu, chain)'
<1> SUFFICES ASSUME IInv, Settling(fu, chain), [Next]_vars
             PROVE  Settling(fu, chain)'
  OBVIOUS
<1>0. now \in Nat /\ chain \in 0..2 /\ fu \in Unit /\ Sound(fu, now)
  BY DEF IInv, TypeOK, Sound
<1> DEFINE s == Synchronize(fu, now)
<1>1. Sound(s, now) /\ (InTransition(s) => s.nextClock > now) /\ Settling(s, chain)
  BY <1>0, SynchronizeSound, SynchronizeSettling
<1>2. CASE Tick \/ EnergyAbort \/ UNCHANGED vars
  <2>1. fu' = fu /\ chain' = chain
    BY <1>2 DEF Tick, EnergyAbort, vars
  <2> QED
    BY <2>1 DEF Settling
<1>3. CASE Poll
  <2>1. fu' = s /\ chain' = chain
    BY <1>3 DEF Poll
  <2> QED
    BY <1>1, <2>1 DEF Settling
<1>4. CASE RequestOff
  <2>1. PICK v \in TurnOff(s, now, Lat, Wrap) : Settle(v)
    BY <1>4 DEF RequestOff
  <2>2. \/ fu' = fu /\ chain' = chain
        \/ fu' = v /\ chain' = Interrupted(chain, s, v)
    BY <2>1 DEF Settle
  <2>3. Settling(v, Interrupted(chain, s, v))
    BY <1>0, <1>1, <2>1, TurnOffSettling
  <2> QED
    BY <2>2, <2>3 DEF Settling
<1>5. CASE RequestOn
  <2>1. PICK v \in TurnOn(s, now, Lat) : Settle(v)
    BY <1>5 DEF RequestOn
  <2>2. \/ fu' = fu /\ chain' = chain
        \/ fu' = v /\ chain' = Interrupted(chain, s, v)
    BY <2>1 DEF Settle
  <2>3. Settling(v, Interrupted(chain, s, v))
    BY <1>0, <1>1, <2>1, TurnOnSettling
  <2> QED
    BY <2>2, <2>3 DEF Settling
<1> QED
  BY <1>2, <1>3, <1>4, <1>5 DEF Next

(* SettlesInTime for all latencies: the level arithmetic of one            *)
(* interruption never makes a transition longer than a full one, whichever *)
(* way the casts round.                                                    *)
THEOREM SettlingSound == Spec => []SettlesInTime
<1>1. Init => Settling(fu, chain)
  BY DEF Init, NewUnit, Settling
<1>2. Settling(fu, chain) => SettlesInTime
  BY DEF Settling, SettlesInTime
<1> QED
  BY <1>1, <1>2, InitIInv, NextIInv, NextSettling, PTL DEF Spec
-----------------------------------------------------------------------------
(* What NeverAvailableEarly needs to know of a unit u that left OFF at the *)
(* tick left, or has not been OFF (-1).  A rise has no more charge than    *)
(* ticks since then.  A fall of p ticks began e ticks after it: far ahead, *)
(* or with a level of at most e, or of all but a tick of the full one,     *)
(* which no rise that is still due exceeds.                                *)
Falls(e, p) ==
  /\ e \in Nat
  /\ \/ p > OffLatency \/ e >= OnLatency - 1
     \/ OnLatency * (2 * p - OffLatency) < (e + 1) * p

Level(u, left) ==
  left # -1 =>
    /\ u.status = "ON" => u.onTime - left >= OnLatency
    /\ u.status = "ON_TRANSITION" =>
         /\ u.charge <= u.transitionTime - left
         /\ u.nextClock = u.transitionTime + (OnLatency - u.charge)
         /\ left <= u.transitionTime
    /\ u.status = "OFF_TRANSITION" =>
         Falls(u.transitionTime - left, u.nextClock - u.transitionTime)

LEMMA SynchronizeLevel ==
  ASSUME NEW u \in Unit, NEW t \in Nat, NEW left \in Nat \cup {-1}, Level(u, left)
  PROVE  Level(Synchronize(u, t), left)
<1> DEFINE s == Synchronize(u, t)
<1>1. CASE u.nextClock > t \/ ~InTransition(u)
  BY <1>1 DEF Synchronize
<1>2. CASE u.nextClock <= t /\ u.status = "ON_TRANSITION"
  <2>1. s = [u EXCEPT !.status = "ON", !.onTime = t, !.transitionTime = u.nextClock]
    BY <1>2 DEF Synchronize, InTransition, Unit
  <2>2. s.status = "ON" /\ s.onTime = t
    BY <2>1 DEF Unit
  <2>3. left # -1 => t - left >= OnLatency
    BY <1>2, LatencyAssumption DEF Level, Unit
  <2> QED
    BY <2>2, <2>3 DEF Level
<1>3. CASE u.nextClock <= t /\ u.status = "OFF_TRANSITION"
  <2>1. s.status = "OFF"
    BY <1>3 DEF Synchronize, InTransition, Unit
  <2> QED
    BY <2>1 DEF Level
<1> QED
  BY <1>1, <1>2, <1>3 DEF InTransition, Unit

(* A rise interrupted after k ticks of charge falls from a level of at     *)
(* most e ticks, if k is at most e.                                        *)
LEMMA FallKeepsLevel ==
  ASSUME KeepsLevel(Lat), NEW e \in Nat, NEW k \in Int, k <= e, k < OnLatency,
         NEW p \in FallTimes(k, Lat, Wrap), p > 0
  PROVE  Falls(e, p)
<1>0. OnLatency \in Nat \ {0} /\ OffLatency \in Nat \ {0} /\ Wrap \in Nat \ {0} /\ p \in Int
  BY LatencyAssumption, BoundAssumption, LatIsLatencies, FallTimesInt
<1>1. CASE k < 0
  <2>1. p = OffLatency + Wrap
    BY <1>1, p \in FallTimes(k, Lat, Wrap) DEF FallTimes, Lat
  <2> QED
    BY <1>0, <2>1 DEF Falls
<1>2. CASE k = OnLatency - 1
  BY <1>0, <1>2 DEF Falls
<1>3. CASE k \in 0..OnLatency - 2
  <2>1. p \in FallTimes(k, Lat, 1)
    BY <1>3, p \in FallTimes(k, Lat, Wrap) DEF FallTimes
  <2>2. OnLatency * (2 * p - OffLatency) < (k + 1) * p
    BY <1>3, <2>1, Lat.on = OnLatency, Lat.off = OffLatency DEF KeepsLevel, Lat
  <2>3. (k + 1) * p <= (e + 1) * p
    <3>1. e - k \in Nat /\ p \in Nat
      BY <1>0
    <3>2. (e - k) * p \in Nat
      BY <3>1
    <3>3. (e + 1) * p = (k + 1) * p + (e - k) * p
      BY <1>0
    <3> QED
      BY <1>0, <3>2, <3>3
  <2>4. OnLatency * (2 * p - OffLatency) \in Int /\ (k + 1) * p \in Int /\ (e + 1) * p \in Int
    BY <1>0
  <2> QED
    BY <2>2, <2>3, <2>4 DEF Falls
<1> QED
  BY <1>0, <1>1, <1>2, <1>3

(* A quotient below m truncates to less than m. *)
LEMMA TruncatedBelow ==
  ASSUME NEW n \in Int, NEW d \in Nat \ {0}, NEW m \in Nat \ {0}, n < m * d,
         NEW q \in Truncations(n, d)
  PROVE  q < m
<1>1. CASE n >= 0
  <2>1. n \div d \in Nat /\ n = d * (n \div d) + (n % d) /\ n % d \in 0..d - 1
    BY <1>1
  <2>2. n \div d < m
    <3> DEFINE r == n \div d
    <3>1. SUFFICES ASSUME r >= m PROVE FALSE
      BY <2>1
    <3>2. r \in Nat /\ n >= d * r
      BY <2>1
    <3> HIDE DEF r
    <3>3. r - m \in Nat /\ d * r = m * d + (r - m) * d
      BY <3>1, <3>2
    <3>4. (r - m) * d \in Nat /\ m * d \in Nat
      BY <3>3
    <3> QED
      BY <3>2, <3>3, <3>4
  <2>3. q <= n \div d
    BY <1>1, <2>1 DEF Truncations
  <2> QED
    BY <2>1, <2>2, <2>3, TruncationsInt
<1>2. CASE n < 0
  <2> DEFINE w == -n
  <2>0. w \in Nat
    BY <1>2
  <2>1. w \div d \in Nat /\ w = d * (w \div d) + (w % d) /\ w % d \in 0..d - 1
    BY <2>0
  <2>2. n % d = 0 => w \div d >= 1
    <3>1. SUFFICES ASSUME n % d = 0, w \div d = 0 PROVE FALSE
      BY <2>1
    <3>2. n = d * (n \div d) /\ n \div d \in Int
      BY <3>1
    <3>3. w < d
      <4> HIDE DEF w
      <4> QED
        BY <2>0, <2>1, <3>1
    <3> DEFINE r == n \div d
    <3>4. r \in Int /\ n = d * r
      BY <3>2
    <3> HIDE DEF r
    <3>5. CASE r >= 0
      BY <1>2, <3>4, <3>5
    <3>6. CASE r <= -1
      <4>1. -1 - r \in Nat
        BY <3>4, <3>6
      <4>2. (-1 - r) * d \in Nat
        BY <4>1
      <4>3. -n = d + (-1 - r) * d
        BY <3>4
      <4> QED
        BY <3>3, <4>2, <4>3
    <3> QED
      BY <3>4, <3>5, <3>6
  <2>3. q <= 0
    BY <1>2, <2>1, <2>2 DEF Truncations
  <2> QED
    BY <2>3, TruncationsInt
<1> QED
  BY <1>1, <1>2

(* A fall of p ticks, interrupted after d of them, gives a rise no more    *)
(* charge than has passed since the unit left OFF, unless none is due.     *)
LEMMA RiseKeepsLevel ==
  ASSUME NEW e, NEW p \in Nat \ {0}, Falls(e, p), NEW d \in Nat,
         NEW c \in Charges(p, d, Lat), c < OnLatency
  PROVE  c <= e + d
<1>0. OnLatency \in Nat \ {0} /\ OffLatency \in Nat \ {0} /\ e \in Nat /\ c \in Int
  BY LatencyAssumption, LatIsLatencies, ChargesInt DEF Falls
<1>1. CASE p > OffLatency
  <2>1. c = 0 \/ (/\ 2 * OffLatency < OnLatency
                  /\ c \in Truncations(OnLatency * (2 * OffLatency - OnLatency), OffLatency))
    BY <1>0, <1>1 DEF Charges, Lat
  <2>2. CASE 2 * OffLatency < OnLatency /\ c \in Truncations(OnLatency * (2 * OffLatency - OnLatency), OffLatency)
    <3> DEFINE n == OnLatency * (2 * OffLatency - OnLatency)
    <3>1. OnLatency * (OnLatency - 2 * OffLatency) \in Nat
      BY <1>0, <2>2
    <3>2. n = -(OnLatency * (OnLatency - 2 * OffLatency))
      BY <1>0
    <3>3. n \in Int /\ n < 1 * OffLatency
      BY <1>0, <3>1, <3>2
    <3> HIDE DEF n
    <3>4. c < 1
      BY <1>0, <2>2, <3>3, TruncatedBelow DEF n
    <3> QED
      BY <1>0, <3>4
  <2> QED
    BY <1>0, <2>1, <2>2
<1>2. CASE e >= OnLatency - 1
  BY <1>0, <1>2
<1>3. CASE p <= OffLatency /\ OnLatency * (2 * p - OffLatency) < (e + 1) * p
  <2> DEFINE n == OnLatency * (2 * p - OffLatency - d)
  <2>1. c \in Truncations(n, p)
    BY <1>0, <1>3 DEF Charges, Lat
  <2>2. n = OnLatency * (2 * p - OffLatency) - OnLatency * d /\ OnLatency * d \in Nat
    BY <1>0
  <2>3. n \in Int /\ n < (e + 1) * p
    BY <1>0, <1>3, <2>2
  <2> HIDE DEF n
  <2>4. c < e + 1
    BY <1>0, <2>1, <2>3, TruncatedBelow
  <2> QED
    BY <1>0, <2>4
<1> QED
  BY <1>0, <1>1, <1>2, <1>3 DEF Falls

LEMMA TurnOffLevel ==
  ASSUME KeepsLevel(Lat), NEW u \in Unit, NEW t \in Nat, NEW left \in Nat \cup {-1},
         u.transitionTime <= t, u.status = "ON" => u.onTime <= t, Level(u, left),
         InTransition(u) => u.nextClock > t,
         NEW v \in TurnOff(u, t, Lat, Wrap), InTransition(v) => v.nextClock > t
  PROVE  Level(v, left)
<1> SUFFICES ASSUME left # -1 PROVE Level(v, left)
  BY DEF Level
<1>1. CASE u.status \in {"OFF", "OFF_TRANSITION"}
  BY <1>1 DEF TurnOff
<1>2. CASE u.status = "ON"
  <2>1. v = [u EXCEPT !.status = "OFF_TRANSITION", !.transitionTime = t,
                      !.nextClock = t + OffLatency,
                      !.totalOnTime = @ + (t - u.onTime)]
    BY <1>2 DEF TurnOff, Spell, Lat
  <2>2. v.status = "OFF_TRANSITION" /\ v.transitionTime = t
    BY <2>1 DEF Unit
  <2>3. u.onTime - left >= OnLatency /\ u.onTime <= t /\ u.onTime \in Nat
    BY <1>2 DEF Level, Unit
  <2>4. t - left \in Nat /\ t - left >= OnLatency - 1
    BY <2>3, LatencyAssumption
  <2> QED
    BY <2>2, <2>4 DEF Level, Falls
<1>3. CASE u.status = "ON_TRANSITION"
  <2>1. PICK d \in FallTimes((t - u.transitionTime) + u.charge, Lat, Wrap) :
          v = [u EXCEPT !.status = "OFF_TRANSITION", !.transitionTime = t,
                        !.nextClock = t + d]
    BY <1>3 DEF TurnOff
  <2>2. v.status = "OFF_TRANSITION" /\ v.transitionTime = t /\ v.nextClock = t + d
    BY <2>1 DEF Unit
  <2> DEFINE k == (t - u.transitionTime) + u.charge
  <2>3. /\ u.charge \in Int /\ u.transitionTime \in Nat
        /\ u.charge <= u.transitionTime - left /\ left <= u.transitionTime
        /\ u.transitionTime + (OnLatency - u.charge) > t
    BY <1>3 DEF Level, Unit, InTransition
  <2>4. k \in Int /\ t - left \in Nat /\ k <= t - left /\ k < OnLatency
    BY <2>3, LatencyAssumption
  <2>5. d \in Int /\ d > 0
    BY <2>2, <2>4, LatIsLatencies, FallTimesInt DEF InTransition
  <2>6. Falls(t - left, d)
    BY <2>1, <2>4, <2>5, FallKeepsLevel
  <2>7. v.nextClock - v.transitionTime = d
    BY <2>2, <2>5
  <2> QED
    BY <2>2, <2>6, <2>7 DEF Level
<1> QED
  BY <1>1, <1>2, <1>3 DEF Unit, Statuses

LEMMA TurnOnLevel ==
  ASSUME NEW u \in Unit, NEW t \in Nat, NEW left \in Nat \cup {-1},
         u.transitionTime <= t, Level(u, left), InTransition(u) => u.nextClock > t,
         NEW v \in TurnOn(u, t, Lat), InTransition(v) => v.nextClock > t
  PROVE  Level(v, IF u.status = "OFF" THEN t ELSE left)
<1>1. CASE u.status \in {"ON", "ON_TRANSITION"}
  <2>1. v = [u EXCEPT !.valid = TRUE]
    BY <1>1 DEF TurnOn
  <2>2. /\ v.status = u.status /\ v.transitionTime = u.transitionTime
        /\ v.nextClock = u.nextClock /\ v.charge = u.charge /\ v.onTime = u.onTime
    BY <2>1 DEF Unit
  <2> QED
    BY <1>1, <2>2 DEF Level
<1>2. CASE u.status = "OFF"
  <2>1. v = [u EXCEPT !.status = "ON_TRANSITION", !.transitionTime = t,
                      !.nextClock = t + OnLatency, !.charge = 0, !.valid = TRUE,
                      !.totalOffTime = @ + (t - u.transitionTime)]
    BY <1>2 DEF TurnOn, Lat
  <2>2. /\ v.status = "ON_TRANSITION" /\ v.transitionTime = t
        /\ v.nextClock = t + OnLatency /\ v.charge = 0
    BY <2>1 DEF Unit
  <2> QED
    BY <1>2, <2>2, LatencyAssumption DEF Level
<1>3. CASE u.status = "OFF_TRANSITION" /\ left # -1
  <2>1. PICK c \in Charges(u.nextClock - u.transitionTime, t - u.transitionTime, Lat) :
          v = [u EXCEPT !.status = "ON_TRANSITION", !.transitionTime = t,
                        !.nextClock = t + (OnLatency - c), !.charge = c, !.valid = TRUE]
    BY <1>3 DEF TurnOn, Lat
  <2>2. /\ v.status = "ON_TRANSITION" /\ v.transitionTime = t
        /\ v.nextClock = t + (OnLatency - c) /\ v.charge = c
    BY <2>1 DEF Unit
  <2> DEFINE p == u.nextClock - u.transitionTime  d == t - u.transitionTime
             e == u.transitionTime - left
  <2>3. /\ p \in Nat \ {0} /\ d \in Nat /\ Falls(e, p) /\ e \in Nat /\ t = left + (e + d)
    BY <1>3 DEF Level, Unit, InTransition, Falls
  <2>4. c \in Int /\ c < OnLatency
    BY <2>1, <2>2, <2>3, LatIsLatencies, ChargesInt, LatencyAssumption DEF InTransition
  <2> HIDE DEF e
  <2>5. c <= e + d
    BY <2>1, <2>3, <2>4, RiseKeepsLevel
  <2>6. c <= t - left /\ left <= t
    BY <1>3, <2>3, <2>4, <2>5
  <2> QED
    BY <1>3, <2>2, <2>6 DEF Level
<1>4. CASE u.status = "OFF_TRANSITION" /\ left = -1
  BY <1>4 DEF Level
<1> QED
  BY <1>1, <1>2, <1>3, <1>4 DEF Unit, Statuses

LEMMA NextLevel ==
  ASSUME KeepsLevel(Lat)
  PROVE  IInv /\ Level(fu, leftOff) /\ [Next]_vars => Level(fu, leftOff)'
<1> SUFFICES ASSUME IInv, Level(fu, leftOff), [Next]_vars
             PROVE  Level(fu, leftOff)'
  OBVIOUS
<1>0. now \in Nat /\ leftOff \in Nat \cup {-1} /\ fu \in Unit /\ Sound(fu, now)
  BY DEF IInv, TypeOK, Sound
<1> DEFINE s == Synchronize(fu, now)
<1>1. Sound(s, now) /\ (InTransition(s) => s.nextClock > now) /\ Level(s, leftOff)
  BY <1>0, SynchronizeSound, SynchronizeLevel
<1> HIDE DEF s
<1>2. s \in Unit /\ s.transitionTime <= now /\ (s.status = "ON" => s.onTime <= now)
  BY <1>1 DEF Sound
<1>3. CASE Tick \/ EnergyAbort \/ UNCHANGED vars
  <2>1. fu' = fu /\ leftOff' = leftOff
    BY <1>3 DEF Tick, EnergyAbort, vars
  <2> QED
    BY <2>1 DEF Level, Falls
<1>4. CASE Poll
  <2>1. fu' = s /\ leftOff' = leftOff
    BY <1>4 DEF Poll, s
  <2> QED
    BY <1>1, <2>1 DEF Level, Falls
<1>5. CASE RequestOff
  <2>1. PICK v \in TurnOff(s, now, Lat, Wrap) : Settle(v)
    BY <1>5 DEF RequestOff, s
  <2>2. leftOff' = leftOff
    BY <1>5 DEF RequestOff
  <2>3. CASE InTransition(v) /\ v.nextClock <= now
    BY <2>1, <2>2, <2>3 DEF Settle, Level, Falls
  <2>4. CASE ~(InTransition(v) /\ v.nextClock <= now)
    <3>1. fu' = v
      BY <2>1, <2>4 DEF Settle
    <3>2. v \in Unit
      BY <1>0, <1>1, <2>1, TurnOffSound, LatIsLatencies
    <3>3. InTransition(v) => v.nextClock > now
      BY <1>0, <2>4, <3>2 DEF Unit
    <3>4. Level(v, leftOff)
      BY <1>0, <1>1, <1>2, <2>1, <3>3, TurnOffLevel
    <3> QED
      BY <2>2, <3>1, <3>4 DEF Level, Falls
  <2> QED
    BY <2>3, <2>4
<1>6. CASE RequestOn
  <2>1. PICK v \in TurnOn(s, now, Lat) : Settle(v)
    BY <1>6 DEF RequestOn, s
  <2>2. leftOff' = IF s.status = "OFF" THEN now ELSE leftOff
    BY <1>6 DEF RequestOn, s
  <2>3. v \in Unit
    BY <1>0, <1>1, <2>1, TurnOnSound, LatIsLatencies
  <2>4. CASE InTransition(v) /\ v.nextClock <= now
    <3>1. fu' = fu
      BY <2>1, <2>4 DEF Settle
    <3>2. s.status # "OFF"
      <4>1. SUFFICES ASSUME s.status = "OFF" PROVE FALSE
        OBVIOUS
      <4>2. v = [s EXCEPT !.status = "ON_TRANSITION", !.transitionTime = now,
                          !.nextClock = now + OnLatency, !.charge = 0, !.valid = TRUE,
                          !.totalOffTime = @ + (now - s.transitionTime)]
        BY <2>1, <4>1 DEF TurnOn, Lat
      <4>3. v.nextClock = now + OnLatency
        BY <1>2, <4>2 DEF Unit
      <4> QED
        BY <1>0, <2>4, <4>3, LatencyAssumption
    <3> QED
      BY <2>2, <3>1, <3>2 DEF Level, Falls
  <2>5. CASE ~(InTransition(v) /\ v.nextClock <= now)
    <3>1. fu' = v
      BY <2>1, <2>5 DEF Settle
    <3>2. InTransition(v) => v.nextClock > now
      BY <1>0, <2>3, <2>5 DEF Unit
    <3>3. Level(v, IF s.status = "OFF" THEN now ELSE leftOff)
      BY <1>0, <1>1, <1>2, <2>1, <3>2, TurnOnLevel
    <3> QED
      BY <2>2, <3>1, <3>3 DEF Level, Falls
  <2> QED
    BY <2>4, <2>5
<1> QED
  BY <1>3, <1>4, <1>5, <1>6 DEF Next

(* A wake-up that starts from OFF takes onLatency at least, however often  *)
(* it is interrupted and resumed, for all latencies at which a fall does   *)
(* not gain a tick over the rise it interrupts (turnOff and turnOn of      *)
(* gatinglib.cpp): what truncation gains does not add up over a chain.     *)
THEOREM NeverEarly ==
  ASSUME KeepsLevel(Lat)
  PROVE  Spec => []NeverAvailableEarly
<1>1. Init => Level(fu, leftOff)
  BY DEF Init, Level
<1>2. IInv /\ Level(fu, leftOff) => NeverAvailableEarly
  BY LatencyAssumption DEF IInv, TypeOK, Sound, Unit, Level, NeverAvailableEarly
<1> QED
  BY <1>1, <1>2, InitIInv, NextIInv, NextLevel, PTL DEF Spec
-----------------------------------------------------------------------------
LEMMA NextReports ==
  IInv /\ [Next]_vars =>
    [ /\ TimeSpentOn(fu, now)' >= TimeSpentOn(fu, now)
      /\ TimeSpentOff(fu, now)' >= TimeSpentOff(fu, now) ]_vars
<1> SUFFICES ASSUME IInv, Next
             PROVE  /\ TimeSpentOn(fu, now)' >= TimeSpentOn(fu, now)
                    /\ TimeSpentOff(fu, now)' >= TimeSpentOff(fu, now)
  OBVIOUS
<1> DEFINE s == Synchronize(fu, now)
<1>0. now \in Nat /\ fu \in Unit
  BY DEF IInv, TypeOK, Sound
<1>1. s \in Unit /\ (InTransition(s) => s.nextClock > now)
  BY <1>0, SynchronizeSound DEF IInv, Sound
<1>2. TimeSpentOn(fu, now) = OnReport(s, now) /\ TimeSpentOff(fu, now) = OffReport(s, now)
  BY DEF TimeSpentOn, TimeSpentOff, OnReport, OffReport
<1>3. /\ OnReport(s, now) \in Int /\ OffReport(s, now) \in Int
      /\ OnReport(s, now) >= OnReport(s, now) /\ OffReport(s, now) >= OffReport(s, now)
  BY <1>0, <1>1 DEF OnReport, OffReport, Unit
<1>4. ASSUME NEW v \in Unit, fu' = v, now' = now, InTransition(v) => v.nextClock > now,
             OnReport(v, now) = OnReport(s, now), OffReport(v, now) = OffReport(s, now)
      PROVE  /\ TimeSpentOn(fu, now)' >= TimeSpentOn(fu, now)
             /\ TimeSpentOff(fu, now)' >= TimeSpentOff(fu, now)
  <2>1. TimeSpentOn(v, now) = OnReport(v, now) /\ TimeSpentOff(v, now) = OffReport(v, now)
    BY <1>0, <1>4, ReportsRead
  <2> QED
    BY <1>2, <1>3, <1>4, <2>1
<1>5. CASE Tick
  BY <1>0, <1>5, TickReports DEF Tick
<1>6. CASE UNCHANGED <<fu, now>>
  BY <1>2, <1>3, <1>6
<1>7. CASE EnergyAbort
  BY <1>6, <1>7 DEF EnergyAbort
<1>8. CASE Poll
  BY <1>1, <1>4, <1>8 DEF Poll
<1>9. CASE RequestOff
  <2>1. PICK v \in TurnOff(s, now, Lat, Wrap) : Settle(v)
    BY <1>9 DEF RequestOff
  <2>2. now' = now
    BY <1>9 DEF RequestOff
  <2>3. OnReport(v, now) = OnReport(s, now) /\ OffReport(v, now) = OffReport(s, now)
    BY <1>0, <1>1, <2>1, TurnOffReports, LatIsLatencies
  <2>4. v \in Unit
    BY <1>0, <2>1, SynchronizeSound, TurnOffSound, LatIsLatencies DEF IInv
  <2>5. fu' = fu \/ (fu' = v /\ (InTransition(v) => v.nextClock > now))
    BY <1>0, <2>1, <2>4 DEF Settle, Unit
  <2> QED
    BY <1>4, <1>6, <2>2, <2>3, <2>4, <2>5
<1>10. CASE RequestOn
  <2>1. PICK v \in TurnOn(s, now, Lat) : Settle(v)
    BY <1>10 DEF RequestOn
  <2>2. now' = now
    BY <1>10 DEF RequestOn
  <2>3. OnReport(v, now) = OnReport(s, now) /\ OffReport(v, now) = OffReport(s, now)
    BY <1>0, <1>1, <2>1, TurnOnReports, LatIsLatencies
  <2>4. v \in Unit
    BY <1>0, <2>1, SynchronizeSound, TurnOnSound, LatIsLatencies DEF IInv
  <2>5. fu' = fu \/ (fu' = v /\ (InTransition(v) => v.nextClock > now))
    BY <1>0, <2>1, <2>4 DEF Settle, Unit
  <2> QED
    BY <1>4, <1>6, <2>2, <2>3, <2>4, <2>5
<1> QED
  BY <1>5, <1>7, <1>8, <1>9, <1>10 DEF Next

(* ReportsGrow for all latencies: no request, tick or lazy completion makes *)
(* a reported total smaller.                                                *)
THEOREM ReportsNeverShrink == Spec => ReportsGrow
BY InitIInv, NextIInv, NextReports, PTL DEF Spec, ReportsGrow
=============================================================================
