------------------------------ MODULE GatedUnits ------------------------------
(***************************************************************************)
(* What gating requests promise, without times and power levels: a unit is *)
(* available only while the last request wants it; a request takes away at *)
(* once every unit it does not want, and gives back none; a unit that is   *)
(* wanted comes back later, while no request is served.                    *)
(***************************************************************************)
CONSTANT Units

VARIABLES
  wanted,    \* the units the last request asked for
  available  \* the units the issue logic may use

vars == <<wanted, available>>

Init == wanted = Units /\ available = Units

Request(m) ==
  /\ wanted' = m
  /\ available' = available \cap m

Rise ==
  /\ \E risen \in SUBSET (wanted \ available) : available' = available \cup risen
  /\ UNCHANGED wanted

Next == Rise \/ \E m \in SUBSET Units : Request(m)

Spec == Init /\ [][Next]_vars
=============================================================================
