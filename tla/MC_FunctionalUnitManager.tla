----------------------- MODULE MC_FunctionalUnitManager -----------------------
(* Two units with the proportions of FUT_INT_MUL and FUT_CMP. *)
EXTENDS FunctionalUnitManager

OnLatencies == <<3, 2>>
OffLatencies == <<2, 1>>

(* The units of the simulator (gatinglib.cpp:350-371) whose latencies keep *)
(* the level of an interrupted rise, and those whose latencies do not.     *)
Keeping == {<<10, 8>>, <<7, 5>>, <<30, 25>>, <<35, 33>>, <<20, 18>>, <<45, 40>>, <<60, 50>>,
            <<18, 15>>, <<25, 20>>, <<30, 26>>, <<60, 55>>, <<70, 65>>, <<40, 35>>}
Gaining == {<<6, 3>>, <<8, 5>>, <<5, 2>>}
ASSUME LevelAssumption ==
  \A lat \in Keeping \cup Gaining :
    KeepsLevel([on |-> lat[1], off |-> lat[2]]) <=> lat \in Keeping

(* So do those of the unit in FunctionalUnit.cfg. *)
ASSUME UnitAssumption == KeepsLevel([on |-> 4, off |-> 3])
=============================================================================
