---------------------------- MODULE MCPlantLoop -----------------------------
(* Instances of PlantLoop for TLC: a sensor and one or two actuators, which *)
(* nothing in the code tells apart.                                         *)
EXTENDS PlantLoop, TLC

CONSTANTS temp, heater, valve

Actuators == Permutations(Writable)
=============================================================================
