---------------------------- MODULE MCTankSensor ----------------------------
(***************************************************************************)
(* Instances of TankSensor for TLC, readings in millimetres and rounded to *)
(* whole centimetres.  10 mm is the reading that means none and 14 mm, low *)
(* enough for the low alarm, rounds to the same key; 170 mm lie between    *)
(* the restore and the active threshold of the high alarm, 250 mm overfill *)
(* the tank.  With 200 mm as Empty the level is undefined.  Of the shapes  *)
(* one halves the volume of the lower half and one is malformed.           *)
(***************************************************************************)
EXTENDS TankSensor

Depths == {10, 14, 170, 250}
ZeroOrMisset == {0, 200}
Shapes == {<<>>, <<<<50, 25>>>>, <<<<50, 25>>, <<40, 60>>>>}
EmptyRemote == {"empty"}
Both == {"high", "low"}
Actives == [high |-> 90, low |-> 10]
Restores == [high |-> 80, low |-> 15]
Delays == [high |-> 2, low |-> 1]
=============================================================================
