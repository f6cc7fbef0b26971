-------------------------- MODULE MCChargerControl ---------------------------
(***************************************************************************)
(* Instances of ChargerControl for TLC: a charger under external control   *)
(* by voltage, which needs its battery type set first, and a second one    *)
(* that competes for the writer.                                           *)
(***************************************************************************)
EXTENDS ChargerControl, TLC

CONSTANTS c1, c2

TwoChargers == {c1, c2}
TwoLevels == {1, 3}
Paths == (c1 :> [p \in {"linkVoltage", "bmsPresent"} |->
                   IF p = "bmsPresent" THEN {0, 1} ELSE {1}])
           @@ (c2 :> [p \in {"limit"} |-> {1}])
States == (c1 :> {"bulk", "short"}) @@ (c2 :> {})
Second == {c2}
Failing == {"fail", "restart"}
==============================================================================
