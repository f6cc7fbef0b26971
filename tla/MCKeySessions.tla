---------------------------- MODULE MCKeySessions ----------------------------
(***************************************************************************)
(* Instances of KeySessions for TLC: two Orion-TR, two SmartSolar or two   *)
(* SmartShunt, the second of which answers only definite arrays, and those *)
(* only after the PUK exchange.  An IP22 does here what an Orion-TR does.  *)
(***************************************************************************)
EXTENDS KeySessions, TLC

CONSTANTS d1, d2, ka, kb

TwoDevices == {d1, d2}
OneDevice == {d2}
Keys == {ka, kb}
Fleets == {[d \in TwoDevices |-> k] : k \in {"orion", "solar", "shunt"}}
Dialects == (d1 :> {"private", "definite"}) @@ (d2 :> {"definite"})
FirstKeys == [d \in TwoDevices |-> ka]
==============================================================================
