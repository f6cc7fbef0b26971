---------------------------- MODULE MCScanControl ----------------------------
(***************************************************************************)
(* Instances of ScanControl for TLC: two or three cards (prod has two; the *)
(* third makes the cyclic order visible) and the ways HCI commands end.    *)
(***************************************************************************)
EXTENDS ScanControl

TwoCards == {1, 2}
ThreeCards == {1, 2, 3}
Obeys == {"ok"}
MayFail == {"ok", "fail"}
MayRaise == {"ok", "fail", "raise"}
FirstCard == {1}
=============================================================================
