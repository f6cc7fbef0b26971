------------------------------ MODULE MCEasyStart -----------------------------
(***************************************************************************)
(* One EasyStart, two cards of the allowlist and one that is not on it.    *)
(***************************************************************************)
EXTENDS EasyStart

CONSTANTS h0, h1, h9
Three == {h0, h1, h9}
Two == {h0, h1}
===============================================================================
