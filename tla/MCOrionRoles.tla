----------------------------- MODULE MCOrionRoles -----------------------------
(***************************************************************************)
(* One Orion-TR for TLC.                                                   *)
(***************************************************************************)
EXTENDS OrionRoles

CONSTANT o1
OneUnit == {o1}
===============================================================================
