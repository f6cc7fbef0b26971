------------------------------- MODULE MCRouter -------------------------------
(***************************************************************************)
(* Instances of Router for TLC: two services, one of which registers a     *)
(* product range and an address and the other a product.                   *)
(***************************************************************************)
EXTENDS Router

CONSTANTS s1, s2, a1, a2, k1, k2

TwoServices == {s1, s2}
Addresses == {a1, a2}
Makers == {k1, k2}
Names == {"WD_"}
Products == 1..3
OneMaker == {k1}
OneAddress == {a1}

RangePath == [label |-> s1, kind |-> "mfgr_product_range", maker |-> k2, lo |-> 2, hi |-> 3]
AddressPath == [label |-> s1, kind |-> "addr", addr |-> a2]
ProductPath == [label |-> s2, kind |-> "mfgr_product", maker |-> k1, product |-> 1]

Paths == {RangePath, AddressPath, ProductPath}
=============================================================================
