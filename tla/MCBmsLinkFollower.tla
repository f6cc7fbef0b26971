------------------------- MODULE MCBmsLinkFollower ---------------------------
EXTENDS BmsLinkFollower, TLC
CONSTANTS c1, c2
OneCharger == {c1}
TwoLimits == {1, 2}
AllHiccups == {"stall", "bus", "leave", "restart"}
==============================================================================
