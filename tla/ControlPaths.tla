----------------------------- MODULE ControlPaths -----------------------------
(***************************************************************************)
(* What the service of a charger promises those who control it over D-Bus, *)
(* whoever they are: a path holds what was written to it last, and the     *)
(* charger is under external control as the last change decides.  A        *)
(* setpoint engages it whatever the switches say; a change of a switch     *)
(* leaves it engaged as long as one of them is on.  A value that is        *)
(* already there changes nothing, and a new service starts released.       *)
(***************************************************************************)
CONSTANTS Device, Level, Unset

VARIABLE service

Switch == {"bmsPresent", "networkMode"}
Setpoint == {"linkVoltage", "linkCurrent"}

Released ==
  [engaged |-> FALSE, bmsPresent |-> 0, networkMode |-> 0,
   linkVoltage |-> Unset, linkCurrent |-> Unset]

Decides(s, path) == path \in Setpoint \/ s.bmsPresent = 1 \/ s.networkMode # 0

Change(c, path, v) ==
  LET s == [service[c] EXCEPT ![path] = v]
  IN /\ service[c][path] # v
     /\ service' = [service EXCEPT ![c] = [s EXCEPT !.engaged = Decides(s, path)]]

Start == service' = [c \in Device |-> Released]

ControlInit == service = [c \in Device |-> Released]

ControlNext ==
  \/ \E c \in Device :
       \/ \E path \in Switch : \E v \in {0, 1} : Change(c, path, v)
       \/ \E path \in Setpoint : \E v \in Level : Change(c, path, v)
  \/ Start

ControlSpec == ControlInit /\ [][ControlNext]_service
===============================================================================
