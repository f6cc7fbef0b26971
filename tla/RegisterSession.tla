--------------------------- MODULE RegisterSession ---------------------------
(***************************************************************************)
(* What the GATT layer promises the drivers of dbus-ble-sensors-py: one    *)
(* session at a time, which reaches its device at most once, and whose     *)
(* request is answered once.  A request answered with success has been     *)
(* sent, and none is sent after its answer.  Whether the device took it is *)
(* not part of the promise: the writes are unacknowledged.                 *)
(***************************************************************************)
CONSTANTS Job, Free

VARIABLES
  held,    \* the request in progress, or Free
  state    \* how far it has come

sessionVars == <<held, state>>

SessionInit == held = Free /\ state = "idle"

Ask == held = Free /\ held' \in Job /\ state' = "asked"
Send == state = "asked" /\ state' = "sent" /\ UNCHANGED held
Succeed == state = "sent" /\ state' = "good" /\ UNCHANGED held
Give == state \in {"asked", "sent"} /\ state' = "bad" /\ UNCHANGED held
Answer == state \in {"good", "bad"} /\ held' = Free /\ state' = "idle"

\* The answer's callback may make the next request at once.
AnswerAndAsk == state \in {"good", "bad"} /\ held' \in Job /\ state' = "asked"

\* The process ends: whatever was in progress is never answered.
Abandon == held' = Free /\ state' = "idle"

SessionNext ==
  Ask \/ Send \/ Succeed \/ Give \/ Answer \/ AnswerAndAsk \/ Abandon

SessionSpec == SessionInit /\ [][SessionNext]_sessionVars
==============================================================================
