--------------------------- MODULE BmsLinkFollower ---------------------------
(***************************************************************************)
(* bms_link_follower.py and the control paths of the charger services it   *)
(* drives (ble_role_charger.py, ble_charger_common.py).  The follower is a *)
(* thread: each tick reads the limits of the active BMS and the charger    *)
(* services on the bus, and sets the chargers' paths over D-Bus.  A call   *)
(* is a message in the queue of the main loop, which serves it between its *)
(* other callbacks; the follower waits for the answer, and gives up after  *)
(* a timeout without taking the message back.                              *)
(*                                                                         *)
(* Both limits are one level here.  No limits means that DVCC is off, that *)
(* no BMS is active, or that it does not publish both limits.  What the    *)
(* charger does with a setpoint is the subject of ChargerControl.          *)
(***************************************************************************)
EXTENDS Naturals, Sequences

CONSTANTS
  Device,     \* the chargers
  Limit,      \* what a BMS may ask for
  Hiccup,     \* what may happen on the way: "stall", "bus", "leave", "restart"
  CallBound   \* calls given up that may wait in the queue of the main loop

Unset == 0

ASSUME LimitAssumption == Limit \subseteq Nat \ {Unset} /\ CallBound \in Nat

NoCall == [path |-> "none"]
NoChargers == [c \in Device |-> Unset]

VARIABLES
  svc,      \* the control paths of the services, and whether they are on the bus
  limits,   \* the limits of the active BMS, or Unset
  calls,    \* SetValue messages the main loop has not served
  held,     \* _engaged
  written,  \* _written
  todo,     \* chargers this tick has still to drive or to release
  goal,     \* the limits this tick read, Unset to release
  call,     \* the call the follower waits for, with its answer
  voltOk    \* ok_v of _drive

memory == <<held, written>>
progress == <<todo, goal, call, voltOk>>
vars == <<svc, limits, calls, memory, progress>>

Idle == todo = {} /\ call = NoCall

(***************************************************************************)
(* The service.  SetValue of the value it holds is acknowledged without a  *)
(* callback; otherwise the handler runs and the value is stored after it.  *)
(* A setpoint engages external control whatever the switches say.          *)
(***************************************************************************)
NewService ==
  [present |-> TRUE, engaged |-> FALSE, bmsPresent |-> 0, networkMode |-> 0,
   linkVoltage |-> Unset, linkCurrent |-> Unset]

\* Seeded fault: the mode switch forgets that the BMS is present.
EngagedByModeOnly(s, path, v) ==
  IF path = "networkMode" THEN v # 0 ELSE path = "bmsPresent" => v = 1

EngagedBy(s, path, v) ==
  CASE path = "bmsPresent" -> v = 1 \/ s.networkMode # 0
    [] path = "networkMode" -> v # 0 \/ s.bmsPresent = 1
    [] path \in {"linkVoltage", "linkCurrent"} -> TRUE

Stored(s, path, v) ==
  IF s[path] = v THEN s ELSE [s EXCEPT !.engaged = EngagedBy(s, path, v), ![path] = v]

SetMode(c, v) ==
  /\ svc' = [svc EXCEPT ![c] = Stored(@, "networkMode", v)]
  /\ UNCHANGED <<limits, calls, memory, progress>>

\* Disabling a charger takes its name off the bus; the object keeps its values.
ComeOrGo(c) ==
  /\ "leave" \in Hiccup
  /\ svc' = [svc EXCEPT ![c].present = ~@]
  /\ UNCHANGED <<limits, calls, memory, progress>>

Init ==
  /\ svc = [c \in Device |-> NewService]
  /\ limits \in Limit \cup {Unset}
  /\ calls = <<>> /\ held = {} /\ written = NoChargers
  /\ todo = {} /\ goal = Unset /\ call = NoCall /\ voltOk = FALSE

(***************************************************************************)
(* A tick: chargers that left the bus are forgotten, then the others are   *)
(* driven or, without limits, those it holds are released.  A read that    *)
(* fails reads as absent; with its bus down the follower sees no charger.  *)
(***************************************************************************)
OnBus == {c \in Device : svc[c].present}

\* Seeded fault: the value written last survives the charger's departure.
ForgottenKeepsValue(on) == written

Forgotten(on) == [c \in Device |-> IF c \in held \ on THEN Unset ELSE written[c]]

ToDrive(on, lim) == IF lim = Unset THEN held \cap on ELSE on

TickWith(on, lim) ==
  /\ Idle
  /\ held' = held \cap on
  /\ written' = Forgotten(on)
  /\ goal' = lim
  /\ todo' = ToDrive(on, lim)
  /\ UNCHANGED <<svc, limits, calls, call, voltOk>>

Tick == TickWith(OnBus, limits)
BlindTick == "bus" \in Hiccup /\ \E on \in {OnBus, {}} : TickWith(on, Unset)

(***************************************************************************)
(* Calls.  A charger without a name on the bus answers with an error at    *)
(* once.                                                                   *)
(***************************************************************************)
Call(c, path, v) ==
  IF c \in OnBus
  THEN /\ calls' = Append(calls, [dev |-> c, path |-> path, val |-> v])
       /\ call' = [dev |-> c, path |-> path, answer |-> "awaited"]
  ELSE /\ call' = [dev |-> c, path |-> path, answer |-> "no"]
       /\ UNCHANGED calls

Awaited == call # NoCall /\ call.answer = "awaited"
Answered == call # NoCall /\ call.answer # "awaited"

Serve ==
  /\ calls # <<>>
  /\ LET m == Head(calls) IN svc' = [svc EXCEPT ![m.dev] = Stored(@, m.path, m.val)]
  /\ calls' = Tail(calls)
  /\ call' = IF Awaited /\ Len(calls) = 1 THEN [call EXCEPT !.answer = "ok"] ELSE call
  /\ UNCHANGED <<limits, memory, todo, goal, voltOk>>

GiveUp ==
  /\ "stall" \in Hiccup
  /\ Awaited /\ Len(calls) <= CallBound
  /\ call' = [call EXCEPT !.answer = "no"]
  /\ UNCHANGED <<svc, limits, calls, memory, todo, goal, voltOk>>

(***************************************************************************)
(* _drive and _disengage_all, from one call to the next.                   *)
(***************************************************************************)
Turn(c) == c \in todo /\ call = NoCall /\ UNCHANGED <<svc, limits, goal>>
Back(path) == Answered /\ call.path = path /\ UNCHANGED <<svc, limits, goal>>

Release(c) ==
  /\ Turn(c) /\ goal = Unset
  /\ Call(c, "bmsPresent", 0)
  /\ UNCHANGED <<memory, todo, voltOk>>

Engage(c) ==
  /\ Turn(c) /\ goal # Unset /\ c \notin held
  /\ Call(c, "bmsPresent", 1)
  /\ UNCHANGED <<memory, todo, voltOk>>

SkipWritten(c) ==
  /\ Turn(c) /\ goal # Unset /\ c \in held /\ written[c] = goal
  /\ todo' = todo \ {c}
  /\ UNCHANGED <<calls, memory, call, voltOk>>

SendVoltage(c) ==
  /\ Turn(c) /\ goal # Unset /\ c \in held /\ written[c] # goal
  /\ Call(c, "linkVoltage", goal)
  /\ UNCHANGED <<memory, todo, voltOk>>

Released ==
  /\ Back("bmsPresent") /\ goal = Unset
  /\ held' = held \ {call.dev}
  /\ written' = [written EXCEPT ![call.dev] = Unset]
  /\ todo' = todo \ {call.dev} /\ call' = NoCall
  /\ UNCHANGED <<calls, voltOk>>

HeldAfter(c, ok) == IF ok THEN held \cup {c} ELSE held

Engaged ==
  /\ Back("bmsPresent") /\ goal # Unset
  /\ held' = HeldAfter(call.dev, call.answer = "ok")
  /\ todo' = IF call.answer = "ok" THEN todo ELSE todo \ {call.dev}
  /\ call' = NoCall
  /\ UNCHANGED <<calls, written, voltOk>>

SendCurrent ==
  /\ Back("linkVoltage")
  /\ voltOk' = (call.answer = "ok")
  /\ Call(call.dev, "linkCurrent", goal)
  /\ UNCHANGED <<memory, todo>>

\* Seeded fault: only the last of the two answers counts.
BothOkLastOnly(okV, okC) == okC

BothOk(okV, okC) == okV /\ okC

Written ==
  /\ Back("linkCurrent")
  /\ written' = [written EXCEPT ![call.dev] =
                   IF BothOk(voltOk, call.answer = "ok") THEN goal ELSE Unset]
  /\ todo' = todo \ {call.dev}
  /\ call' = NoCall /\ voltOk' = FALSE
  /\ UNCHANGED <<calls, held>>

BmsChanges(lim) == limits' = lim /\ UNCHANGED <<svc, calls, memory, progress>>

\* The thread ends with the process and forgets; new services start afresh.
Restart ==
  /\ "restart" \in Hiccup
  /\ svc' = [c \in Device |-> [NewService EXCEPT !.present = svc[c].present]]
  /\ calls' = <<>> /\ held' = {} /\ written' = NoChargers
  /\ todo' = {} /\ goal' = Unset /\ call' = NoCall /\ voltOk' = FALSE
  /\ UNCHANGED limits

FollowerStep ==
  \/ \E c \in Device : Release(c) \/ Engage(c) \/ SkipWritten(c) \/ SendVoltage(c)
  \/ Released \/ Engaged \/ SendCurrent \/ Written

Environment ==
  \/ \E lim \in Limit \cup {Unset} : BmsChanges(lim)
  \/ \E c \in Device : ComeOrGo(c) \/ \E v \in {0, 1} : SetMode(c, v)

Next == Tick \/ BlindTick \/ FollowerStep \/ Serve \/ GiveUp \/ Environment \/ Restart

Spec == Init /\ [][Next]_vars

(***************************************************************************)
(* The thread ticks and goes on with a tick; the main loop serves what is  *)
(* queued.                                                                 *)
(***************************************************************************)
Fairness == WF_vars(Tick) /\ WF_vars(FollowerStep) /\ WF_vars(Serve)

FairSpec == Spec /\ Fairness

---------------------------------------------------------------------------
Path == {"bmsPresent", "networkMode", "linkVoltage", "linkCurrent"}
Message == [dev : Device, path : Path, val : Limit \cup {0, 1}]

\* Types; and only chargers the follower holds are told to let go: one that the
\* user controls through the mode switch is not written to.
TypeOK ==
  /\ svc \in [Device -> [present : BOOLEAN, engaged : BOOLEAN,
                         bmsPresent : {0, 1}, networkMode : {0, 1},
                         linkVoltage : Limit \cup {Unset}, linkCurrent : Limit \cup {Unset}]]
  /\ limits \in Limit \cup {Unset}
  /\ calls \in Seq(Message)
  /\ held \in SUBSET Device /\ todo \in SUBSET Device
  /\ goal = Unset => todo \subseteq held
  /\ written \in [Device -> Limit \cup {Unset}]
  /\ goal \in Limit \cup {Unset}
  /\ call \in {NoCall} \cup [dev : Device, path : Path, answer : {"awaited", "ok", "no"}]
  /\ voltOk \in BOOLEAN

\* A charger the follower counts as engaged is under external control, but for
\* the moment between its release and the follower's hearing of it; calls given
\* up and served late, the mode switch and departures do not break that.
HeldIsControlled ==
  \A c \in held : \/ svc[c].bmsPresent = 1 /\ svc[c].engaged
                  \/ goal = Unset /\ c \in todo

\* What the follower remembers to have written is what the service holds, so a
\* tick that skips a charger has nothing to say to it.
CacheNeverLies ==
  \A c \in Device \ todo : written[c] # Unset =>
    /\ c \in held
    /\ svc[c].linkVoltage = written[c] /\ svc[c].linkCurrent = written[c]

\* The services the follower writes to keep the promise of ControlPaths, as the
\* chargers of ChargerControl do.
Face(s) ==
  [engaged |-> s.engaged, bmsPresent |-> s.bmsPresent, networkMode |-> s.networkMode,
   linkVoltage |-> s.linkVoltage, linkCurrent |-> s.linkCurrent]

Link == INSTANCE ControlPaths WITH
  Level <- Limit, service <- [c \in Device |-> Face(svc[c])]

EngagedAsTold == Link!ControlSpec

\* No more restarts, failed readings and late answers.
Calm == <>[][~Restart /\ ~BlindTick /\ ~GiveUp]_vars

\* Limits that last reach every charger that stays, and keep it under control.
LimitsArrive ==
  Calm => \A c \in Device : \A lim \in Limit :
    <>[](limits = lim /\ svc[c].present) =>
      <>[](svc[c].engaged /\ svc[c].linkVoltage = lim /\ svc[c].linkCurrent = lim)

==============================================================================
