--------------------------- MODULE ChargerControl ----------------------------
(***************************************************************************)
(* External control of the Blue Smart IP22 chargers                        *)
(* (ble_device_ip22_charger.py, ble_charger_common.py, ble_role_charger.py *)
(* and sensor_publisher.py) over the one GATT writer they share.  Writes   *)
(* to the charger's D-Bus paths arrive as SetValue calls, set the control  *)
(* state and queue register writes; advertisements and HEX telemetry polls *)
(* publish the charger's state.  Every handler is one callback of the GLib *)
(* main loop.                                                              *)
(***************************************************************************)
EXTENDS GattWriter

CONSTANTS
  Level,      \* setpoints, in steps of the register's resolution
  Deadband,   \* two setpoints closer than this are the same one
  Asked,      \* by charger, the values written to those D-Bus paths that are written
  Shows,      \* by charger, what its advertisements carry: a state, or "short"
  Switchable, \* chargers the user turns off and on
  Fault       \* what may go wrong: "fail", "drop", "restart"

Unset == 0
Register == {"current", "voltage", "float", "type"}
UserType == 1
Setpoint == {"linkVoltage", "linkCurrent", "limit", "absorption", "floatVoltage"}
Switch == {"bmsPresent", "networkMode"}
Shown == {"off", "bulk", "external", "unseen"}

ASSUME LevelAssumption == Level \subseteq Nat \ {Unset} /\ Deadband \in Nat \ {0}
ASSUME AskedAssumption ==
  \A c \in Device :
    /\ DOMAIN Asked[c] \subseteq Setpoint \cup Switch
    /\ \A path \in DOMAIN Asked[c] :
         Asked[c][path] \subseteq (IF path \in Switch THEN {0, 1} ELSE Level)
    /\ Shows[c] \subseteq {"off", "bulk", "short"}

Reason == Setpoint \cup {"type", "poll"}
Value == Level \cup {0, 1}
Requests == [dev : Device, reg : Register, val : Value, why : Reason]

ASSUME FreeAssumption == Free \notin Requests

VARIABLES
  drv,     \* the charger drivers
  role,    \* the values on their D-Bus services, by path
  saved,   \* the charge profile in com.victronenergy.settings
  regs     \* the registers in the chargers

chargerVars == <<drv, role, saved, regs>>
vars == <<gattVars, chargerVars>>

Profile == {"limit", "absorption", "floatVoltage"}
NoProfile == [p \in Profile |-> Unset]

NewDriver ==
  [engaged |-> FALSE,     \* _dvcc_engaged
   advertised |-> "off",  \* _last_advertised_state
   seen |-> "unseen",     \* what SensorPublisher wrote to /State last
   pending |-> <<>>,      \* _pending_writes, in insertion order
   drain |-> FALSE,       \* _pending_drain_scheduled
   pushed |-> [r \in {"current", "voltage"} |-> Unset],  \* _last_pushed_*
   userType |-> FALSE,    \* _battery_type_is_user
   polling |-> FALSE,     \* _hex_telemetry_busy
   retry |-> TRUE]        \* _hex_retry_scheduled, or the 50 s one-shot of init

\* A new role service: the profile comes back from the settings.
NewRole(profile, on) ==
  [at |-> [p \in Setpoint \cup Switch |-> IF p \in Profile THEN profile[p] ELSE Unset],
   status |-> "standalone", state |-> "off", enabled |-> on]

(***************************************************************************)
(* What one handler of charger c reads and changes.                        *)
(***************************************************************************)
Sight(c) == [d |-> drv[c], r |-> role[c], p |-> saved[c], w |-> Writer]

Leave(c, s) ==
  /\ drv' = [drv EXCEPT ![c] = s.d]
  /\ role' = [role EXCEPT ![c] = s.r]
  /\ saved' = [saved EXCEPT ![c] = s.p]
  /\ Become(s.w)

Do(c, outcomes) == \E s \in outcomes : Leave(c, s) /\ UNCHANGED <<bonded, regs>>

(***************************************************************************)
(* External control: _derive_published_state and _set_dvcc_engaged.        *)
(***************************************************************************)
Derived(d) == IF d.engaged THEN "external" ELSE d.advertised

\* Seeded fault: /State waits for the next advertisement.
EngageQuietly(s, on) ==
  [s EXCEPT !.d.engaged = on, !.r.status = IF on THEN "dvcc" ELSE "standalone"]

Engage(s, on) ==
  LET d == [s.d EXCEPT !.engaged = on]
  IN [s EXCEPT !.d = d,
               !.r.status = IF on THEN "dvcc" ELSE "standalone",
               !.r.state = IF s.d.engaged = on THEN @ ELSE Derived(d)]

\* _publish_value of /State: the publisher compares with what it wrote last,
\* not with what the service holds, and repeats itself at the heartbeat.
PublishState(s, st) ==
  LET d == [s.d EXCEPT !.advertised = st]
      written == [s EXCEPT !.d = [d EXCEPT !.seen = Derived(d)], !.r.state = Derived(d)]
  IN {written} \cup (IF d.seen = Derived(d) THEN {[s EXCEPT !.d = d]} ELSE {})

(***************************************************************************)
(* The telemetry poll and the write queue.  They use each other: the queue *)
(* polls when it runs empty, through _on_gatt_queue_idle.  Whether the     *)
(* poll's back-off has passed is left open.                                *)
(***************************************************************************)
Entry(reg, val, why) == [reg |-> reg, val |-> val, why |-> why]
Poll == Entry("current", Unset, "poll")
Request(c, e) == [dev |-> c, reg |-> e.reg, val |-> e.val, why |-> e.why]

MaybePoll(c, s) ==
  IF ~s.r.enabled \/ s.d.polling THEN {s}
  ELSE IF Busy(s.w) THEN {s, [s EXCEPT !.d.retry = TRUE]}
  ELSE {s} \cup
    {[s EXCEPT !.d.polling = Accepts(w),
               !.w = IF Accepts(w) THEN Opened(w, Request(c, Poll)) ELSE w] :
       w \in Starts(s.w)}

\* The completion callbacks of the queued writes.
Completed(s, e, ok) ==
  IF ~ok THEN s
  ELSE CASE e.why = "type" -> [s EXCEPT !.d.userType = TRUE]
         [] e.why \in {"linkVoltage", "linkCurrent"} -> [s EXCEPT !.d.pushed[e.reg] = e.val]
         [] e.why \in {"limit", "absorption"} ->
              [s EXCEPT !.d.pushed[e.reg] = e.val, !.p[e.why] = e.val]
         [] e.why = "floatVoltage" -> [s EXCEPT !.p[e.why] = e.val]

\* Seeded fault: the next pending write waits for the next setpoint.
AfterWriteNoDrain(c, s, e, ok) ==
  LET t == Completed(s, e, ok)
  IN IF t.d.pending # <<>> THEN {t} ELSE MaybePoll(c, t)

\* on_done of _kick_pending_writes.
AfterWrite(c, s, e, ok) ==
  LET t == Completed(s, e, ok)
  IN IF t.d.pending # <<>> THEN {[t EXCEPT !.d.drain = TRUE]} ELSE MaybePoll(c, t)

\* Seeded fault: the queue does not ask whether the writer is busy.
KickRegardless(c, s) ==
  IF s.d.pending = <<>> THEN {s}
  ELSE LET e == Head(s.d.pending)
           t == [s EXCEPT !.d.pending = Tail(@)]
       IN {[t EXCEPT !.w = Opened([@ EXCEPT !.loop = "up"], Request(c, e))]}

\* Seeded fault: a busy writer is not tried again.
KickOnce(c, s) ==
  IF s.d.pending = <<>> \/ Busy(s.w) THEN {s}
  ELSE LET e == Head(s.d.pending)
           t == [s EXCEPT !.d.pending = Tail(@)]
       IN UNION {IF Accepts(w) THEN {[t EXCEPT !.w = Opened(w, Request(c, e))]}
                 ELSE AfterWrite(c, [t EXCEPT !.w = w], e, FALSE) : w \in Starts(s.w)}

Kick(c, s) ==
  IF s.d.pending = <<>> THEN {s}
  ELSE IF Busy(s.w) THEN {[s EXCEPT !.d.drain = TRUE]}
  ELSE LET e == Head(s.d.pending)
           t == [s EXCEPT !.d.pending = Tail(@)]
       IN UNION {IF Accepts(w) THEN {[t EXCEPT !.w = Opened(w, Request(c, e))]}
                 ELSE AfterWrite(c, [t EXCEPT !.w = w], e, FALSE) : w \in Starts(s.w)}

\* A later write of a register takes the place of the pending one.
Place(q, e) ==
  IF \E i \in DOMAIN q : q[i].reg = e.reg
  THEN [i \in DOMAIN q |-> IF q[i].reg = e.reg THEN e ELSE q[i]]
  ELSE Append(q, e)

Enqueue(c, s, e) == Kick(c, [s EXCEPT !.d.pending = Place(@, e)])

EnsureUserType(c, s) ==
  IF s.d.userType THEN {s} ELSE Enqueue(c, s, Entry("type", UserType, "type"))

EnqueueVoltage(c, s, e) == UNION {Enqueue(c, t, e) : t \in EnsureUserType(c, s)}

(***************************************************************************)
(* SetValue on a path of the service.  vedbus acknowledges the value it    *)
(* already holds without a callback; otherwise the handler runs and the    *)
(* value is stored after it.                                               *)
(***************************************************************************)
Near(a, b) == a # Unset /\ b # Unset /\ a < b + Deadband /\ b < a + Deadband

OnLinkCurrent(c, s, v) ==
  LET t == Engage(s, TRUE)
  IN IF Near(v, s.d.pushed["current"]) THEN {t}
     ELSE Enqueue(c, t, Entry("current", v, "linkCurrent"))

OnLinkVoltage(c, s, v) ==
  LET t == Engage(s, TRUE)
  IN IF Near(v, s.d.pushed["voltage"]) THEN {t}
     ELSE EnqueueVoltage(c, t, Entry("voltage", v, "linkVoltage"))

OnLimit(c, s, v) == Enqueue(c, s, Entry("current", v, "limit"))

OnAbsorption(c, s, v) ==
  IF Near(v, s.d.pushed["voltage"]) THEN {[s EXCEPT !.p["absorption"] = v]}
  ELSE EnqueueVoltage(c, s, Entry("voltage", v, "absorption"))

OnFloat(c, s, v) == EnqueueVoltage(c, s, Entry("float", v, "floatVoltage"))

OnBmsPresent(s, v) == {Engage(s, v = 1 \/ s.r.at["networkMode"] # 0)}
OnNetworkMode(s, v) == {Engage(s, v # 0 \/ s.r.at["bmsPresent"] = 1)}

Handler(c, s, path, v) ==
  CASE path = "linkCurrent" -> OnLinkCurrent(c, s, v)
    [] path = "linkVoltage" -> OnLinkVoltage(c, s, v)
    [] path = "limit" -> OnLimit(c, s, v)
    [] path = "absorption" -> OnAbsorption(c, s, v)
    [] path = "floatVoltage" -> OnFloat(c, s, v)
    [] path = "bmsPresent" -> OnBmsPresent(s, v)
    [] path = "networkMode" -> OnNetworkMode(s, v)

Store(c, s, path, v) ==
  IF s.r.at[path] = v THEN {s} ELSE {[t EXCEPT !.r.at[path] = v] : t \in Handler(c, s, path, v)}

SetValue(c, path, v) == role[c].enabled /\ Do(c, Store(c, Sight(c), path, v))

(***************************************************************************)
(* Advertisements.  A full frame publishes the state it carries.  A short  *)
(* frame, once the grace since the last full one is over, asks for a poll  *)
(* and shows the charger as off unless it is controlled, polled or has     *)
(* answered a poll lately; the router's two clocks are left open.          *)
(***************************************************************************)
Publish(s, st) == IF s.r.enabled THEN PublishState(s, st) ELSE {s}

FullFrame(c, st) == role[c].enabled /\ Do(c, Publish(Sight(c), st))

ShortFrame(c) ==
  /\ role[c].enabled
  /\ LET s == [Sight(c) EXCEPT !.d.retry = TRUE]
     IN Do(c, {s} \cup IF s.d.engaged \/ s.d.polling THEN {} ELSE PublishState(s, "off"))

(***************************************************************************)
(* Timers.                                                                 *)
(***************************************************************************)
DrainTick(c) ==
  /\ drv[c].drain
  /\ Do(c, Kick(c, [Sight(c) EXCEPT !.d.drain = FALSE]))

RetryTick(c) ==
  /\ drv[c].retry
  /\ Do(c, MaybePoll(c, [Sight(c) EXCEPT !.d.retry = FALSE]))

(***************************************************************************)
(* The session as the charger sees it.  It takes voltages only while its   *)
(* battery type is USER, and it may drop a command: the writes are         *)
(* unacknowledged, so the writer reports success either way.               *)
(***************************************************************************)
Takes(c, e) == e.reg \in {"voltage", "float"} => regs[c]["type"] = UserType

Transmit ==
  /\ SendRequest
  /\ \/ /\ job.why # "poll" /\ Takes(job.dev, job)
        /\ regs' = [regs EXCEPT ![job.dev][job.reg] = job.val]
     \/ /\ job.why = "poll" \/ ~Takes(job.dev, job) \/ "drop" \in Fault
        /\ UNCHANGED regs
  /\ UNCHANGED <<drv, role, saved>>

Progress(step) == step /\ UNCHANGED chargerVars

\* Seeded fault: a failed poll returns before it clears the flag.
PollDoneIfOk(c, s, ok) == IF ok THEN {[s EXCEPT !.d.polling = FALSE]} ELSE {s}

\* The idle callback: the slot is given back, then the driver is told.
PollDone(c, s, ok) ==
  LET t == [s EXCEPT !.d.polling = FALSE]
  IN {t} \cup (IF ok THEN UNION {Publish(t, st) : st \in Shows[c] \ {"short"}} ELSE {})

Told(c, s, e, ok) == IF e.why = "poll" THEN PollDone(c, s, ok) ELSE AfterWrite(c, s, e, ok)

Deliver ==
  /\ Settled
  /\ LET c == job.dev
         s == [Sight(c) EXCEPT !.w = Finished(@)]
     IN Do(c, Told(c, s, job, stage = "good"))

(***************************************************************************)
(* The user disables and enables the charger; the process restarts.        *)
(***************************************************************************)
SetEnabled(c) ==
  /\ role' = [role EXCEPT ![c].enabled = ~@]
  /\ UNCHANGED <<gattVars, drv, saved, regs>>

Restart ==
  /\ GattRestart
  /\ drv' = [c \in Device |-> NewDriver]
  /\ role' = [c \in Device |-> NewRole(saved[c], role[c].enabled)]
  /\ UNCHANGED <<saved, regs>>

Init ==
  /\ GattInit
  /\ drv = [c \in Device |-> NewDriver]
  /\ role = [c \in Device |-> NewRole(NoProfile, TRUE)]
  /\ saved = [c \in Device |-> NoProfile]
  /\ regs = [c \in Device |-> [r \in Register |-> Unset]]

Session ==
  \/ Progress(Connect) \/ Transmit \/ Progress(Complete)
  \/ "fail" \in Fault /\ Progress(Fail)

DriverStep(c) ==
  \/ DrainTick(c) \/ RetryTick(c)
  \/ "short" \in Shows[c] /\ ShortFrame(c)
  \/ \E st \in Shows[c] \ {"short"} : FullFrame(c, st)
  \/ c \in Switchable /\ SetEnabled(c)

Write(c) == \E path \in DOMAIN Asked[c] : \E v \in Asked[c][path] : SetValue(c, path, v)

Next ==
  \/ \E c \in Device : DriverStep(c) \/ Write(c)
  \/ Session \/ Deliver
  \/ "restart" \in Fault /\ Restart

Spec == Init /\ [][Next]_vars

(***************************************************************************)
(* A session ends, by its own or by its timeout, and its idle callback     *)
(* runs.  A poll backs off for a minute and the drain timer fires every    *)
(* few seconds, so it meets the writer free again and again.               *)
(***************************************************************************)
Fairness ==
  /\ WF_vars(Session \/ Deliver)
  /\ \A c \in Device : SF_vars(job = Free /\ DrainTick(c))

FairSpec == Spec /\ Fairness

---------------------------------------------------------------------------
Entries == [reg : Register, val : Value, why : Reason]

Driver ==
  [engaged : BOOLEAN, advertised : Shown, seen : Shown, pending : Seq(Entries),
   drain : BOOLEAN, pushed : [{"current", "voltage"} -> Value],
   userType : BOOLEAN, polling : BOOLEAN, retry : BOOLEAN]

\* Types; the writer is busy exactly while a session is under way, a pairing
\* agent answers only for the device of that session, and at most one write of
\* a register is pending.
TypeOK ==
  /\ loop \in {"down", "up", "failed"} /\ stage \in Stage
  /\ job \in Requests \cup {Free} /\ (job = Free <=> stage = "idle")
  /\ agent \in SUBSET Device /\ bonded \in SUBSET Device
  /\ agent # {} => job # Free /\ agent = {job.dev}
  /\ drv \in [Device -> Driver]
  /\ regs \in [Device -> [Register -> Value]]
  /\ saved \in [Device -> [Profile -> Value]]
  /\ role \in [Device -> [at : [Setpoint \cup Switch -> Value], enabled : BOOLEAN,
                          status : {"dvcc", "standalone"}, state : Shown]]
  /\ \A c \in Device : \A i, j \in DOMAIN drv[c].pending :
       drv[c].pending[i].reg = drv[c].pending[j].reg => i = j

\* No setpoint is left behind: while a write is pending, its drain timer runs
\* or a write of the same charger holds the slot, whose end sets the timer.
NoStrandedWrite ==
  \A c \in Device : drv[c].pending # <<>> =>
    drv[c].drain \/ (job # Free /\ job.dev = c /\ job.why # "poll")

\* A charger believes in its poll exactly as long as the writer works on it; a
\* flag left set would end its telemetry, one lost would start a second poll.
PollFlagBacked ==
  \A c \in Device : drv[c].polling <=> job # Free /\ job.dev = c /\ job.why = "poll"

\* /State and /Link/NetworkStatus tell whether the charger is under external
\* control, though the publisher's cache knows nothing of the direct writes.
StateTellsControl ==
  \A c \in Device :
    /\ role[c].state = Derived(drv[c])
    /\ role[c].status = "dvcc" <=> drv[c].engaged

\* The writer keeps the promise of a register session to its drivers.
Promise == INSTANCE RegisterSession WITH
  Job <- Requests, held <- job,
  state <- IF stage \in {"queued", "linked"} THEN "asked" ELSE stage

OneSession == Promise!SessionSpec

\* What the charger's service tells about its control, and the promise of
\* ControlPaths about it: neither queue nor sessions nor frames get in between.
Face(d, r) ==
  [engaged |-> d.engaged, bmsPresent |-> r.at["bmsPresent"],
   networkMode |-> r.at["networkMode"], linkVoltage |-> r.at["linkVoltage"],
   linkCurrent |-> r.at["linkCurrent"]]

Link == INSTANCE ControlPaths WITH service <- [c \in Device |-> Face(drv[c], role[c])]

EngagedAsTold == Link!ControlSpec

\* A charger with writes pending gets the slot in the end, or has none left.
ServedInTheEnd ==
  \A c \in Device : drv[c].pending # <<>> ~>
    drv[c].pending = <<>> \/ (job # Free /\ job.dev = c /\ job.why # "poll")
==============================================================================
