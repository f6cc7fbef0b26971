------------------------------ MODULE OrionRoles ------------------------------
(***************************************************************************)
(* An Orion-TR that is a dcdc service while it is off or a power supply    *)
(* and an alternator service while it charges (ble_device_orion_tr.py,     *)
(* with the role services of dbus_role_service.py, their Enabled entries   *)
(* of dbus_ble_service.py and the roles ble_role_dcdc.py and               *)
(* ble_role_alternator.py), and the /Mode writes that switch it over GATT. *)
(* Its advertisement key is known: KeySessions models how it is found.     *)
(***************************************************************************)
EXTENDS GattWriter

CONSTANTS
  Unit,      \* the Orion-TR's address
  SwapsFail, \* whether building or registering a role may raise
  Edits      \* bound on what users, the battery monitor and the unit do

Role == {"dcdc", "alternator"}
Mode == {"on", "off"}
Nothing == "nothing"     \* no value yet

Requests == [dev : {Unit}, val : Mode]

ASSUME FreeAssumption == Free \notin Requests
ASSUME OrionAssumption ==
  /\ Unit \in Device /\ SwapsFail \in BOOLEAN
  /\ Edits \in Nat

VARIABLES
  unit,      \* the device: switched on, and whether it then charges
  flag,      \* /Settings/Devices/<dev>/<role>/Enabled
  listed,    \* roles with an entry on com.victronenergy.ble
  current,   \* _current_role_name, and the role in info["roles"]
  service,   \* the role service there is, or "none"; the device publishes
             \* to it if it is of the current role
  connected, \* whether it is on the bus
  item,      \* its /Mode, /State and /Link/NetworkStatus
  seen,      \* SensorPublisher's cache of it: /Mode, /State, and those due again
  advertised, \* _last_advertised_state
  engaged,   \* _dvcc_engaged
  busy,      \* _mode_busy
  edits

roleVars == <<listed, current, service, connected, item, seen, advertised>>
orionVars == <<unit, flag, roleVars, engaged, busy, edits>>
vars == <<gattVars, orionVars>>

(***************************************************************************)
(* What an advertisement says.                                             *)
(***************************************************************************)
DeviceState == IF ~unit.on THEN "off" ELSE IF unit.charges THEN "charging" ELSE "supply"
Needed(st) == IF st = "charging" THEN "alternator" ELSE "dcdc"
ModeOf(st) == IF st = "off" THEN "off" ELSE "on"

\* _derive_published_state.
DerivedState(st, on) == IF on THEN "external" ELSE st

\* What an advertisement publishes: suppressed in the dcdc role.
StateFor(role, st, on) == IF role = "alternator" THEN DerivedState(st, on) ELSE st

NewItem == [mode |-> "on", state |-> "off", status |-> "standalone"]
NewSeen == [mode |-> Nothing, state |-> Nothing, due |-> {}]

IsDeviceEnabled == current \in listed /\ flag[current] = 1

(***************************************************************************)
(* What a handler sees of the roles and leaves behind.                     *)
(***************************************************************************)
Sight == [flag |-> flag, listed |-> listed, current |-> current, service |-> service,
          connected |-> connected, item |-> item, seen |-> seen,
          advertised |-> advertised]

Leave(s) ==
  /\ flag' = s.flag /\ listed' = s.listed /\ current' = s.current
  /\ service' = s.service /\ connected' = s.connected
  /\ item' = s.item /\ seen' = s.seen /\ advertised' = s.advertised

\* Seeded fault: the new role starts with its own flag.
NotCarried(s, role) == s

\* _carry_enabled_flag_to: from the services there are, before they go.
Carried(s, role) ==
  IF s.service # "none" /\ s.flag[s.service] = 1
  THEN [s EXCEPT !.flag[role] = 1] ELSE s

\* The old service leaves the bus and the list, whatever raises on the way.
TornDown(s) ==
  [s EXCEPT !.listed = @ \ {s.service}, !.service = "none", !.connected = FALSE]

\* register_role_service: listed, and connected at once if its flag is set.
Registered(s, role) ==
  [s EXCEPT !.listed = @ \cup {role}, !.service = role, !.connected = s.flag[role] = 1,
            !.item = NewItem, !.seen = NewSeen, !.current = role]

\* Registering raises after the entry is listed, while the service goes on the
\* bus: the device drops the service, which its entry still connects.
HalfRegistered(s, role) ==
  [Registered(s, role) EXCEPT !.connected = FALSE, !.current = s.current]

\* _swap_role: a failure before that leaves no service; each keeps the old name.
Swapped(s, role) ==
  LET gone == TornDown(Carried(s, role))
  IN  {Registered(gone, role)}
      \cup (IF SwapsFail THEN {gone, HalfRegistered(gone, role)} ELSE {})

EnsureRoleForState(s, st) ==
  IF Needed(st) = s.current THEN {s} ELSE Swapped(s, Needed(st))

(***************************************************************************)
(* _publish: through the publisher, which compares with what it wrote last *)
(* and repeats itself when the heartbeat is due; then connect().           *)
(***************************************************************************)
\* Seeded fault: a publisher without a heartbeat.
PublishedOnce(s, path, value) ==
  IF s.seen[path] = value THEN s
  ELSE [s EXCEPT !.item[path] = value, !.seen[path] = value]

Published(s, path, value) ==
  IF s.seen[path] = value /\ path \notin s.seen.due THEN s
  ELSE [s EXCEPT !.item[path] = value, !.seen[path] = value, !.seen.due = @ \ {path}]

Publish(s, st) ==
  IF s.service # s.current \/ s.service \notin s.listed \/ s.flag[s.service] # 1 THEN s
  ELSE LET t == Published(s, "state", StateFor(s.service, st, engaged))
           u == IF busy THEN t ELSE Published(t, "mode", ModeOf(st))
       IN  [u EXCEPT !.connected = TRUE, !.advertised = st]

\* handle_manufacturer_data of a frame that decodes.
Advertisement ==
  /\ IsDeviceEnabled
  /\ \E s \in EnsureRoleForState(Sight, DeviceState) : Leave(Publish(s, DeviceState))
  /\ UNCHANGED <<gattVars, unit, engaged, busy, edits>>

HeartbeatDue ==
  /\ seen' = [seen EXCEPT !.due = {"mode", "state"}]
  /\ UNCHANGED <<gattVars, unit, flag, listed, current, service, connected, item,
                 advertised, engaged, busy, edits>>

(***************************************************************************)
(* /Mode: _orion_on_mode_write and its session.                            *)
(***************************************************************************)
Edit == edits < Edits /\ edits' = edits + 1

\* Seeded fault: the flag of a write the loop refuses stays set.
ModeRequestKeepingBusy(w, mode) ==
  IF Accepts(w) THEN [w |-> Opened(w, [dev |-> Unit, val |-> mode]), busy |-> TRUE]
  ELSE [w |-> w, busy |-> TRUE]

\* write_register, whose on_done(False) runs at once when the loop is not there.
ModeRequest(w, mode) ==
  IF Accepts(w) THEN [w |-> Opened(w, [dev |-> Unit, val |-> mode]), busy |-> TRUE]
  ELSE [w |-> w, busy |-> FALSE]

\* The vedbus item takes the value when the handler returns True.
OnModeWrite(mode) ==
  /\ connected /\ item.mode # mode /\ ~Busy(Writer) /\ Edit
  /\ \E w \in Starts(Writer) :
       Become(ModeRequest(w, mode).w) /\ busy' = ModeRequest(w, mode).busy
  /\ item' = [item EXCEPT !.mode = mode]
  /\ UNCHANGED <<bonded, unit, flag, listed, current, service, connected, seen,
                 advertised, engaged>>

ModeSent ==
  /\ SendRequest
  /\ unit' = [unit EXCEPT !.on = job.val = "on"]
  /\ UNCHANGED <<flag, roleVars, engaged, busy, edits>>

ModeDone ==
  /\ Settled
  /\ Become(Finished(Writer)) /\ busy' = FALSE
  /\ UNCHANGED <<bonded, unit, flag, roleVars, engaged, edits>>

Session ==
  \/ Connect /\ UNCHANGED orionVars
  \/ ModeSent
  \/ Complete /\ UNCHANGED orionVars
  \/ Fail /\ UNCHANGED orionVars
  \/ ModeDone

(***************************************************************************)
(* Users, the battery monitor, the unit itself, and the process.           *)
(***************************************************************************)
\* Enabled of a listed role, here or in the settings: on_enabled_changed.
OnEnabledChanged(role) ==
  /\ role \in listed /\ Edit
  /\ flag' = [flag EXCEPT ![role] = 1 - @]
  /\ connected' = IF role = service THEN flag'[role] = 1 ELSE connected
  /\ UNCHANGED <<gattVars, unit, listed, current, service, item, seen, advertised,
                 engaged, busy>>

\* A /Link write: _set_dvcc_engaged writes the items itself, whatever the role,
\* the status always and the state if the engagement changes.
OnLinkWrite(on) ==
  /\ connected /\ Edit
  /\ engaged' = on
  /\ item' = [item EXCEPT !.status = IF on THEN "dvcc" ELSE "standalone",
                          !.state = IF on # engaged THEN DerivedState(advertised, on)
                                    ELSE @]
  /\ UNCHANGED <<gattVars, unit, flag, listed, current, service, connected, seen,
                 advertised, busy>>

UnitChanges ==
  /\ Edit
  /\ unit' \in [on : BOOLEAN, charges : BOOLEAN] \ {unit}
  /\ UNCHANGED <<gattVars, flag, roleVars, engaged, busy>>

Fresh(flags) ==
  [flag |-> flags, listed |-> {"dcdc"}, current |-> "dcdc", service |-> "dcdc",
   connected |-> flags["dcdc"] = 1, item |-> NewItem, seen |-> NewSeen,
   advertised |-> "off"]

Restart ==
  /\ Edit /\ GattRestart
  /\ Leave(Fresh(flag))
  /\ engaged' = FALSE /\ busy' = FALSE
  /\ UNCHANGED unit

Init ==
  /\ GattInit
  /\ unit \in [on : BOOLEAN, charges : BOOLEAN]
  /\ flag \in [Role -> {0, 1}]
  /\ listed = {"dcdc"} /\ current = "dcdc" /\ service = "dcdc"
  /\ connected = (flag["dcdc"] = 1)
  /\ item = NewItem /\ seen = NewSeen /\ advertised = "off"
  /\ engaged = FALSE /\ busy = FALSE /\ edits = 0

Next ==
  \/ Advertisement \/ HeartbeatDue
  \/ Session
  \/ \E mode \in Mode : OnModeWrite(mode)
  \/ \E role \in Role : OnEnabledChanged(role)
  \/ \E on \in BOOLEAN : OnLinkWrite(on)
  \/ UnitChanges \/ Restart

Spec == Init /\ [][Next]_vars

\* The unit advertises, the main loop turns and sessions end by themselves or
\* at their deadline.
FairSpec ==
  /\ Spec
  /\ WF_vars(Advertisement) /\ WF_vars(HeartbeatDue)
  /\ WF_vars(Session)

(***************************************************************************)
(* Properties.                                                             *)
(***************************************************************************)
\* Types; the agent of a session answers for the unit only.
TypeOK ==
  /\ loop \in {"down", "up", "failed"} /\ stage \in Stage
  /\ job \in Requests \cup {Free}
  /\ agent \subseteq (IF job = Free THEN {} ELSE {Unit}) /\ bonded \subseteq Device
  /\ unit \in [on : BOOLEAN, charges : BOOLEAN]
  /\ flag \in [Role -> {0, 1}] /\ listed \subseteq Role /\ current \in Role
  /\ service \in Role \cup {"none"} /\ connected \in BOOLEAN
  /\ advertised \in {"off", "supply", "charging"}
  /\ item \in [mode : Mode, state : {"off", "supply", "charging", "external"},
               status : {"standalone", "dvcc"}]
  /\ engaged \in BOOLEAN /\ busy \in BOOLEAN /\ edits \in 0..Edits

\* "Without this, role swaps leave the new role disconnected until the user
\* re-toggles Enabled": a device on the bus leaves it only because its user
\* disables it, or because a swap fails.
StaysPublished ==
  [][connected /\ ~connected' => flag'[service] = 0 \/ service' # current']_vars

\* A switch is never blocked for good: _mode_busy stands for a session that
\* will report back, on whatever path a write is refused or fails.
ModeBusyBacked == busy <=> job # Free

\* The writer keeps the promise of a register session to this driver as well.
Promise == INSTANCE RegisterSession WITH
  Job <- Requests, held <- job,
  state <- IF stage \in {"queued", "linked"} THEN "asked" ELSE stage

OneSession == Promise!SessionSpec

\* Whatever writes failed and roles changed on the way, in the end the service
\* the device has is of the role the unit needs and shows its mode and its state.
InSyncInTheEnd ==
  <>[](connected /\ service = current /\ ~busy =>
         /\ service = Needed(DeviceState)
         /\ item.mode = ModeOf(DeviceState)
         /\ item.state = StateFor(service, DeviceState, engaged))

===============================================================================
