------------------------------ MODULE TankSensor ------------------------------
(***************************************************************************)
(* The path of a tank sensor's advertisement: the tap's payload            *)
(* deduplication (its own thread), the idle queue, the handler of          *)
(* ble_device.py, the tank role's level and alarms, the publisher's cache  *)
(* and the items of the role service, with the settings users change under *)
(* them.                                                                   *)
(*                                                                         *)
(* A payload is its reading, in fractions of a centimetre; Remaining and   *)
(* Status follow the Level and are left out.  Of the settings that move    *)
(* the level, Empty and Shape are modelled (RawValueFull and Capacity      *)
(* behave as Empty).  The publisher compares distances rounded.            *)
(* Ages count seconds up to a cap past which no guard tells them apart.    *)
(***************************************************************************)
EXTENDS Integers, Sequences, FiniteSets

CONSTANTS
  Reading,     \* what the sensor may measure
  Cm,          \* how many units of a reading make a centimetre
  Step,        \* the unit distances are rounded to: 10^-n cm, n the setting
               \* /Settings/SensorRounding/Distance
  Empty,       \* values users give RawValueEmpty
  Full,        \* RawValueFull
  TopDown,     \* TANK_FLAG_TOPDOWN: the sensor measures the air above
  Shape,       \* shape strings, as sequences of <<level, volume>> points
  Remote,      \* the settings users change in com.victronenergy.settings
  Side,        \* the alarms the user may enable: "high", "low"
  Active, Restore, Delay,   \* per side: /Alarms/<side>/...
  Heartbeat,   \* /Settings/SensorRounding/HeartbeatSeconds
  Edits,       \* bound on changes of the settings, the level and restarts
  QueueBound

Unknown == -1          \* None
NotParsed == <<0>>     \* _shape_map is None
Horizon == 2 * Heartbeat + 1
AlarmSide == {"high", "low"}

ASSUME TankAssumption ==
  /\ Reading \subseteq Nat /\ Empty \subseteq Nat /\ Full \in Nat
  /\ Cm \in Nat \ {0} /\ Step \in 1..Cm
  /\ TopDown \in BOOLEAN
  /\ Side \subseteq AlarmSide /\ Remote \subseteq {"empty", "shape"}
  /\ \A t \in {Active, Restore, Delay} : t \in [AlarmSide -> Nat]
  /\ Heartbeat \in Nat /\ Edits \in Nat /\ QueueBound \in Nat \ {0}

VARIABLES
  air,      \* the reading the sensor advertises now
  sent,     \* _last_mfg_data[mac]: the last payload let through and its age
  idle,     \* payloads on their way to the main loop
  item,     \* the role service's items: raw, level, empty, shape
  map,      \* the role's _shape_map
  cache,    \* SensorPublisher._last of this service: value and age by path
  enable,   \* /Alarms/<side>/Enable
  alarm,    \* /Alarms/<side>/State
  pending,  \* _alarm_pending: seconds since the level was first seen past
  role,     \* the role's Enabled, hence its service on the bus and the tap's
            \* interest in its frames
  edits

vars == <<air, sent, idle, item, map, cache, enable, alarm, pending, role, edits>>

(***************************************************************************)
(* The level of a tank.                                                    *)
(***************************************************************************)
\* _parse_shape_str: the points between the fixed ends, or no map at all.
WellFormed(points) ==
  \A i \in 1..Len(points) :
    /\ points[i][1] \in 1..99 /\ points[i][2] \in 1..99
    /\ i > 1 => points[i - 1][1] < points[i][1] /\ points[i - 1][2] < points[i][2]

ParsedShape(points) ==
  IF points # <<>> /\ WellFormed(points)
  THEN <<<<0, 0>>>> \o points \o <<<<100, 100>>>> ELSE <<>>

Clamped(n) == IF n < 0 THEN 0 ELSE IF n > 100 THEN 100 ELSE n

\* The volume at a level: linear between the two points around it.
Volume(shape, level) ==
  IF Len(shape) < 2 THEN level
  ELSE LET i == CHOOSE i \in 2..Len(shape) :
                  /\ level <= shape[i][1]
                  /\ \A j \in 2..(i - 1) : shape[j][1] < level
           lo == shape[i - 1]
           hi == shape[i]
       IN  lo[2] + ((level - lo[1]) * (hi[2] - lo[2])) \div (hi[1] - lo[1])

\* _compute_level, in percent; a reading of exactly 1 cm stands for none.
Level(raw, empty, shape) ==
  IF raw \in {Unknown, Cm} \/ (IF TopDown THEN empty <= Full ELSE empty >= Full)
  THEN Unknown
  ELSE LET span == IF TopDown THEN empty - Full ELSE Full - empty
           depth == IF TopDown THEN empty - raw ELSE raw - empty
       IN  Volume(shape, Clamped((100 * depth) \div span))

Past(side, level, threshold) ==
  IF side = "high" THEN level > threshold[side] ELSE level < threshold[side]

(***************************************************************************)
(* The publisher.                                                          *)
(***************************************************************************)
Path == {"raw", "level"}
NoEntry == [key |-> Unknown, age |-> Horizon, known |-> FALSE]

\* round(): to the nearest whole number of steps, a tie to the even one.
Nearest(n) ==
  LET q == n \div Step
      r == n % Step
  IN  IF 2 * r < Step \/ (2 * r = Step /\ q % 2 = 0) THEN q ELSE q + 1

\* round_value, the key a value is compared by: a RawValue is a 'distance', a
\* Level has no sensor type and is its own key, None stays None.
Key(path, value) ==
  IF path = "raw" /\ value # Unknown THEN Nearest(value) ELSE value

\* Rounds to what the publisher wrote last, and is not yet due again.
Skips(path, value) ==
  /\ cache[path].known /\ cache[path].key = Key(path, value)
  /\ (Heartbeat = 0 \/ cache[path].age < Heartbeat)

\* Seeded fault: a publisher without a heartbeat.
WritesOnChange(data) ==
  {p \in Path : ~(cache[p].known /\ cache[p].key = Key(p, data[p]))}

Writes(data) == {p \in Path : ~Skips(p, data[p])}

\* The value itself is written, not its key.
Published(data) ==
  [p \in DOMAIN item |-> IF p \in Writes(data) THEN data[p] ELSE item[p]]

Cached(data) ==
  [p \in Path |-> IF p \in Writes(data)
                  THEN [key |-> Key(p, data[p]), age |-> 0, known |-> TRUE] ELSE cache[p]]

(***************************************************************************)
(* The alarms: get_alarm_high_state, get_alarm_low_state and the delay.    *)
(* They read the level the service shows.                                  *)
(***************************************************************************)
NotPending == -1

Triggered(side, level) ==
  Past(side, level, IF alarm[side] THEN Restore ELSE Active)

Served(side) == pending[side] # NotPending /\ pending[side] >= Delay[side]

\* Seeded fault: an alarm that keeps comparing with the level that raised it.
RaisedForGood(side, level) ==
  /\ enable[side]
  /\ (alarm[side] \/ (Past(side, level, Active) /\ (Delay[side] = 0 \/ Served(side))))

Raised(side, level) ==
  /\ enable[side] /\ Triggered(side, level)
  /\ (alarm[side] \/ Delay[side] = 0 \/ Served(side))

Timer(side, level) ==
  IF ~enable[side] \/ alarm[side] THEN pending[side]
  ELSE IF ~Triggered(side, level) \/ Delay[side] = 0 THEN NotPending
  ELSE IF pending[side] = NotPending THEN 0 ELSE pending[side]

\* The loop over the alarms: float(None) raises in the first one enabled, and
\* those after it are not evaluated.
Reached(side, level) ==
  level = Unknown => /\ ~enable[side]
                     /\ side = "low" => ~enable["high"]

(***************************************************************************)
(* The tap and the handler.                                                *)
(***************************************************************************)
Fresh == [raw |-> Unknown, age |-> Horizon]

\* _on_advertisement: presence is noted; a disabled device's frame and a
\* payload seen less than a heartbeat ago stop here.
Repeated == sent.raw = air /\ (Heartbeat = 0 \/ sent.age < Heartbeat)

Hear ==
  /\ role /\ ~Repeated /\ Len(idle) < QueueBound
  /\ sent' = [raw |-> air, age |-> 0]
  /\ idle' = Append(idle, air)
  /\ UNCHANGED <<air, item, map, cache, enable, alarm, pending, role, edits>>

\* update_data: the shape is parsed at the first frame, or by its onchange.
ShapeInUse == IF map = NotParsed THEN ParsedShape(item.shape) ELSE map

Readings(raw, shape) == [raw |-> raw, level |-> Level(raw, item.empty, shape)]

\* handle_manufacturer_data: the role computes the level, the publisher writes
\* what changed, the alarms are evaluated, the service is connected.
Handle ==
  /\ idle # <<>>
  /\ idle' = Tail(idle)
  /\ IF ~role THEN UNCHANGED <<item, map, cache, alarm, pending>>
     ELSE \E data \in {Readings(Head(idle), ShapeInUse)} : \E new \in {Published(data)} :
            /\ map' = ShapeInUse /\ item' = new /\ cache' = Cached(data)
            /\ alarm' = [s \in AlarmSide |-> IF Reached(s, new.level)
                                             THEN Raised(s, new.level) ELSE alarm[s]]
            /\ pending' = [s \in AlarmSide |-> IF Reached(s, new.level)
                                               THEN Timer(s, new.level) ELSE pending[s]]
  /\ UNCHANGED <<air, sent, enable, role, edits>>

(***************************************************************************)
(* The user, the tank and the clock.                                       *)
(***************************************************************************)
Edit == edits < Edits /\ edits' = edits + 1

\* A write to our own item: the role's onchange runs first and writes the level
\* to the item directly, past the publisher.  Before the first reading it
\* raises, and the value arrives through the settings service only.
Recomputed(empty, shape) ==
  IF item.raw = Unknown THEN item.level ELSE Level(item.raw, empty, shape)

TankEmptyChanged(v) ==
  /\ Edit /\ item.empty # v
  /\ LET level == Recomputed(v, IF map = NotParsed THEN <<>> ELSE map)
     IN  item' = [item EXCEPT !.empty = v, !.level = level]
  /\ UNCHANGED <<air, sent, idle, map, cache, enable, alarm, pending, role>>

TankShapeChanged(points) ==
  /\ Edit /\ item.shape # points
  /\ map' = ParsedShape(points)
  /\ LET level == Recomputed(item.empty, map')
     IN  item' = [item EXCEPT !.shape = points, !.level = level]
  /\ UNCHANGED <<air, sent, idle, cache, enable, alarm, pending, role>>

\* A change made in com.victronenergy.settings reaches the item silently.
SettingChanged ==
  /\ Edit
  /\ item' \in {[item EXCEPT !.empty = v] : v \in IF "empty" \in Remote THEN Empty ELSE {}}
             \cup {[item EXCEPT !.shape = s] : s \in IF "shape" \in Remote THEN Shape ELSE {}}
  /\ UNCHANGED <<air, sent, idle, map, cache, enable, alarm, pending, role>>

ToggleAlarm(side) ==
  /\ Edit
  /\ enable' = [enable EXCEPT ![side] = ~@]
  /\ UNCHANGED <<air, sent, idle, item, map, cache, alarm, pending, role>>

\* on_enabled_changed: the service joins or leaves the bus and the tap is told.
OnEnabledChanged ==
  /\ Edit
  /\ role' = ~role
  /\ UNCHANGED <<air, sent, idle, item, map, cache, enable, alarm, pending>>

LevelMoves ==
  /\ Edit
  /\ \E r \in Reading \ {air} : air' = r
  /\ UNCHANGED <<sent, idle, item, map, cache, enable, alarm, pending, role>>

NewItem(empty, shape) ==
  [raw |-> Unknown, level |-> 0, empty |-> empty, shape |-> shape]

\* What load_settings and the role's init build; settings come back as stored.
Restart ==
  /\ Edit
  /\ sent' = Fresh /\ idle' = <<>>
  /\ item' = NewItem(item.empty, item.shape)
  /\ map' = NotParsed
  /\ cache' = [p \in Path |-> NoEntry]
  /\ alarm' = [s \in AlarmSide |-> FALSE]
  /\ pending' = [s \in AlarmSide |-> NotPending]
  /\ UNCHANGED <<air, enable, role>>

Older(n, cap) == IF n = NotPending THEN n ELSE IF n < cap THEN n + 1 ELSE cap

\* A second passes.  The sensor advertises every second, and the main loop takes
\* a frame within a second of the tap.
Tick ==
  /\ role => Repeated
  /\ idle # <<>> => sent.age = 0
  /\ sent' = [sent EXCEPT !.age = Older(@, Horizon)]
  /\ cache' = [p \in Path |-> [cache[p] EXCEPT !.age = Older(@, Horizon)]]
  /\ pending' = [s \in AlarmSide |-> Older(pending[s], Delay[s])]
  /\ UNCHANGED <<air, idle, item, map, enable, alarm, role, edits>>

Init ==
  /\ air \in Reading /\ role \in BOOLEAN /\ edits = 0
  /\ sent = Fresh /\ idle = <<>>
  /\ \E v \in Empty, s \in Shape : item = NewItem(v, s)
  /\ map = NotParsed
  /\ cache = [p \in Path |-> NoEntry]
  /\ enable = [s \in AlarmSide |-> FALSE]
  /\ alarm = [s \in AlarmSide |-> FALSE]
  /\ pending = [s \in AlarmSide |-> NotPending]

Next ==
  \/ Hear \/ Handle \/ Tick
  \/ \E v \in Empty : TankEmptyChanged(v)
  \/ \E s \in Shape : TankShapeChanged(s)
  \/ SettingChanged
  \/ \E side \in Side : ToggleAlarm(side)
  \/ OnEnabledChanged \/ LevelMoves \/ Restart

Spec == Init /\ [][Next]_vars

\* The sensor is heard, the main loop turns and time passes.
FairSpec == Spec /\ WF_vars(Hear) /\ WF_vars(Handle) /\ WF_vars(Tick)

(***************************************************************************)
(* Properties.                                                             *)
(***************************************************************************)
LevelOrNone == {Unknown} \cup 0..100

\* The types of the variables; that levels stay within 0..100 or None is the
\* clamping of _compute_level.
TypeOK ==
  /\ air \in Reading /\ role \in BOOLEAN /\ edits \in 0..Edits
  /\ sent \in [raw : Reading \cup {Unknown}, age : 0..Horizon]
  /\ idle \in Seq(Reading) /\ Len(idle) <= QueueBound
  /\ item \in [raw : Reading \cup {Unknown}, level : LevelOrNone,
               empty : Empty, shape : Shape]
  /\ map = NotParsed \/ \E s \in Shape : map = ParsedShape(s)
  /\ cache \in [Path -> [key : {Nearest(r) : r \in Reading} \cup LevelOrNone, age : 0..Horizon,
                         known : BOOLEAN]]
  /\ enable \in [AlarmSide -> BOOLEAN] /\ alarm \in [AlarmSide -> BOOLEAN]
  /\ \A s \in AlarmSide : pending[s] \in {NotPending} \cup 0..Delay[s]

\* Two deduplications and direct writes lie between the sensor and the service,
\* and a reading that rounds to the one shown is withheld until a heartbeat:
\* once users and tank leave things alone, the service shows the very reading
\* and the level that the settings in force make of it.
ShownInTheEnd ==
  <>[](role => /\ item.raw = air
               /\ item.level = Level(air, item.empty, ParsedShape(item.shape)))

\* Alarms settle with the level although repeated payloads never reach the main
\* loop: one is raised while the level stays past its threshold, and none is
\* left standing once the level is back past Restore or the alarm is off.
Settled(s) ==
  /\ enable[s] /\ Past(s, item.level, Active) => alarm[s]
  /\ alarm[s] => enable[s] /\ Past(s, item.level, Restore)

AlarmsSettle ==
  <>[](role /\ item.level # Unknown => \A s \in AlarmSide : Settled(s))

=============================================================================
