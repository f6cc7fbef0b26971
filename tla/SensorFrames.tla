----------------------------- MODULE SensorFrames -----------------------------
(***************************************************************************)
(* Payload decoders.  A sensor measures, packs what it measures into bytes *)
(* as its protocol says, and ble_device.py unpacks them register by        *)
(* register; the driver and the role transform the values, and the         *)
(* publisher writes those that changed.  The tap and the idle queue        *)
(* between them are in TankSensor.                                         *)
(*                                                                         *)
(* A value is kept exactly, as <<numerator>> over the register's scale;    *)
(* None is <<>>.  Rounding, which delays a write until the heartbeat, is   *)
(* in TankSensor, where a reading's key is its rounded distance; left out  *)
(* are the registers no role gets, the 32-bit ErrorCode and the            *)
(* logarithmic Luminosity.                                                 *)
(***************************************************************************)
EXTENDS Integers, Sequences, FiniteSets, TLC

CONSTANTS
  Unit,     \* for every sensor considered, what a unit of it may measure
  Offset,   \* values users give the temperature role's Offset
  Edits     \* bound on changes of the unit and its settings, and restarts

Models == {"ruuvi5", "ruuvi6", "mopeka", "mopeka_std", "gobius", "safiery",
           "solarsense", "eye", "eye_all", "eye_magnet", "btp3", "btp7"}

ASSUME SensorAssumption ==
  DOMAIN Unit \subseteq Models /\ Offset \subseteq Int /\ Edits \in Nat

\* What a Mopeka can measure and be set to: seven bits of kind, charge and temperature,
\* 14 bits of echo time, or times past those in steps of four.
MopekaEcho == (0..16383) \cup {16384 + 4 * n : n \in 0..16383}
MopekaUnit == [hw : 0..127, fluid : Nat, butane : 0..100, temp : 0..127, batt : 0..127,
               echo : MopekaEcho]
StdUnit == [batt : 0..255, temp : 0..63, butane : 0..100, table : [1..12 -> (1..32) \X (0..31)]]

ASSUME MopekaAssumption ==
  /\ "mopeka" \in DOMAIN Unit => Unit["mopeka"] \subseteq MopekaUnit
  /\ "mopeka_std" \in DOMAIN Unit => Unit["mopeka_std"] \subseteq StdUnit

VARIABLES
  model,    \* which sensor this device is
  unit,     \* what it measures now, and how its tank is set up
  shown,    \* the items of its role services, by <<role, name>>
  cache,    \* SensorPublisher._last: what was written less than a heartbeat ago
  counter,  \* _last_movement_counter
  rawTemp,  \* the temperature role's _raw_temp
  offset,   \* the temperature role's Offset
  input,    \* the digital input role: its settings, and _input_state
  enabled,  \* the roles that are enabled
  edits

frameVars == <<model, unit, shown, cache, counter, rawTemp, offset, input, enabled, edits>>

None == <<>>

(***************************************************************************)
(* The sensors' side: the frame formats as their protocols give them.      *)
(***************************************************************************)
U16(n) == n % 65536
BE(n) == <<U16(n) \div 256, n % 256>>
LE(n) == <<n % 256, U16(n) \div 256>>
Zeros(n) == [i \in 1..n |-> 0]

Ruuvi5Frame(u) ==
  <<5>> \o BE(u.temp) \o BE(u.hum) \o BE(u.press) \o BE(u.acc) \o BE(-u.acc)
    \o BE(1000) \o BE(32 * u.batt + 22) \o <<u.count>> \o BE(u.count) \o Zeros(6)

Ruuvi6Frame(u) ==
  <<6>> \o BE(u.temp) \o BE(20000) \o BE(51300) \o BE(90) \o BE(u.co2)
    \o <<u.voc \div 2, 0, u.lum, 0, 7, 64 * (u.voc % 2)>> \o Zeros(3)

\* Echo times past 14 bits come in steps of four, with the extension bit.
MopekaFrame(u) ==
  LET far == u.echo >= 16384
      raw == IF far THEN (u.echo - 16384) \div 4 ELSE u.echo
  IN <<u.hw + (IF far THEN 128 ELSE 0), u.batt, 128 + u.temp,
       raw % 256, raw \div 256 + 192>> \o Zeros(3) \o <<10, 250>>

\* Twelve (time - 1, amplitude) pairs of five bits each, low bits first.
BitOf(n, i) == (n \div 2^i) % 2
FromBits(bit, width) ==
  LET low[k \in 0..width] == IF k = 0 THEN 0 ELSE low[k - 1] + 2^(k - 1) * bit[k - 1]
  IN low[width]
FieldOf(table, i) == IF i % 2 = 0 THEN table[i \div 2 + 1][1] - 1 ELSE table[i \div 2 + 1][2]
TableBit(table, i) == BitOf(FieldOf(table, i \div 5), i % 5)
Packed(table) ==
  [j \in 1..15 |-> FromBits([k \in 0..7 |-> TableBit(table, 8 * (j - 1) + k)], 8)]

MopekaStdFrame(u) == <<0, 2, u.batt, 128 + u.temp>> \o Packed(u.table) \o Zeros(4)

GobiusFrame(u) == <<1, u.temp>> \o LE(u.dist) \o Zeros(10)

SafieryFrame(u) ==
  <<1, u.batt, u.temp>> \o LE(u.dist + 16384) \o Zeros(3) \o <<u.acc % 256, 3>>

SolarSenseFrame(u) ==
  LET yield == 12345
  IN Zeros(12) \o <<0, u.power % 256, (u.power \div 256) % 256,
       u.power \div 65536 + 16 * (yield % 16), (yield \div 16) % 256, yield \div 4096,
       u.irr % 256, u.irr \div 256 + 64 * (u.cell % 4), (u.cell \div 4) % 256,
       u.cell \div 1024 + 4 * (u.batt % 64), u.batt \div 64 + 4 + 8 * (u.sun % 32),
       u.sun \div 32>>

\* The Eye sends only the fields its flags announce, one after the other.
EyeFrame(u, all) ==
  <<1, IF all THEN 1 + 2 + 16 + 32 + 128 ELSE 1 + 128>> \o BE(u.temp)
    \o (IF all THEN <<u.hum>> \o BE(u.count) \o <<u.pitch % 256>> \o BE(u.roll) ELSE <<>>)
    \o <<u.batt>>

MagnetFrame(u) == <<1, 4 + 8 * u.magnet + 128, u.batt>>

(***************************************************************************)
(* The drivers' register tables.                                           *)
(***************************************************************************)
NoMark == -1

Reg(name, offs, bits, roles) ==
  [name |-> name, offset |-> offs, bits |-> bits, shift |-> 0, roles |-> roles,
   big |-> FALSE, signed |-> FALSE, scale |-> 1, times |-> 1, bias |-> 0,
   inval |-> NoMark, xlate |-> "none"]

Big(reg) == [reg EXCEPT !.big = TRUE]
Signed(reg) == [reg EXCEPT !.signed = TRUE]
Shifted(reg, n) == [reg EXCEPT !.shift = n]
Scaled(reg, n) == [reg EXCEPT !.scale = n]
Biased(reg, n) == [reg EXCEPT !.bias = n]      \* in units of 1/scale
Marked(reg, n) == [reg EXCEPT !.inval = n]

Air == {"temperature"}
Move == {"movement"}
Tank == {"tank"}

Ruuvi5Regs == LET all == Air \cup Move IN
  {Marked(Scaled(Signed(Big(Reg("Temperature", 1, 16, Air))), 200), 32768),
   Marked(Scaled(Big(Reg("Humidity", 3, 16, Air)), 400), 65535),
   Marked(Biased(Scaled(Big(Reg("Pressure", 5, 16, Air)), 100), 50000), 65535),
   Marked(Scaled(Signed(Big(Reg("AccelX", 7, 16, Move))), 1000), 32768),
   Marked(Scaled(Signed(Big(Reg("AccelY", 9, 16, Move))), 1000), 32768),
   Marked(Scaled(Signed(Big(Reg("AccelZ", 11, 16, Move))), 1000), 32768),
   Marked(Biased(Scaled(Shifted(Big(Reg("BatteryVoltage", 13, 11, all)), 5), 1000), 1600), 1023),
   Marked(Biased([Reg("TxPower", 14, 5, all) EXCEPT !.times = 2], -40), 31),
   Marked(Reg("MovementCounter", 15, 8, Move), 255),
   Marked(Big(Reg("SeqNo", 16, 16, {})), 65535)}

Ruuvi6Regs ==
  {Marked(Scaled(Signed(Big(Reg("Temperature", 1, 16, Air))), 200), 32768),
   Marked(Scaled(Big(Reg("Humidity", 3, 16, Air)), 400), 65535),
   Marked(Biased(Scaled(Big(Reg("Pressure", 5, 16, Air)), 100), 50000), 65535),
   Marked(Scaled(Big(Reg("PM25", 7, 16, Air)), 10), 65535),
   Marked(Big(Reg("CO2", 9, 16, Air)), 65535),
   Reg("VOC", 11, 8, Air), Reg("NOX", 12, 8, Air), Reg("Flags", 16, 8, {})}

MopekaRegs ==
  {Reg("HardwareID", 0, 7, Tank), Shifted(Reg("TankLevelExtension", 0, 1, Tank), 7),
   Scaled(Reg("BatteryVoltage", 1, 7, Tank), 32),
   Biased(Reg("Temperature", 2, 7, Tank), -40),
   Shifted(Reg("SyncButton", 2, 1, {}), 7), Reg("RawValue", 3, 14, Tank),
   Shifted(Reg("Quality", 4, 2, {}), 6)}

MopekaStdRegs ==
  {[Reg("HardwareID", 1, 8, Tank) EXCEPT !.xlate = "type"],
   Reg("BatteryRaw", 2, 8, Tank), Reg("RawTemp", 3, 6, Tank),
   Shifted(Reg("SlowUpdate", 3, 1, {}), 6), Shifted(Reg("SyncButton", 3, 1, {}), 7)}

GobiusRegs ==
  {Reg("HardwareID", 0, 7, Tank), Biased(Reg("Temperature", 1, 7, Tank), -40),
   Scaled([Reg("RawValue", 2, 16, Tank) EXCEPT !.xlate = "gobius"], 10)}

\* AccelZ lies past the end of the frames that check_manufacturer_data accepts.
SafieryRegs ==
  {Reg("HardwareID", 0, 7, Tank), Scaled(Reg("BatteryVoltage", 1, 7, Tank), 32),
   Biased(Reg("Temperature", 2, 7, Tank), -40), Shifted(Reg("SyncButton", 2, 1, Tank), 7),
   Scaled(Reg("RawValue", 3, 14, Tank), 10),
   Scaled(Signed(Reg("AccelX", 8, 8, Tank)), 1024),
   Scaled(Signed(Reg("AccelY", 9, 8, Tank)), 1024),
   Scaled(Signed(Reg("AccelZ", 10, 8, Tank)), 1024)}

SolarSenseRegs == LET sun == {"meteo"} IN
  {Marked(Reg("ChrErrorCode", 12, 8, sun), 255),
   Marked(Reg("InstallationPower", 13, 20, sun), 1048575),
   Marked(Scaled(Shifted(Reg("TodaysYield", 15, 20, sun), 4), 100), 1048575),
   Marked(Scaled(Reg("Irradiance", 18, 14, sun), 10), 16383),
   Marked(Biased(Scaled(Shifted(Reg("CellTemperature", 19, 11, sun), 6), 10), -600), 2047),
   Shifted(Reg("UnspecifiedRemnant", 20, 1, sun), 1),
   Marked(Biased(Scaled(Shifted(Reg("BatteryVoltage", 21, 8, sun), 2), 100), 170), 255),
   Marked([Shifted(Reg("TxPowerLevel", 22, 1, sun), 2) EXCEPT !.xlate = "power"], 255),
   Marked([Shifted(Reg("TimeSinceLastSun", 22, 7, sun), 3) EXCEPT !.xlate = "sun"], 127)}

\* _compute_regs: the fields present decide where the later ones lie.
EyeRegs(all) ==
  LET battery == IF all THEN 10 ELSE 4
      roles == IF all THEN Air \cup Move ELSE Air
  IN {Shifted(Reg("LowBattery", 1, 1, roles), 6),
      Scaled(Signed(Big(Reg("Temperature", 2, 16, Air))), 100),
      Biased([Reg("BatteryVoltage", battery, 8, roles) EXCEPT !.times = 10], 2000)}
     \cup IF ~all THEN {} ELSE
     {Reg("Humidity", 4, 8, Air), Shifted(Reg("MovementState", 5, 1, Move), 7),
      Big(Reg("MovementCount", 5, 15, Move)), Signed(Reg("Pitch", 7, 8, Move)),
      Signed(Big(Reg("Roll", 8, 16, Move)))}

MagnetRegs == LET door == {"digitalinput"} IN
  {Shifted(Reg("LowBattery", 1, 1, door), 6), Shifted(Reg("InputState", 1, 1, door), 3),
   Biased([Reg("BatteryVoltage", 2, 8, door) EXCEPT !.times = 10], 2000)}

RegsOf(m) ==
  CASE m = "ruuvi5" -> Ruuvi5Regs     [] m = "ruuvi6" -> Ruuvi6Regs
    [] m = "mopeka" -> MopekaRegs     [] m = "mopeka_std" -> MopekaStdRegs
    [] m = "gobius" -> GobiusRegs     [] m = "safiery" -> SafieryRegs
    [] m = "solarsense" -> SolarSenseRegs
    [] m = "eye" -> EyeRegs(FALSE)    [] m = "eye_all" -> EyeRegs(TRUE)
    [] m = "eye_magnet" -> MagnetRegs

SeeLevel == {"btp3", "btp7"}

\* One of a SeeLevel's services of each kind; the BTP7 has no thermometer.
RolesOf(m) ==
  CASE m = "btp3" -> {"tank", "temperature", "battery"}
    [] m = "btp7" -> {"tank", "battery"}
    [] OTHER -> UNION {reg.roles : reg \in RegsOf(m)}

FrameOf(m, u) ==
  CASE m = "ruuvi5" -> Ruuvi5Frame(u) [] m = "ruuvi6" -> Ruuvi6Frame(u)
    [] m = "mopeka" -> MopekaFrame(u) [] m = "mopeka_std" -> MopekaStdFrame(u)
    [] m = "gobius" -> GobiusFrame(u) [] m = "safiery" -> SafieryFrame(u)
    [] m = "solarsense" -> SolarSenseFrame(u)
    [] m = "eye" -> EyeFrame(u, FALSE) [] m = "eye_all" -> EyeFrame(u, TRUE)
    [] m = "eye_magnet" -> MagnetFrame(u)

(***************************************************************************)
(* ble_device.py: one register out of the frame.                           *)
(***************************************************************************)
Minutes(n) ==
  CASE n <= 29 -> 2 * n
    [] n \in 30..95 -> 60 + 10 * (n - 30)
    [] n \in 96..126 -> 720 + 30 * (n - 96)
    [] OTHER -> n

Translated(xlate, n) ==
  CASE xlate = "none" -> n
    [] xlate = "type" -> n - 16 * ((n \div 16) % 4)          \* n & 0xCF
    [] xlate = "gobius" -> IF n \in {65534, 65535} THEN -10 ELSE n
    [] xlate = "power" -> IF n # 0 THEN 6 ELSE 0
    [] xlate = "sun" -> Minutes(n)

Number(bytes, big) ==
  LET size == Len(bytes)
      first[n \in 0..size] ==
        IF n = 0 THEN 0
        ELSE 256 * first[n - 1] + bytes[IF big THEN n ELSE size + 1 - n]
  IN first[size]

\* Seeded fault: every field is signed as if it filled two bytes.
SignOfWord(reg, n) == IF reg.signed /\ n >= 32768 THEN n - 65536 ELSE n

SignOf(reg, n) == IF reg.signed /\ n >= 2^(reg.bits - 1) THEN n - 2^reg.bits ELSE n

\* The marker is compared with the value after scale and bias.
LoadNumber(reg, data) ==
  LET size == (reg.bits + reg.shift + 7) \div 8
      raw == (Number(SubSeq(data, reg.offset + 1, reg.offset + size), reg.big)
                \div 2^reg.shift) % 2^reg.bits
      value == Translated(reg.xlate, SignOf(reg, raw) * reg.times + reg.bias)
  IN IF \/ size > Len(data) - reg.offset
        \/ reg.inval # NoMark /\ value = reg.inval * reg.scale
     THEN None
     ELSE <<value>>

DataBit(data, j) == BitOf(data[4 + j \div 8 + 1], j % 8)
Fives(data) ==
  [i \in 1..24 |-> FromBits([k \in 0..4 |-> DataBit(data, 5 * (i - 1) + k)], 5)]

Start == [gap |-> 0, usable |-> 0, time |-> 0, value |-> 0]

\* One (time, amplitude) pair more, after the echoes in acc.
Taken(acc, time, value, better) ==
  LET gap == acc.gap + time
  IN [gap |-> IF value = 0 THEN gap ELSE 0,
      usable |-> acc.usable + (IF value = 0 THEN 0 ELSE 1),
      time |-> IF better THEN gap ELSE acc.time,
      value |-> IF better THEN value ELSE acc.value]

\* Seeded fault: of equally strong echoes the last is taken.
FindBestTimeLast(fives) ==
  LET walk[i \in 0..12] ==
        IF i = 0 THEN Start
        ELSE Taken(walk[i - 1], fives[2 * i - 1] + 1, fives[2 * i],
                   fives[2 * i] >= walk[i - 1].value)
  IN walk[12]

\* The time since the last echo, and the strongest echo so far.
FindBestTime(fives) ==
  LET walk[i \in 0..12] ==
        IF i = 0 THEN Start
        ELSE Taken(walk[i - 1], fives[2 * i - 1] + 1, fives[2 * i],
                   fives[2 * i] > walk[i - 1].value)
  IN walk[12]

\* f itself; TLC computes it once for all.
Table(f) == CHOOSE g \in {f} : g = f

\* A register that cannot be read is not in the dict at all.
Registers(m, role, data) ==
  LET value == Table([reg \in {r \in RegsOf(m) : role \in r.roles} |-> LoadNumber(reg, data)])
      found == {reg \in DOMAIN value : value[reg] # None}
  IN Table([name \in {reg.name : reg \in found} |->
              value[CHOOSE reg \in found : reg.name = name]])

\* What the walk gives the update, and what is read of the registers besides.
Echo(best) == [BestTime |-> <<best.time>>, BestValue |-> <<best.value>>,
               UsableMeasurements |-> <<best.usable>>]
With(vals, others) ==
  [name \in DOMAIN vals \cup DOMAIN others |->
     IF name \in DOMAIN vals THEN vals[name] ELSE others[name]]

\* _parse_manufacturer_data, of ble_device.py and as ble_device_mopeka_std.py extends it.
Parsed(m, role, data) ==
  IF m # "mopeka_std" THEN Registers(m, role, data)
  ELSE With(Echo(FindBestTime(Fives(data))), Registers(m, role, data))

\* What is read from the frame of every unit considered.
Decoded ==
  Table([m \in DOMAIN Unit \ SeeLevel |-> Table([u \in Unit[m] |->
    Table([role \in RolesOf(m) |-> Parsed(m, role, FrameOf(m, u))])])])

Without(names, vals) == [n \in DOMAIN vals \ names |-> vals[n]]

(***************************************************************************)
(* The drivers' update_data.                                               *)
(***************************************************************************)
\* Unchanged MovementCounter: the tag has not moved, its axes are noise.
Still(vals) == "MovementCounter" \in DOMAIN vals /\ vals["MovementCounter"] = counter

RuuviUpdate(vals) ==
  IF Still(vals) THEN Without({"AccelX", "AccelY", "AccelZ"}, vals) ELSE vals

\* Scale factors in units of 10^-8.
Poly(a, b, c, t) == a + b * t + c * t * t
Water(t) == Poly(60059200, 312400, -1368, t)
Gasoline(t) == Poly(73734175, -197823, 202, t)
Vapour(t) == Poly(15309600, 32700, -29, t)
Propane(t, butane) == Poly(57304500, -282200, -535, t) + butane * (36150 + 815 * t)

\* None: an unmanaged fluid type or hardware.
MopekaScale(u, t) ==
  CASE u.hw \in {4, 10, 11} -> <<Vapour(t)>>
    [] u.hw = 3 \/ (u.hw \in {8, 9, 12} /\ u.fluid = 8) -> <<Propane(t, u.butane)>>
    [] u.hw = 5 \/ (u.hw \in {8, 9, 12} /\ u.fluid \in {1, 2, 3, 5, 11}) -> <<Water(t)>>
    [] u.hw \in {8, 9, 12} /\ u.fluid \in {6, 7} -> <<Gasoline(t)>>
    [] OTHER -> None

\* Seeded fault: the range of the extension bit starts at zero again.
ExtendedFromZero(ext, raw) == IF ext # 0 THEN 4 * raw ELSE raw

Extended(ext, raw) == IF ext # 0 THEN 16384 + 4 * raw ELSE raw

\* The distance is the product of the two numbers.  Without a scale the update
\* returns early: the register stays as it is, without its extension.
MopekaUpdate(u, vals) ==
  LET scale == MopekaScale(u, vals["Temperature"][1] + 40)
  IN IF scale = None THEN vals
     ELSE [vals EXCEPT !["RawValue"] =
             <<Extended(vals["TankLevelExtension"][1], @[1]), scale[1]>>]

\* Tenths of a degree; raw 0 is a sensor that has not started.
StdTemperature(raw) == IF raw = 0 THEN -400 ELSE ((raw - 25) * 17770) \div 1000

\* _speed_of_sound_lpg in cm/s, t in tenths of a degree, butane in percent.
SpeedOfSound(t, butane) ==
  104071 - (487 * t) \div 10 - (13750 * butane) \div 100
    - (107 * t * t) \div 10000 - (163 * t * butane) \div 1000

MopekaStdUpdate(vals) ==
  LET t == StdTemperature(vals["RawTemp"][1])
      time == vals["BestTime"][1]
      none == vals["UsableMeasurements"][1] < 1 \/ vals["BestValue"][1] < 2 \/ time < 2
  IN ("Temperature" :> <<t>>) @@ ("BatteryVoltage" :> <<2 * vals["BatteryRaw"][1] + 384>>)
     @@ ("RawValue" :> <<IF none THEN 0 ELSE time * SpeedOfSound(t, unit.butane)>>)
     @@ ("HardwareID" :> vals["HardwareID"])

DriverUpdate(vals) ==
  CASE model = "ruuvi5" -> RuuviUpdate(vals)
    [] model = "mopeka" -> MopekaUpdate(unit, vals)
    [] model = "mopeka_std" -> MopekaStdUpdate(vals)
    [] OTHER -> vals

\* How many units of the Temperature item make one degree.
Degree == CASE model \in {"ruuvi5", "ruuvi6"} -> 200
            [] model \in {"eye", "eye_all"} -> 100
            [] OTHER -> 10

\* The temperature role adds the user's offset.
RoleUpdate(role, vals) ==
  IF role = "temperature"
  THEN [vals EXCEPT !["Temperature"] = <<@[1] + offset * Degree>>]
  ELSE vals

(***************************************************************************)
(* Alarms, from the items as they stand after the frame.                   *)
(***************************************************************************)
LowBattery(role, items) ==
  CASE model = "ruuvi5" -> <<items[<<role, "BatteryVoltage">>][1] < 2500>>
    [] model \in {"mopeka", "safiery"} -> <<items[<<role, "BatteryVoltage">>][1] <= 73>>
    [] model = "mopeka_std" -> <<10000 * items[<<role, "BatteryVoltage">>][1] < 256 * 22975>>
    [] model = "solarsense" -> <<items[<<role, "BatteryVoltage">>][1] < 320>>
    [] model \in {"eye", "eye_all", "eye_magnet"} -> <<items[<<role, "LowBattery">>][1] >= 1>>
    [] OTHER -> None

(***************************************************************************)
(* The digital input role: a door's magnet, read as the user says.         *)
(***************************************************************************)
InputType == {0, 2, 3, 4, 10}   \* disabled, door, bilge pump, an alarm, generic
Xor(a, b) == (a + b) % 2

StateOffset(type) ==
  CASE type = 3 -> 2 [] type = 2 -> 6 [] type \in 4..8 -> 8 [] OTHER -> 0

InputShown(in) ==
  <<"digitalinput", "State">> :>
    <<IF in.type = 0 THEN 0 ELSE StateOffset(in.type) + Xor(in.last, in.inverted)>>

AlarmShown(in) ==
  <<"digitalinput", "/Alarm">> :>
    <<IF in.alarm = 1 /\ Xor(Xor(in.last, in.inverted), in.alarmInverted) = 1 THEN 2 ELSE 0>>

\* update_data: a change of state is counted.
InputUpdate(state) ==
  [input EXCEPT !.count = IF state # input.last THEN @ + 1 ELSE @, !.last = state]

\* SensorPublisher.publish: what the cache holds is not written again.
Changed(vals) == {k \in DOMAIN vals : k \notin DOMAIN cache \/ cache[k] # vals[k]}

Publish(vals, alarms) ==
  LET written == [k \in Changed(vals) |-> vals[k]]
  IN /\ cache' = written @@ cache
     /\ shown' = alarms @@ written @@ shown

(***************************************************************************)
(* Actions.                                                                *)
(***************************************************************************)
\* handle_manufacturer_data of the register-driven devices.
Hear ==
  /\ model \notin SeeLevel
  /\ LET heard == [role \in enabled |-> DriverUpdate(Decoded[model][unit][role])]
         vals == [k \in UNION {{<<role, n>> : n \in DOMAIN heard[role]} : role \in enabled} |->
                    RoleUpdate(k[1], heard[k[1]])[k[2]]]
         after == [k \in Changed(vals) |-> vals[k]] @@ shown
         low(role) == LowBattery(role, after)
         alarms == [k \in {<<role, "/Alarms/LowBattery">> :
                              role \in {r \in enabled : low(r) # None}} |-> low(k[1])]
         door == "digitalinput" \in enabled
     IN /\ input' = IF door THEN InputUpdate(heard["digitalinput"]["InputState"][1])
                            ELSE input
        /\ Publish(vals, IF door THEN InputShown(input') @@ AlarmShown(input') @@ alarms
                                 ELSE alarms)
        /\ counter' = IF "movement" \in enabled /\ model = "ruuvi5"
                         THEN heard["movement"]["MovementCounter"] ELSE counter
        /\ rawTemp' = IF "temperature" \in enabled
                         THEN heard["temperature"]["Temperature"] ELSE rawTemp
  /\ UNCHANGED <<model, unit, offset, enabled, edits>>

\* What a SeeLevel sends of one sensor: a number, or what keeps it from one.
Reads(r) == r[1] = "number"
InError(r) == r[1] = "error"

Clamped(n) == CASE n < 0 -> 0 [] n > 100 -> 100 [] OTHER -> n

\* Tenths of a degree Celsius from Fahrenheit, rounded.
Celsius(f) == (2 * 50 * (f - 32) + 9) \div 18

SeeLevelValues(role, n) ==
  ("Status" :> <<0>>) @@
  CASE role = "tank" -> ("RawValue" :> <<Clamped(n)>>) @@ ("Level" :> <<Clamped(n)>>)
    [] role = "temperature" -> "Temperature" :> <<Celsius(n) + 10 * offset>>
    [] role = "battery" -> "/Dc/0/Voltage" :> <<n>>

\* handle_manufacturer_data of BTP3, whose frames carry one sensor each, and of
\* BTP7, whose frames carry them all.  An error is written past the publisher,
\* an open or unreadable sensor leaves its items alone.
HearSeeLevel(roles) ==
  /\ model \in SeeLevel
  /\ roles \subseteq enabled
  /\ LET good == {role \in roles : Reads(unit[role])}
         broken == {role \in roles : InError(unit[role])}
         items(role) == SeeLevelValues(role, unit[role][2])
         vals == [k \in UNION {{<<role, n>> : n \in DOMAIN items(role)} : role \in good} |->
                    items(k[1])[k[2]]]
     IN /\ Publish(vals, [k \in {<<role, "Status">> : role \in broken} |-> <<5>>])
        /\ rawTemp' = IF "temperature" \in good THEN <<Celsius(unit["temperature"][2])>>
                        ELSE rawTemp
  /\ UNCHANGED <<model, unit, counter, offset, input, enabled, edits>>

HearBtp3(role) == model = "btp3" /\ role \in RolesOf("btp3") /\ HearSeeLevel({role})
HearBtp7 == model = "btp7" /\ HearSeeLevel(enabled)

\* offset_update writes the item directly, past the cache.
OffsetChanges ==
  /\ edits < Edits /\ edits' = edits + 1
  /\ "temperature" \in RolesOf(model)
  /\ \E o \in Offset \ {offset} :
       /\ offset' = o
       /\ shown' = (<<"temperature", "Temperature">> :> <<rawTemp[1] + o * Degree>>) @@ shown
  /\ UNCHANGED <<model, unit, cache, counter, rawTemp, input, enabled>>

\* The onchange handlers of the role's settings, which answer with the input as
\* it was heard last.
InputSettingsChange ==
  /\ edits < Edits /\ edits' = edits + 1
  /\ "digitalinput" \in RolesOf(model)
  /\ \/ \E t \in InputType \ {input.type} :
          input' = [input EXCEPT !.type = t] /\ shown' = InputShown(input') @@ shown
     \/ /\ input' = [input EXCEPT !.inverted = 1 - @]
        /\ shown' = InputShown(input') @@ AlarmShown(input') @@ shown
     \/ /\ \/ input' = [input EXCEPT !.alarm = 1 - @]
           \/ input' = [input EXCEPT !.alarmInverted = 1 - @]
        /\ shown' = AlarmShown(input') @@ shown
  /\ UNCHANGED <<model, unit, cache, counter, rawTemp, offset, enabled>>

Toggle ==
  /\ edits < Edits /\ edits' = edits + 1
  /\ \E role \in RolesOf(model) :
       enabled' = IF role \in enabled THEN enabled \ {role} ELSE enabled \cup {role}
  /\ UNCHANGED <<model, unit, shown, cache, counter, rawTemp, offset, input>>

\* The world moves on; a unit stays the one it is.
UnitChanges ==
  /\ edits < Edits /\ edits' = edits + 1
  /\ unit' \in {u \in Unit[model] \ {unit} : "hw" \in DOMAIN u => u.hw = unit.hw}
  /\ UNCHANGED <<model, shown, cache, counter, rawTemp, offset, input, enabled>>

\* An entry a heartbeat old is written again.  Where item and entry agree
\* that changes nothing, so only the others are of interest.
HeartbeatDue(k) ==
  /\ k \in DOMAIN cache /\ cache[k] # shown[k]
  /\ cache' = [j \in DOMAIN cache \ {k} |-> cache[j]]
  /\ UNCHANGED <<model, unit, shown, counter, rawTemp, offset, input, enabled, edits>>

\* The items and everything the driver remembers die with the process.
Fresh ==
  /\ shown = <<>> /\ cache = <<>> /\ counter = None /\ rawTemp = <<0>>

Restart ==
  /\ edits < Edits /\ edits' = edits + 1
  /\ shown' = <<>> /\ cache' = <<>> /\ counter' = None /\ rawTemp' = <<0>>
  /\ input' = [input EXCEPT !.last = 0]
  /\ UNCHANGED <<model, unit, offset, enabled>>

FrameInit ==
  /\ model \in DOMAIN Unit
  /\ unit \in Unit[model]
  /\ enabled = RolesOf(model)
  /\ offset = 0
  /\ input = [last |-> 0, count |-> 0, type |-> 2, inverted |-> 0, alarm |-> 0,
              alarmInverted |-> 0]
  /\ edits = 0
  /\ Fresh

FrameNext ==
  \/ Hear \/ HearBtp7
  \/ \E role \in RolesOf("btp3") : HearBtp3(role)
  \/ \E k \in DOMAIN cache : HeartbeatDue(k)
  \/ OffsetChanges \/ InputSettingsChange \/ Toggle \/ UnitChanges \/ Restart

\* Broadcasters repeat their frames for as long as they have power, a BTP3
\* cycles through its sensors, and the clock goes on.
Overwritable == {<<"temperature", "Temperature">>} \cup
  {<<role, "Status">> : role \in RolesOf("btp3")}

FrameSpec ==
  /\ FrameInit /\ [][FrameNext]_frameVars
  /\ WF_frameVars(Hear) /\ WF_frameVars(HearBtp7)
  /\ \A role \in RolesOf("btp3") : WF_frameVars(HearBtp3(role))
  /\ \A k \in Overwritable : WF_frameVars(HeartbeatDue(k))

(***************************************************************************)
(* Properties.                                                             *)
(***************************************************************************)
\* The items a role must show, from what the unit measures.
Air5(u) == {<<"Temperature", u.temp + 200 * offset>>, <<"Humidity", u.hum>>,
            <<"Pressure", u.press + 50000>>, <<"BatteryVoltage", u.batt + 1600>>,
            <<"TxPower", 4>>}
Truth(role, u) ==
  CASE model = "ruuvi5" /\ role = "temperature" -> Air5(u)
    [] model = "ruuvi5" /\ role = "movement" ->
         {<<"MovementCounter", u.count>>, <<"BatteryVoltage", u.batt + 1600>>}
    [] model = "ruuvi6" -> {<<"Temperature", u.temp + 200 * offset>>, <<"CO2", u.co2>>}
    [] model = "mopeka" -> {<<"Temperature", u.temp - 40>>, <<"BatteryVoltage", u.batt>>}
    [] model = "mopeka_std" -> {<<"BatteryVoltage", 2 * u.batt + 384>>}
    [] model = "gobius" -> {<<"Temperature", u.temp - 40>>, <<"RawValue", u.dist>>}
    [] model = "safiery" -> {<<"Temperature", u.temp - 40>>, <<"RawValue", u.dist>>,
                             <<"AccelX", u.acc>>, <<"AccelY", 3>>}
    [] model = "solarsense" ->
         {<<"InstallationPower", u.power>>, <<"TodaysYield", 12345>>,
          <<"Irradiance", u.irr>>, <<"CellTemperature", u.cell - 600>>,
          <<"BatteryVoltage", u.batt + 170>>, <<"TimeSinceLastSun", Minutes(u.sun)>>,
          <<"TxPowerLevel", 6>>}
    [] model = "eye" -> {<<"Temperature", u.temp + 100 * offset>>,
                         <<"BatteryVoltage", 10 * u.batt + 2000>>}
    [] model = "eye_all" /\ role = "temperature" ->
         {<<"Temperature", u.temp + 100 * offset>>, <<"Humidity", u.hum>>}
    [] model = "eye_all" /\ role = "movement" ->
         {<<"MovementCount", u.count>>, <<"Pitch", u.pitch>>, <<"Roll", u.roll>>,
          <<"BatteryVoltage", 10 * u.batt + 2000>>}
    [] model = "eye_magnet" ->
         LET high == Xor(u.magnet, input.inverted)
         IN {<<"/Alarm", IF input.alarm = 1 /\ high # input.alarmInverted THEN 2 ELSE 0>>,
             <<"State", IF input.type = 0 THEN 0 ELSE StateOffset(input.type) + high>>,
             <<"BatteryVoltage", 10 * u.batt + 2000>>}
    [] model \in SeeLevel ->
         CASE InError(u[role]) -> {<<"Status", 5>>}
           [] Reads(u[role]) -> {<<"Status", 0>>} \cup
                (IF role = "tank" THEN {<<"Level", Clamped(u[role][2])>>} ELSE {})
           [] OTHER -> {}

Shows(role, name, n) == <<role, name>> \in DOMAIN shown /\ shown[<<role, name>>] = <<n>>

\* Once the world and the user rest, every enabled role shows what the sensor
\* measures: no field is taken from its neighbour's bits, no sign is lost, and
\* no item written past the cache (the offset, a SeeLevel error, an input's state)
\* stays behind.
ReadInTheEnd ==
  <>[](\A role \in enabled : \A t \in Truth(role, unit) : Shows(role, t[1], t[2]))

\* The times of the pairs in S, together.
TotalTime(table, S) ==
  LET upTo[i \in 0..12] ==
        IF i = 0 THEN 0 ELSE upTo[i - 1] + (IF i \in S THEN table[i][1] ELSE 0)
  IN upTo[12]

\* The distance of the first generation Mopeka is that of its strongest echo:
\* the time since the echo before it, across the empty slots between
\* (_find_best_time's folding of 12 five-bit pairs against its definition).
EchoIsTheStrongest ==
  model = "mopeka_std" =>
    LET table == unit.table
        echoes == {i \in 1..12 : table[i][2] # 0}
        best == CHOOSE i \in echoes : \A j \in echoes :
                  table[j][2] < table[i][2] \/ (table[j][2] = table[i][2] /\ i <= j)
        since == {i \in 1..best : \A j \in i..(best - 1) : table[j][2] = 0}
        found == Decoded["mopeka_std"][unit]["tank"]
    IN /\ found["UsableMeasurements"] = <<Cardinality(echoes)>>
       /\ echoes # {} => found["BestTime"] = <<TotalTime(table, since)>>

\* The hardware and the fluids that update_data has coefficients for.
Managed(u) ==
  \/ u.hw \in {3, 4, 5, 10, 11}
  \/ u.hw \in {8, 9, 12} /\ u.fluid \in {1, 2, 3, 5, 6, 7, 8, 11}

\* The RawValue that update_data leaves for the publisher.
Distance(u) == MopekaUpdate(u, Decoded["mopeka"][u]["tank"])["RawValue"]

\* Products with the same positive second factor.
Longer(d, e) == d[1] > e[1] /\ d[2] = e[2] /\ e[2] > 0

\* For a fluid the driver manages, a longer echo of a Mopeka is published as a
\* longer distance, at every temperature and mixture, across the range where the
\* extension bit takes over.  Of other fluids the RawValue is the bare register
\* (update_data returns before it is stored), which starts again at that bit.
LevelsInOrder ==
  model = "mopeka" /\ Managed(unit) =>
    LET setup(u) == <<u.hw, u.fluid, u.butane, u.temp>>
    IN \A other \in Unit["mopeka"] :
         setup(other) = setup(unit) /\ unit.echo < other.echo =>
           Longer(Distance(other), Distance(unit))
=============================================================================
