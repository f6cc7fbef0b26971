# Verification of dbus-ble-sensors-py

TLA+ models, model checks and proofs for the Venus OS service
`dbus-ble-sensors-py`, which listens to Bluetooth Low Energy advertisements on
the cards of a gateway and publishes sensors, chargers and shunts on D-Bus.
Paths below are relative to `src/src/opt/victronenergy/dbus-ble-sensors-py/`.

## The system

| part | files | state | operations | who it talks to |
|---|---|---|---|---|
| scan control | `dbus_ble_sensors.py`, `hci_scan_control.py`, `adapter_identity.py` | `_adapters`, `_scan_active_key`, `_scan_enabled_adapters` | hot-plug, rotation, re-enable, silence detection | BlueZ signals, raw HCI commands |
| scan claims | `scan_claims.py` | claims by card | hold, release, release all | other BLE services, by files |
| load throttle | `load_throttle.py` | `_throttled` | trip, release | stops and restarts tap and scan |
| tap | `hci_advertisement_tap.py` | the thread, four sets and dictionaries it shares with the main loop | parse, filter, hand over | kernel monitor socket, GLib idle queue |
| admission | `dbus_ble_sensors.py` | `_known_mac`, `_ignored_mac`, `_configured_macs`, `_tap_*` | judge a frame, adopt, silence, expire | tap, settings, router, devices |
| router | `ble_advertisement_router.py` | registrations, emitters | introspect services, match, emit | other services on D-Bus |
| devices and roles | `ble_device*.py`, `dbus_role_service.py`, `ble_role*.py` | role services, items | decode, connect, disconnect | `vedbus` |
| settings bridge | `dbus_settings_service.py`, `dbus_ble_service.py` | cached items and callbacks | both directions of a change | `com.victronenergy.settings` |
| name devices | `ble_device_easystart.py` | learned addresses, session, back-off | name advertisement, session | GATT layer |
| GATT layer | `ble_async_loop.py`, `orion_tr_gatt.py`, `ble_gatt_*.py`, `hex_key_session.py`, `smartshunt_hex.py` | busy flags, sessions, links | write, read, provision | an asyncio loop on its own thread |
| chargers | `ble_charger_common.py`, device files | pending writes, DVCC state | enqueue, drain, engage | GATT layer, link follower |
| link follower | `bms_link_follower.py` | engaged chargers, last written limits | tick | a thread with a bus of its own |
| publisher | `sensor_publisher.py`, `sensor_rounding.py` | last published values | publish | role services |

Threads: the GLib main loop, the tap thread, the asyncio thread, the link
follower.  Callbacks of the main loop do not interleave with each other; what
interleaves is the tap thread (which reads shared sets while the main loop
changes them and queues frames), the D-Bus signals that arrive between
callbacks, sessions of the asyncio thread, whose results come back through the
idle queue, calls of the link follower, which it may give up before they are
served, and the outside world (cards, units, other services, the settings
service, users, the load of the machine).

What is hard here, and what the properties are aimed at, is listed line by line
under `hazards` in `PROJECT.json`.  In short: commands whose answer is lost,
exceptions in the middle of a loop over cards, state that several callbacks
keep in step by hand (markers and claims, silenced addresses and their dated
entries, disabled devices and the tap's set), decisions on a value that is
about to change, dictionaries that renew what is looked up, and restarts.

## Modules

| module | models | checked by | proved in |
|---|---|---|---|
| `ScanControl` | scan control, claims, throttle, life of tap and process | `MCScanControl` | `ScanControlProofs` |
| `Admission` | tap filters, idle queue, admission, settings bridge, registrations, restarts | `MCAdmission` | `AdmissionProofs` |
| `Router` | discovery of registrations, matching, the tap's sets made of them | `MCRouter` | `AdvertisementProofs` |
| `RegisterSession` | abstract: what a driver may rely on when it asks for a session | as a property of `ChargerControl` | for all three users of the writer: `ChargerControlProofs`, `KeySessionsProofs`, `OrionRolesProofs` |
| `ControlPaths` | abstract: what a charger's service promises those who control it | - | for both models of it: `ChargerControlProofs`, `BmsLinkFollowerProofs` |
| `GattWriter` | the writer with one slot, its coroutine, pairing agents, the BLE loop | through the three modules below | through them |
| `ChargerControl` | IP22 chargers: external control, pending writes, polls, profile | `MCChargerControl` | `ChargerControlProofs` |
| `KeySessions` | advertisement keys of four kinds of device, PV poll, the shunt's own session | `MCKeySessions` | `KeySessionsProofs` |
| `OrionRoles` | the Orion-TR's two roles, its mode switch, what it publishes | `MCOrionRoles` | `OrionRolesProofs` |
| `BmsLinkFollower` | the follower's tick, the services it drives, calls lost and late | `MCBmsLinkFollower` | `BmsLinkFollowerProofs` |
| `EasyStart` | name-identified unit: addresses, sessions, back-off, start-up sweep | `MCEasyStart` | `EasyStartProofs` |
| `TankSensor` | deduplication, idle queue, level, alarms, publisher, settings | `MCTankSensor` | - |
| `SensorFrames` | frames, register tables, decoding, drivers and roles of twelve sensors | `MCSensorFrames` | `AdvertisementProofs` |

`GattWriter` has no specification of its own: `ChargerControl`, `KeySessions`
and `OrionRoles` extend it and compose their drivers with it, as each family of
devices in the code owns one `AsyncGATTWriter`.

### ScanControl

`Card` are the cards the allow-list admits, numbered in the sorted order of
their identity keys.  `present` and `scanning` are the world: which cards answer
and which controllers scan.  `adapters`, `active`, `enabled`, `claims`,
`throttled`, `tap`, `rx`, `warned` are `_adapters`, `_scan_active_key`,
`_scan_enabled_adapters`, `_scan_claims`, `_throttled`, `_tap_thread`,
`_last_tap_rx` and `_silence_warned`; `timers` are the GLib sources that still
fire.  One action is one callback: `RotationTick`, `ReenableTick`,
`ContinuousScanChanged`, `PruneTick` (watchdog, scan lost, silence, in that
order), `InterfacesAdded`, `InterfacesRemoved`, `LoadTrip`, `LoadRelease`,
`Start`, `Exit`; `TapFrame` and `TapDies` belong to the tap thread; `Plug`,
`Unplug`, `ForeignReset`, `RivalScans` and `RivalStops` to the world.

A callback that sends HCI commands to several cards is one action: a function
from cards to replies is chosen (`Replies`), and what the callback does with it
is computed (`RotationResults`).  A reply has a result (`ok`, `fail`, `raise`)
and the state the controller is left in, because a failed call may have taken
effect: `enable_scan` disables first, and a command whose Command Complete is
lost was executed.  An exception ends the loop over the cards; where it goes
depends on the caller: a timer dies of it (PyGObject), a D-Bus handler and the
throttle log it.

`claims` says of each card what `_scan_claims` has: a hard claim, a soft one,
none, or none because the last `hold()` failed (the code does not tell the last
two apart; the properties do).  `hold(exclusive=True)` (`ClaimsAfter`) returns at
once for a hard claim; a soft one is released and the card claimed anew, hard if
nobody else has it, soft if another live process has (`rivals`, on the cards in
`Contested`), and not at all if the layer fails (`ClaimsMayFail`).  A callback is
one step, so the moment between release and new claim is inside it: what another
process does in that moment is what `RivalScans` does just before the callback.

Abstractions: the cards `_list_adapters` finds at boot arrive as
`InterfacesAdded`; the at most one second until a stopped tap thread ends belongs to `LoadTrip`;
a foreign scan shows as its net effect, scanning off; the accept-list policy,
which the code has retired, and the scan type are data.

### Admission

`Mac` are advertisers known by address.  A frame carries one or two
manufacturer records; what the code would make of a record is its `class`: it
fits a device class, is rejected by it (`alien`), fails in configuration
(`invalid`) or after it has written settings (`halfway`), or has no class; its
maker may be registered by an external service.  `known` and `ignored` are the
two `DatedDict`s with time counted in prune ticks.  `tapIgnored`, `tapDisabled`,
`gate` and `seen` are the sets the tap thread reads, `queue` the idle callbacks
between the threads.  `Hear` is the tap thread; `Process` is
`_process_advertisement` as a whole (`Processed`, `Handle`, `Verdict`) on the
state found when the frame comes up.

The settings are modelled as they travel: a write to
`com.victronenergy.settings` reaches the service as a signal that first updates
the item; a write to the service's own item runs the callback before the item
has its value (the `vedbus` library, outside the repository), and the signal
follows.  `notices` are the signals on their way, at most one per setting.

Abstractions: payload deduplication, the kernel filter (an optimisation of the
same decisions), log throttling, name-identified devices; the transient between
`clear()` and `update()` of the gate, in which it is open; deletion of settings
by the user.

### Router

`onBus` and `exports` are the other services: whose name has an owner, and which
paths under `/ble_advertisements/` it exports.  `inbox` are the bus messages on
their way to the router, in the one order the daemon delivers signals and
replies.  `pending` is `_pending_scan_services`, `asked` the Introspect calls
without an answer, `reg` the paths in the five indexes; `filter`, `prefixes` and
`gate` are the sets `_on_registrations_changed` derives for the tap.  `Create` is
the constructor (it subscribes), `StartScan` and `ScanNextService` the initial
scan, `NameArrived` and `NameLeft` the two branches of `_on_name_owner_changed`,
`BareReply` and `RootReply` the reply handler, the walk of the objects included:
it blocks the main loop, may fail for a child and may see the service leave.
`excused` is a history variable: services the code makes no attempt to follow
(no answer within a second, a child that fails, a replaced owner, objects added
later).  The matching functions are operators.

`Admission` uses the router through its action `RegistrationsChanged`, which
allows every change of the registrations; `Router` shows which of them happen.

Abstractions: emitters (one per registered path, kept in the same callback),
`process_name_advertisement`, the status methods, the form of paths.

### RegisterSession and GattWriter

`AsyncGATTWriter` has one slot (`job`, `_busy`).  A session is a coroutine of the
BLE thread whose stages are steps: queued, linked, sent, then settled well or
badly; `wait_for` may cancel it at any of them, and an error of the disconnect
makes a bad end of a request that went out.  The result crosses to the GLib
thread as an idle callback, one more step (`Deliver` of the users), so everything
may happen between the end of a session and its being heard of.  `loop` is the
BLE loop, whose start is tried once.  `agent` and `bonded` are the pairing agent
registered for a session and the bonds BlueZ keeps through a restart.  A handler
computes on the record `Writer` and writes it back with `Become`, since a request
that is refused is answered within the call.

`RegisterSession` is the abstraction: requests are held one at a time, reach the
device at most once, and are answered once, by success only after being sent;
the callback of an answer may ask again; the end of the process drops what is
held.  `OneSession` of `ChargerControl`, `KeySessions` and `OrionRoles` states that
the writer implements it under each kind of driver, with `job` and the stages
mapped to `held` and `state`; all three are proved, the first is also checked.

### ControlPaths

The abstract service of a charger, of which nothing is left but the two switches,
the two setpoints of `/Link` and whether the charger is under external control: a
change stores a value and decides (`Change`, `Decides`), a value that is already
there does neither, a new service is released.  `EngagedAsTold` states, in
`ChargerControl` and in `BmsLinkFollower`, that what `Face` shows of the modelled
service implements it: in the first with the user setpoints, the write queue, the
shared writer, frames, polls and the Enabled switch in between, in the second with
calls served late, the mode switch and departures.  So the services the follower
is proved against promise what the chargers are proved to keep.  In
`BmsLinkFollower` a write to the service is the same whoever makes it; the handlers
are `_on_link_*_write`, `_on_settings_bms_present_write` and `_set_dvcc_engaged`
(`ble_charger_common.py`).

### ChargerControl

One record per charger for the driver (`drv`: `_dvcc_engaged`, `_pending_writes`,
`_pending_drain_scheduled`, `_last_pushed_*`, `_hex_telemetry_busy`, what the
publisher believes), one for its role service (`role`), the stored charge profile
(`saved`) and the charger's registers (`regs`).  An action is a GLib callback: a
write to one of the control paths (`Write`), a full or a short advertisement,
the drain timer, the telemetry retry, the user's switch, the end of a session
(`Deliver`), restart.  Because the queue polls when it runs empty and the poll
may be refused within the call, a handler is a function from a `Sight` of the
charger and the writer to the set of sights it may leave.

Abstractions: values are levels with one `Deadband`; whether a poll's back-off
has passed is left open; telemetry contents, names and error texts are data.

### BmsLinkFollower

The follower is a thread with a bus connection of its own.  A tick reads the
limits (`goal`) and the chargers (`todo`), then drives one at a time; a call is a
message in the queue of the main loop (`calls`) with the follower waiting
(`call`); `GiveUp` is its timeout, after which the message is still served.  `held`
and `written` are `_engaged` and `_written`.  The services follow
`ble_charger_common.py`: a repeated value is acknowledged without a callback, a
setpoint engages external control, the mode switch of the user overrides.
`BlindTick` is a tick whose bus calls fail.

Abstractions: current and voltage limit are one level; the register writes that
follow a setpoint belong to `ChargerControl`.

### KeySessions

A fleet is a family: the devices of one kind, which share a writer (each family
has its own).  `keys` are the drivers' `_adv_key_hex`,
`_stored_key_invalid`, attempts and daily refresh, `provisioning` the flag the
drivers of a kind share, `pv` the PV poll of a SmartSolar, `reading` the inside of
a key session: the forms of request tried, the PUK and PIN exchange, the key.
`stored` is `AdvertisementKey` in the settings, which may refuse a write.  Whether a
PV poll's interval has passed is left open.  A frame
is decoded with the driver's key or rejected; rejection starts a session.  The
SmartShunt's first key comes from a session of its own.  `trouble` bounds what
goes wrong from outside: a key replaced at the device or typed by a user, a
refused write, a restart.

Abstractions: an attempt's answers are given by what the device `Speaks`; keys
differ in their first byte, by which the decoder tells a wrong one.

### OrionRoles

`current` and `service` are the role the driver remembers and the service there
is, `connected` whether it is on the bus, `listed` and `flag` the entries and
switches of `com.victronenergy.ble`, `item` and `seen` the service's values and the
publisher's cache of them.  `Advertisement` is the handler as a whole: the swap
when the state asks for the other role, then the publication.  A swap may fail
before there is a new service, or in the registration of one (`HalfRegistered`):
then the service is listed, and may be enabled, but the driver has forgotten it and
publishes nothing there.  `OnModeWrite` is the switch, with its session and its end;
`OnLinkWrite` a battery monitor, whose every write shows the status again;
`OnEnabledChanged` the user.

Abstractions: charge-voltage writes go through the same queue as the IP22's and
are not repeated.

### EasyStart

The path of a name advertisement (`Advertisement`: adoption, the address cache and
its file, the card that heard it), the session (`Resolve`, `ReadConfig`, `Poll` on the
BLE thread, `Idle` for what it publishes and its outcome on the GLib thread), the
back-off (`streak`, `cooldown`), expiry and restart (`Killed`, `Start` with the sweep
of links BlueZ kept).  A link lost while the configuration is read ends the
session as dropped or as failed, as the classification of the error decides.  Time
is counted in units of 30 s, the shortest back-off; the
streak saturates at 6, where the back-off has reached its maximum.

Assumed: the start-up sweep finds the link (it is best effort), the address does
not rotate while the unit lives, the address file can be written, nobody deletes
the device.

### TankSensor

The tap's note of the last payload (`sent`, its own thread), the idle queue, the
handler of a frame, the tank role (`item`, `map`, alarms and their pending times)
and the publisher's cache, for one item with the role's settings changed from
both sides.  Deduplication by payload comes before the handler and by value after
it, and alarm delays are looked at only when a frame is handled, which is what
the properties are about.  The publisher compares keys (`Key`, `Nearest` are
`round_value`): a distance that rounds to the one last written is withheld until
the heartbeat is due, while the level computed from it is compared exactly and
written at once; what is written is the value, never the key.  A reading is a
number of units of which `Cm` make a centimetre and `Step` the last digit shown.
Ages saturate where no guard tells them apart.

### SensorFrames

Both ends of a payload: `...Frame` packs what a unit measures as the sensor's
protocol says, `...Regs` are the drivers' register tables, `LoadNumber` is
`BleDevice._load_number`, `DriverUpdate` and `RoleUpdate` the drivers' and roles'
`update_data`, `Publish` the publisher.  Two SeeLevel generations are decoded from
text and have actions of their own.  Values are exact, as numerators over the
register's scale.  A physical level is the product of echo time and a polynomial;
the polynomials are given as integers.  `MopekaUnit` and `StdUnit` say what the two
Mopekas can measure, for the proofs; the units of the run are among them
(`MopekaAssumption`).  Specification and next-state relation are called `FrameSpec`
and `FrameNext`, because one module of proofs extends this module and `Router`.

Left out: registers no role receives, the 32-bit error code, the logarithmic
luminosity, digital input types the role refuses.

## Runs

Sizes are distinct states; all runs pass.

| run | question | states |
|---|---|---|
| `scan_liveness` | three cards, one of them another service's too: one listener, exclusive claim in the end, back on the air, every card's turn, watchdog | 33,600 |
| `scan_faults` | markers have their claims under commands, claims and sockets that fail and raise | 191,300 |
| `admission_safety` | gate, disabled set, adoption; two advertisers | 797,600 |
| `admission_liveness` | an adopted device is let go at the tap; configured gear returns despite foreign formats | 14,200 |
| `router_found` | no service missed, exact matching, a service that stays is found; two services | 200,400 |
| `charger_control` | two chargers: no write stranded, flags and state true, writer refines `RegisterSession`, everyone served | 326,600 |
| `bms_link` | who is held is controlled, memory is true, limits arrive, with calls given up and served late | 71,100 |
| `key_sessions` | three families of two: flags stand for sessions, rejected keys rest, keys found, stale PV withdrawn | 203,100 |
| `orion_roles` | a switch is never blocked, a published device stays, role and mode agree with the unit in the end | 37,100 |
| `easystart` | links on own cards, one session or result per flag, the unit shown in the end | 98,700 |
| `tank_sensor` | reading and level shown in the end, alarms settle | 349,600 |
| `sensor_frames` | what is shown in the end is what was measured; echoes and published distances in order | 18,500 |

Bounds.  Two cards give listener and idle card, three a rotation that can skip
one.  Two advertisers give our own gear and a stranger, interchangeable, hence
the symmetry in `admission_safety` (no symmetry where liveness is checked).  Time
to live is two ticks so that an entry can age without expiring.  One frame in the
queue is enough to be overtaken by a change of every set; the proofs hold for any
bound.  `InboxBound` 2 lets a service leave and return before the router looks.
Two chargers compete for the writer's slot, one written to over `/Link`, the other
over its own setpoints; two levels differ by the deadband, and the BMS comes and
goes.  One charger is enough
for the follower, whose chargers do not interact except through the queue of the
main loop (the proofs are for any number); two limits give a change, two calls
given up an old one behind a newer.  Each fleet is two devices, a pair of
Orion-TR, one of SmartSolar with their PV poll, one of SmartShunt with their own
sessions; an IP22 does here what an Orion-TR does (the proofs are for all four
kinds).  Two keys are the right and a wrong one, two attempts a
retry and a giving up, and one trouble (`MaxTrouble`) may meet a session at any of its
steps.  `Edits` 3 in the last four lets a setting change and change
back around a restart.  Three cards of which two are own give EasyStart a change
of card and a foreign one.  In `tank_sensor` the readings are 10, 14, 170 and 250 mm with centimetres
shown: the first is the one that stands for none, the second rounds to it, a
reading of 170 is 85 % of one tank, in the band between restore and active of
the high alarm, and 14 is low enough for the low one; each of these is reached.
In `sensor_frames` the Mopeka is a kind with managed fluids and one without
(fluid 0), and each field is measured at borders of
its range and of its bit field, with neighbours that differ, and the first echo
table slots take every mixture of empty, weak and strong.

Deadlock is checked except where the modelled world may rest: `easystart` (killed
and out of edits, or silent) and `sensor_frames` (everything shown).

### Fairness

* Scan control: GLib fires a timer while its source exists (weak fairness of the
  ticks); a controller that is asked for ever accepts an enable at some time
  (strong fairness of a successful re-enable).
* Admission: the idle queue is served; a device on the air repeats its readable
  frame, and one the tap would let through again and again gets through
  (strong fairness of `Hear` of that frame, `OnAirSpec`).
* Router: the main loop dispatches messages and the scan timer; a service that
  was asked answers or times out.
* Sessions: a coroutine ends by itself or by its `wait_for`, and the idle callback
  runs (weak fairness of `Session` and `Deliver`).  Drain timer, end of the
  back-off and the next frame come again and again, also while the slot is free,
  since a session takes seconds and polls back off for minutes: strong fairness
  of those with the slot free.  In `KeySessions` the frame is one whose handler
  gives the slot to no poll: a PV poll is due every two minutes, and many frames
  come in between.
* Follower: the thread goes on and ticks, the main loop serves; `LimitsArrive`
  supposes `Calm`, that restarts, failed readings and timeouts end.
* Sensors repeat their frames, the main loop turns, time passes, and the
  supervisor restarts the service (weak fairness).

Nothing is assumed of users, batteries, other services, cards and the load.

### What the runs say

* `OneListener`, `MarkersBacked`: role, markers and claims agree through
  hot-plug, throttle, failures and restarts, unless a claim itself failed;
  `ExclusiveInTheEnd`: the soft claim on a card shared with another service becomes
  a hard one after the other has gone, though no callback watches for that;
  `BackOnAir`, `EveryCardListens`,
  `DeadTapRestarted`: no device is lost to a card that is never listened to.
* `GateIsSafe`, `DisabledInStep`, `DeviceIsHeard`, `OnlyDiscoveryAdds`,
  `ConfiguredComesBack`: what the tap drops unparsed is a stranger nobody wants or
  a device that is off; with discovery off nothing is added and nothing of ours
  is lost.
* `NoneMissed`, `FoundInTheEnd`, `EveryConsumerServed`: between subscription, scan and
  asynchronous answers no service falls through, excuses apart, and advertisements
  reach exactly the paths that want them.
* `NoStrandedWrite`, `ServedInTheEnd`, `PollFlagBacked`, `StateTellsControl`, `OneSession`:
  a setpoint always has somebody to send it, a lost flag never ends telemetry, and
  `/State` tells the truth although it is written by two ways.
* `HeldIsControlled`, `CacheNeverLies`, `LimitsArrive`: the follower's memory agrees
  with services that change behind it.
* `FlagsBacked`, `RejectedKeyRests`, `KeyInTheEnd`, `PvWithdrawn`: no failure on any path
  of a session locks a family out of its keys, and no wrong key comes back from
  the settings.
* `ModeBusyBacked`, `StaysPublished`, `InSyncInTheEnd`: a failed switch or swap is
  repaired by the advertisements that follow, and a service left behind by a failed
  swap is never taken for the one that is published.
* `LinkOnOwnCard`, `ActiveBacked`, `EasyStart!ShownInTheEnd`: the session slot and the
  back-off survive every order of frames, results and edits, and a unit kept
  silent by a stale link is heard again.
* `TankSensor!ShownInTheEnd`, `AlarmsSettle`, `ReadInTheEnd`, `EchoIsTheStrongest`,
  `LevelsInOrder`: two deduplications, rounding, direct writes and register tables
  lose nothing, and the distance a Mopeka's driver leaves for the publisher grows
  with the echo across the extension bit, with the exceptions listed next.

Every property has a mutant of the code that breaks it; they stand next to the
definitions they change, marked as seeded faults, and are used by no
specification.

### Where the code and its own words disagree

Seen while modelling; all are in the models' transitions or in what they assume,
and the properties above are stated so that they hold beside them.

Scan control, admission and router (lines of `dbus_ble_sensors.py` where not said):

* `docs/ble-connection-layer.md` (85, 97-102) says that a passive scan is claimed
  softly and only an active one hard; every caller of `hold` asks for a hard
  claim, as `tests/test_scan_claims.py` wants it, and soft is the fallback;
* a card claimed softly has no claim at all for a moment in every `hold()`, and
  none until the next one if the new claim fails, while it scans;
* the silence detection empties the markers; a trip soon after disables no card
  and gives its claim away;
* a lost Command Complete raises out of `enable_scan` and ends the timer for good;
* the prune tick renews the silenced entries it is meant to let expire, and every
  device ever heard is renewed for ever;
* registrations of services that have left are never removed: the paths that
  contain the service's name are looked for, and an object path contains no dots
  (`ble_advertisement_router.py:557`, docs/advertisement-router.md:311-313);
* one failed reopening of the monitor socket is the last attempt: the watchdog
  forgets the dead thread before it has a new one (1668-1675), and
  `DeadTapRestarted` holds only with `TapOutcomes` `{"ok"}`;
* SIGTERM ends the process without a disable (1802), although
  `disable_passive_scan` is documented as part of the shutdown path;
* the discovery gate (1051-1066) silences an address that an external service
  registered, against the docstring at 986;
* the branches at 1038 and 1109 silence configured gear: a frame of a
  manufacturer the service has no class for, or one failed initialisation;
  `ConfiguredComesBack` is about gear that sends neither;
* a registration by name prefix does not open the tap's address gate, and one by
  address does not widen its maker filter, so that with discovery off neither
  reaches an unknown device (465-512, 1537-1546);
* the router does not follow a name that changes its owner, does not ask a slow
  service again and does not notice objects that come or go later, although
  docs/advertisement-router.md:239 speaks of a next pass;
* a stranger refused with discovery off stays silenced when it is turned on, a
  consequence of the renewal above.

Chargers, keys and the GATT layer:

* holding a charger at stale setpoints is called worse than letting it fall back
  (`bms_link_follower.py:25-27`), but a release that fails or times out is forgotten
  and not tried again (281-286), so a charger that stays on the bus keeps them;
* `_last_pushed_*` is called the last value successfully pushed
  (`ble_charger_common.py:369`); the writes are unacknowledged, so it is the last one
  sent by a session that ended well.  A setpoint is compared with it while another
  value is queued or under way, or was sent by a session that then failed, so a
  return to the earlier setpoint is dropped and the other value stays;
* failed writes are not retried, and a voltage can overtake the battery type that
  makes room for it;
* of the charge profile and switches said to be restored
  (`ble_charger_common.py:664-682`) `/Link/BmsPresent` and `/Link/NetworkMode` have no
  settings behind them;
* the one GATT writer the comments speak of is one for each family of devices;
* SmartSolar attempts refused because the writer was busy count towards the five
  after which it gives up, and a key typed by hand after that is ignored until a
  restart (`ble_device_smartsolar.py:383-400`);
* a SmartShunt met while disabled, or whose key the settings refused, asks for no
  key until a restart (`Stranded`); after it is disabled the session goes on
  connecting;
* Orion-TR: both writers of the charge voltage share `_last_pushed_charge_voltage_v`
  (1009-1036); a failed swap does not keep the previous role (899); a swap that fails
  in the registration (927-934), after the entry is listed, leaves a service that
  its Enabled entry can put on the bus and nobody updates until a restart;
  `/State` 252 is
  also written in the dcdc role, and beside a standalone `/Link/NetworkStatus` after a
  swap; a disable while it is an alternator is undone by a restart; `/Mode` is not
  kept in step (762) between a failed write and the next changed advertisement.

Sensors:

* the heartbeat of `sensor_rounding.py:50-55` can take twice its period, since the tap
  and the publisher wait one after the other;
* with heartbeat 0 a reading that rounds to the one shown is never shown, while the
  level beside it is;
* Mopeka: of a fluid the driver has no scale for, `RawValue` is the bare register
  without its extension bit (`ble_device_mopeka.py:293-295`), so beyond 16383 a longer
  echo shows as a shorter one; `LevelsInOrder` is about the managed fluids;
* the delay of an alarm is skipped when it returns after clearing; with heartbeat
  0 and a constant payload a delayed alarm never comes; no reading while an alarm
  is enabled raises in the handler (`ble_role_tank.py:185-200`);
* a `Shape` changed in `com.victronenergy.settings` takes no effect until a restart
  (hence `Remote` is the calibration only);
* a register's invalid marker is compared after sign, scale and bias, so the marker of a
  scaled register is published as a reading, and the Ruuvi's 11-bit voltage has a
  10-bit marker; a reading of None never clears an item;
* Ruuvi Air: no role receives the flags, so VOC and NOx miss their ninth bit; the
  hysteresis of the battery alarms reads an item that does not exist (also
  SolarSense);
* Safiery: AccelZ lies past the end of the frames that are accepted;
* SeeLevel: an error is written past the publisher, so the recovery shows at the
  heartbeat, or never when there is none; an open sensor leaves its old level;
  Gobius clamps its markers to level 0;
* an offset changed before the first frame publishes the offset as a temperature;
* the movement alarm compares a count with itself; a digital input that is high at
  start counts a change, and an unsupported type is reset in the item only;
* EasyStart: a role enabled again shows its old load and reachability first.

## Proofs

Checked by TLAPS for every value of the constants, from the named assumptions of
the modules only (`CardAssumption`, `OutcomeAssumption`; `ItemAssumption`,
`BoundAssumption`, `MacAssumption`; `PathAssumption`, `NameAssumption`,
`TapAssumption`; `LevelAssumption`, `AskedAssumption`; `LimitAssumption`;
`FleetAssumption`, `KeyAssumption`, `SpeaksAssumption`; `OrionAssumption`,
`EasyStartAssumption`; `SensorAssumption`, `MopekaAssumption`; and, for each user of the writer, `FreeAssumption`: that the
value for a free slot is not a request).

`ScanControlProofs`.  First the rotation as an operator: `RoleHolder` and
`NextCard` return a card of the set (well-foundedness of the order gives the
smallest), `ClaimsAfterShape` says what `hold()` leaves for whom, and
`RotationShape` that the books are kept.  `TypeCorrect` and
`RoleAndMarkers` follow with one step per action, for any outcomes.
`OneListenerCorrect` assumes that no command raises and a disable succeeds
(`Obedient`) and needs as strengthening that a scanning card is one the service
has not met or the one with the role.  `ThrottledCorrect` assumes that a
disable does not raise.  `ClaimKeptCorrect` follows the claims
through every callback that calls `hold()`: whatever the layer and other
claimants do, a hard claim goes only in a trip, at an exit or with its card, and
a soft one only where the new claim failed.  No run checks `ClaimKept` beside it.

`AdmissionProofs`.  The inductive invariant `AdmissionInv` adds to the checked
invariants what they need: the gate equals what `_refresh_tap_known_macs` would
compute now unless a signal of the discovery setting is on its way
(`GateInSync`); a throttled service has no tap (`ThrottleStopsTap`), which is
why a toggle may go unapplied while throttled; configured devices have stored
settings (`StoredFirst`); a signal of Enabled is only on its way for a known
device (`NoticesOfKnown`).  The frame handler is treated as a function on a
ledger of the sets it works on: `Sound` is the invariant of the ledger, each
update preserves it (`SilenceSound`, `AdoptSound`, `TouchSound`), hence a record
(`HandleSound`), a frame (`ProcessedSound`) and the action (`ProcessStep`).  Then
`TypeCorrect`, `GateIsSafeAlways`, `DisabledInStepAlways`,
`SilencedIsTrackedAlways` and `OnlyDiscoveryAddsAlways`.

`AdvertisementProofs`, first part: `Router`.  `NoneMissed` is inductive with the type
invariant: whatever takes a service out of one of the places where the router still has to look
puts it into another, finds what it exports, or gives it an excuse
(`OthersStep`, `ScanStep`, `RootReplyStep`, `DispatchStep`, on two lemmas about
the message queue).  `FiltersInStep` adds that the tap's sets are a function of
the registrations, from which `MakersReachRouterAlways` follows.  `MatchingIsExact`
is a lemma about the matching operators, by the kind of a path.

`AdvertisementProofs`, second part: `SensorFrames`, for every unit of
`MopekaAssumption`.  Whatever unit is at hand stays one of them
(`UnitTypeAlways`), and the invariants are facts about what is decoded from its frame
(`DecodedIs`).  What they compute is recursive; the recursive functions are unfolded with `Induction`,
induction over the naturals for a set of numbers, which is proved from their
well-foundedness and needs no operator as a parameter.  `BitsAdd` gives a
number as the sum of its bits and `BitsOfByte` its bits back, so the fields that
`Packed` writes are those `DataBit` and `Fives` unpack, across the bytes' borders
(`FieldsComeBack`, `PairsComeBack`).  `EchoIsTheStrongestAlways` follows from `WalkInv`,
which says after i pairs what the walk has summed up, that its best is the first of
the strongest so far, and how far it is from the last echo; `WalkStep` keeps it,
`TotalOfInterval` compares its sums with `TotalTime`.  For registers, `Join` and
`Piece` locate bytes in a frame put together from parts, `NumberIs` opens the
recursion of `Number`; `MopekaIsRead` reads five registers back from the frame
of every Mopeka.  `DistanceIs` carries them through the driver to what it leaves for
the publisher, which for a managed fluid (`ManagedScale`) is the extended time
times the scale; that is positive (`ScaleIsPositive`), and `LevelsInOrderAlways`
follows.  `WordIsRead` is about `LoadNumber` alone: any
register of two whole bytes of any frame is read back through two's complement, in
either byte order, with or without sign, unless the value is the register's marker.
`RuuviTemperatureIsRead` applies it to both Ruuvi formats and shows what the marker is worth
there: all 65,536 patterns are shown as temperatures, the one for "not
available" as -163.84 degrees.

`ChargerControlProofs`.  For a charger seen through its `Sight`, `Backed` says that
the polling flag stands for the writer's poll, that `/State` and the status are
those of who controls, and that types hold; `Served` that pending writes have their
timer or their session.  Neither is inductive alone: a handler may leave the slot
to another charger, so `Touched` says that a handler either leaves the writer as it
was or uses it only for its own charger, and only from a free slot.  One lemma per
operator (`MaybePollBacked`, `AfterWriteBacked`, `KickBacked`, `EnqueueBacked`, ...)
carries this through calls within calls up to a handler (`HandlerKept`), `Left`
turns it into a step of the system, and `NextStep` gives with the invariant also
the writer's step, from which `OneSessionAlways`, the refinement, follows.
`TypeCorrect` needs that the queue keeps at most one write of a register
(`Queues`; `PlaceEntry` for the replacement of a pending write, `TailQueue` for the
one taken out), that a pairing agent waits only for the device in the slot
(`WriterType`), and what the chargers' registers hold (`World`).
`EngagedAsToldAlways` is the second refinement.  The same lemmas say of every
outcome that it is `Steady`: it leaves engagement and paths alone; only a handler
of `/Link` moves them, as its setpoint or switch decides (`HandlerFace`,
`StoreFace`).  So a `SetValue` is a `Change` of `ControlPaths` or a stutter
(`SetValueFace`), a restart is its `Start`, and everything else stutters
(`TimerFace`, `FrameFace`, `DeliverFace`, `EnabledFace`).

`BmsLinkFollowerProofs`.  The invariant follows a call from the follower through
the queue to the service and back: a service told that a BMS is present is engaged
(`PresentEngages`), the call waited for is in the queue or answered (`Underway`), an
answer is about what the service then holds (`Acknowledged`), no release is in the
queue behind an engagement (`NoLateRelease`), the voltage has arrived when the
current is under way (`VoltageThere`), and what is remembered is there
(`Remembered`).  `HeldIsControlledAlways` and `CacheNeverLiesAlways` follow.
`TypeCorrect` adds that without limits only chargers the follower holds are on its
list (`OnlyHeld`).  For `EngagedAsToldAlways`, `StoredFace` takes a value stored in a
service to a change of `ControlPaths`, whether a queued call or the user's switch
brings it.

`KeySessionsProofs`.  `Sound` is the invariant of one driver's sight: its flags and
the writer agree, and a mistrusted key is not cached; each handler preserves it
and touches the slot only for itself.  The devices of one kind share a flag, so
the step to the system (`Left`) shows that a session of one does not disturb the
others of its kind.  `ReadingOK` says that a session has forms of request left as
long as it asks, and that one that ended well has read a key; with it
`TypeCorrect`, and `OneSessionAlways` from the step of the writer (`SessionStep`)
that every handler is shown to make.

`OrionRolesProofs`.  `InRole` relates the service, the list of entries and the flags,
whether or not the driver still counts the service as current; it is preserved by the swap as an operator (`SwappedInRole`), and
gives the handler (`AdvertisementInRole`) and with it `StaysPublishedAlways`, an
action property.  `ModeBusyBackedAlways` needs only the writer's slot (`SlotType`).
`TypeCorrect` follows the values from the unit through the publisher's cache to
the service (`Shown`, one lemma per operator of a frame's handling), next to the
slot (`SlotMore`) and the world (`World`); `OneSessionAlways` is the refinement.

`EasyStartProofs`.  `SessionInv`: the flag is up exactly for one coroutine or one
outcome, which is the last in the idle queue, and card of adapter and link are
own.  The lemmas on the queue say where outcomes may stand after an append and
after a tail.  `TypeCorrect` takes the parts of the state one by one, each with the
types it depends on; two of them are more than typing: the back-off stays between
its shortest and its longest value whatever the streak (`BackoffBounds`), and the
idle queue is empty whenever no session is active and whenever a role is being
resolved, and keeps within its bound, with room for one outcome (`QueueInv`, with
the library's `SequenceTheorems`).

Only model-checked: liveness (`ExclusiveInTheEnd`, `BackOnAir`, `EveryCardListens`,
`DeadTapRestarted`,
`DeviceIsHeard`, `ConfiguredComesBack`, `FoundInTheEnd`, `ServedInTheEnd`,
`LimitsArrive`, `KeyInTheEnd`, `PvWithdrawn`, `InSyncInTheEnd`, the two
`ShownInTheEnd`, `AlarmsSettle`, `ReadInTheEnd`), which needs fairness and ENABLED.  Every invariant and
every action property of the runs is proved.
Only proved, at no cost of a run: `ClaimKept`, `ThrottledHoldsNothing`, `RoleIsKnown`,
`SilencedIsTracked`, `MakersReachRouter`; what is read of a Mopeka, of any word and of
a Ruuvi's temperature; the type invariants of `ChargerControl`,
`BmsLinkFollower`, `KeySessions`, `OrionRoles` and `EasyStart`; `OneSession` of
`KeySessions` and `OrionRoles`; and `EngagedAsTold`.

## Not modelled

* The averages and thresholds of `load_throttle.py`: trip and release are actions
  that may come at any time, which includes every threshold.
* BlueZ's object tree, the framing of requests and the bytes of the monitor
  reports; the connection stacks `ble_catcher.py` and `ble_stack.py` select, which
  are other programs.
* VRM instances of role services, log throttling, the router's heartbeat and its
  routing by name prefix; deletion of devices and settings by the user.
* The settings of the rounding policy while they change; the deadband of values.
* Which register of a SmartSolar or SmartShunt fills which path; decryption and
  the vendored decoders.
* Platform notifications and bus set-up, command line tools, load forensics,
  scripts and installers, the manufacturer table: input and output, packaging and
  data.
