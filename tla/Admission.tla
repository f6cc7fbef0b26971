------------------------------- MODULE Admission -------------------------------
(***************************************************************************)
(* Device admission in dbus-ble-sensors-py: which advertisers the tap      *)
(* thread drops before parsing, which reach the main loop, which of those  *)
(* become devices, and which are silenced (dbus_ble_sensors.py with the    *)
(* gates of hci_advertisement_tap.py, the settings bridge of               *)
(* dbus_ble_service.py and the registrations of                            *)
(* ble_advertisement_router.py).                                           *)
(*                                                                         *)
(* Two threads meet here.  The tap thread reads the four sets tapIgnored,  *)
(* gate, tapDisabled and seen that the main loop keeps for it, and hands   *)
(* frames over through the GLib idle queue; a frame is judged by the main  *)
(* loop as it finds things when the frame comes up, not as they were when  *)
(* the tap let it through.                                                 *)
(*                                                                         *)
(* Devices identified by name, payload deduplication and the kernel filter *)
(* are not part of this module.                                            *)
(***************************************************************************)
EXTENDS Naturals, Sequences

CONSTANTS
  Mac,         \* advertisers identified by their address
  Item,        \* what one manufacturer record of a frame can be, see ItemType
  KnownTTL,    \* DEVICE_SERVICES_TIMEOUT in prune ticks
  IgnoredTTL,  \* IGNORED_DEVICES_TIMEOUT in prune ticks
  QueueBound   \* frames waiting in the idle queue at once: a bound of the model

\* A record fits a device class, has one that rejects its payload (alien), one
\* whose instance fails to configure (invalid) or to initialise after it wrote
\* settings (halfway), or none.  Its manufacturer and product may be registered
\* by an external service.
ItemType ==
  [class : {"fits", "alien", "invalid", "halfway", "none"}, external : BOOLEAN]

ASSUME ItemAssumption == Item \subseteq ItemType
ASSUME BoundAssumption ==
  KnownTTL \in Nat \ {0} /\ IgnoredTTL \in Nat \ {0} /\ QueueBound \in Nat \ {0}

VARIABLES
  stored,       \* MACs with an entry under /Settings/Devices
  wanted,       \* the setting ContinuousScan, in com.victronenergy.settings
  enabled,      \* MACs whose setting Enabled is 1
  up,           \* the process is running
  discovery,    \* the item /ContinuousScan of our own service
  shown,        \* MACs whose item /Devices/.../Enabled is 1
  notices,      \* settings whose change signal is on its way to us
  configured,   \* _configured_macs
  known,        \* _known_mac: prune ticks left, 0 is absent
  ignored,      \* _ignored_mac: prune ticks left, 0 is absent
  tapIgnored,   \* _tap_ignored_macs
  tapDisabled,  \* _tap_disabled_macs
  gate,         \* _tap_known_macs; empty means open
  seen,         \* _tap_seen_macs
  queue,        \* GLib idle callbacks: frames on their way to the main loop
  registered,   \* addresses external services registered
  makers,       \* an external service registered a manufacturer or a product
  tap,          \* no tap thread, a live one, a dead one
  throttled     \* _throttled

settings == <<stored, wanted, enabled>>
items == <<discovery, shown, notices>>
devices == <<configured, known, ignored>>
filters == <<tapIgnored, tapDisabled, gate>>
router == <<registered, makers>>
vars == <<settings, up, items, devices, filters, seen, queue, router, tap, throttled>>

DiscoverySetting == "ContinuousScan"
ASSUME MacAssumption == DiscoverySetting \notin Mac
Present(d) == {m \in Mac : d[m] > 0}
Absent == [m \in Mac |-> 0]

(***************************************************************************)
(* The tap's pre-walk gate, recomputed by _refresh_tap_known_macs.         *)
(***************************************************************************)
\* Seeded fault: registered addresses are left out.
GateConfiguredOnly(on, conf, addresses, any) == IF on \/ any THEN {} ELSE conf

Gate(on, conf, addresses, any) == IF on \/ any THEN {} ELSE conf \cup addresses

GatePasses(m) == gate = {} \/ m \in gate

(***************************************************************************)
(* The tap thread.  A frame of up to two manufacturer records passes       *)
(* the ignore set, then the gate, then the manufacturer filter; what is    *)
(* left writes presence and, unless the device is disabled, crosses to the *)
(* main loop.                                                              *)
(***************************************************************************)
Frame == [from : Mac, records : {<<i>> : i \in Item} \cup (Item \X Item)]

Filterable(i) == i.class # "none" \/ makers

Hear(f) ==
  /\ up /\ tap = "running"
  /\ f.from \notin tapIgnored
  /\ GatePasses(f.from)
  /\ \A n \in DOMAIN f.records : Filterable(f.records[n])
  /\ seen' = seen \cup {f.from}
  /\ \/ /\ f.from \in tapDisabled
        /\ UNCHANGED queue
     \/ /\ f.from \notin tapDisabled
        /\ Len(queue) < QueueBound
        /\ queue' = Append(queue, f)
  /\ UNCHANGED <<settings, up, items, devices, filters, router, tap, throttled>>

(***************************************************************************)
(* _process_advertisement, on the main loop.                               *)
(***************************************************************************)
Routed(m, i) == m \in registered \/ (makers /\ i.external)

\* _should_silence_mac.  Seeded fault: configured gear is silenced as well.
ShouldSilenceAnyone(m, routed, conf) == ~routed

ShouldSilence(m, routed, conf) == ~routed /\ m \notin conf

\* Seeded fault: the gate asks whether the tap let the frame through.
MayAdoptIfHeard(m, conf) == m \in conf \/ GatePasses(m)

MayAdopt(m, conf) == m \in conf \/ discovery

\* What becomes of an unknown advertiser on account of one record.
Verdict(m, i, conf) ==
  IF i.class # "none" /\ ~MayAdopt(m, conf) THEN "silence"
  ELSE IF i.class = "fits" THEN "adopt"
  ELSE IF i.class = "alien"
    THEN IF ShouldSilence(m, Routed(m, i), conf) THEN "silence" ELSE "pass"
  ELSE IF Routed(m, i) THEN "pass" ELSE "silence"

\* The part of the state that a frame can change.
Ledger == [conf : SUBSET Mac, store : SUBSET Mac, shown : SUBSET Mac,
           known : [Mac -> 0..KnownTTL], ignored : [Mac -> 0..IgnoredTTL],
           silent : SUBSET Mac, off : SUBSET Mac, gate : SUBSET Mac]

Adopt(s, m) ==
  [s EXCEPT
     !.conf = @ \cup {m},
     !.store = @ \cup {m},
     !.shown = (@ \ {m}) \cup (enabled \cap {m}),
     !.known[m] = KnownTTL,
     !.off = (@ \ {m}) \cup ({m} \ enabled),
     !.gate = Gate(discovery, s.conf \cup {m}, registered, makers)]

Silence(s, m) == [s EXCEPT !.ignored[m] = IgnoredTTL, !.silent = @ \cup {m}]

Handle(s, m, i) ==
  IF s.known[m] > 0 THEN [s EXCEPT !.known[m] = KnownTTL]
  ELSE LET verdict == Verdict(m, i, s.conf)
           tried == IF i.class = "halfway" /\ MayAdopt(m, s.conf)
                      THEN [s EXCEPT !.store = @ \cup {m}] ELSE s
       IN IF verdict = "adopt" THEN Adopt(s, m)
          ELSE IF verdict = "silence" THEN Silence(tried, m)
          ELSE tried

Current == [conf |-> configured, store |-> stored, shown |-> shown,
            known |-> known, ignored |-> ignored,
            silent |-> tapIgnored, off |-> tapDisabled, gate |-> gate]

\* An ignored advertiser is dropped unless it is a known device; looking it up
\* restarts the clock of its entry.
Recovered(s, m) == [s EXCEPT !.ignored[m] = 0, !.known[m] = KnownTTL]
Touched(s, m) == [s EXCEPT !.ignored[m] = IgnoredTTL]

Processed(f) ==
  LET m == f.from
      start == IF ignored[m] > 0 THEN Recovered(Current, m) ELSE Current
      one == Handle(start, m, f.records[1])
  IN IF ignored[m] > 0 /\ known[m] = 0 THEN Touched(Current, m)
     ELSE IF Len(f.records) = 1 THEN one
     ELSE Handle(one, m, f.records[2])

Process ==
  /\ up /\ queue # <<>>
  /\ queue' = Tail(queue)
  /\ LET s == Processed(Head(queue))
     IN /\ configured' = s.conf
        /\ stored' = s.store
        /\ shown' = s.shown
        /\ known' = s.known
        /\ ignored' = s.ignored
        /\ tapIgnored' = s.silent
        /\ tapDisabled' = s.off
        /\ gate' = s.gate
  /\ UNCHANGED <<wanted, enabled, up, discovery, notices, seen, router, tap, throttled>>

(***************************************************************************)
(* The settings.  The GUI writes either to com.victronenergy.settings,     *)
(* whose change signal updates our item and then calls back, or to our own *)
(* item: then the callback runs before the item has its new value, and the *)
(* signal of the settings service follows.                                 *)
(***************************************************************************)
\* _on_continuous_scan_changed, when the item reads on.
GateAfterToggle(on) ==
  IF throttled THEN gate ELSE Gate(on, configured, registered, makers)

SetDiscovery ==
  /\ DiscoverySetting \notin notices
  /\ wanted' = ~wanted
  /\ IF up
       THEN /\ notices' = notices \cup {DiscoverySetting}
            /\ UNCHANGED discovery
       ELSE UNCHANGED <<discovery, notices>>
  /\ UNCHANGED <<stored, enabled, up, shown, devices, filters, seen, queue, router, tap, throttled>>

SetDiscoveryHere ==
  /\ up /\ DiscoverySetting \notin notices
  /\ wanted' = ~wanted
  /\ discovery' = ~wanted
  /\ gate' = GateAfterToggle(discovery)
  /\ notices' = notices \cup {DiscoverySetting}
  /\ UNCHANGED <<stored, enabled, up, shown, devices, tapIgnored, tapDisabled,
                 seen, queue, router, tap, throttled>>

DiscoverySignal ==
  /\ up /\ DiscoverySetting \in notices
  /\ discovery' = wanted
  /\ gate' = GateAfterToggle(wanted)
  /\ notices' = notices \ {DiscoverySetting}
  /\ UNCHANGED <<settings, up, shown, devices, tapIgnored, tapDisabled, seen, queue,
                 router, tap, throttled>>

\* _refresh_tap_disabled, which reads the items and not the new value.
\* Seeded fault: it only ever adds to the set.
DisabledAfterFlipAdds(m, on) == tapDisabled \cup ({m} \ on)

DisabledAfterFlip(m, on) == (tapDisabled \ {m}) \cup ({m} \ on)

Flipped(S, m) == (S \ {m}) \cup ({m} \ S)

SetEnabled(m) ==
  /\ m \in stored /\ m \notin notices
  /\ enabled' = Flipped(enabled, m)
  /\ notices' = IF known[m] > 0 THEN notices \cup {m} ELSE notices
  /\ UNCHANGED <<stored, wanted, up, discovery, shown, devices, filters, seen, queue,
                 router, tap, throttled>>

SetEnabledHere(m) ==
  /\ up /\ known[m] > 0 /\ m \notin notices
  /\ enabled' = Flipped(enabled, m)
  /\ tapDisabled' = DisabledAfterFlip(m, shown)
  /\ shown' = (shown \ {m}) \cup (enabled' \cap {m})
  /\ notices' = notices \cup {m}
  /\ UNCHANGED <<stored, wanted, up, discovery, devices, tapIgnored, gate, seen, queue,
                 router, tap, throttled>>

EnabledSignal(m) ==
  /\ up /\ m \in notices
  /\ shown' = (shown \ {m}) \cup (enabled \cap {m})
  /\ tapDisabled' = DisabledAfterFlip(m, shown')
  /\ notices' = notices \ {m}
  /\ UNCHANGED <<settings, up, discovery, devices, tapIgnored, gate, seen, queue,
                 router, tap, throttled>>

(***************************************************************************)
(* The router reports a change of its registrations, and                   *)
(* _on_registrations_changed lifts the silence of registered addresses.    *)
(***************************************************************************)

Unsilenced(addresses) == tapIgnored \ (addresses \cap Present(ignored))

RegistrationsChanged(addresses, any) ==
  /\ up
  /\ registered' = addresses /\ makers' = any
  /\ gate' = Gate(discovery, configured, addresses, any)
  /\ ignored' = [m \in Mac |-> IF m \in addresses THEN 0 ELSE ignored[m]]
  /\ tapIgnored' = Unsilenced(addresses)
  /\ UNCHANGED <<settings, up, items, configured, known, tapDisabled, seen, queue, tap, throttled>>

(***************************************************************************)
(* The cache part of _prune_tick.  Time is counted in these ticks.  The    *)
(* test that decides which addresses stay silenced looks them up, and a    *)
(* look-up restarts their clock.                                           *)
(***************************************************************************)
\* Seeded fault: an entry that has run out counts on.
AgedPastZero(d, refreshed, ttl) ==
  [m \in Mac |-> IF m \in refreshed THEN ttl ELSE d[m] - 1]

Aged(d, refreshed, ttl) ==
  [m \in Mac |-> IF d[m] = 0 THEN 0 ELSE IF m \in refreshed THEN ttl ELSE d[m] - 1]

Refreshed(d, ms, ttl) == [m \in Mac |-> IF m \in ms /\ d[m] > 0 THEN ttl ELSE d[m]]

\* Seeded fault: a silenced address that became a device is not let go.
StillSilentUntilExpiry(left, alive) == tapIgnored \cap left

StillSilent(left, alive) == (tapIgnored \cap left) \ alive

StartTap(thread) ==
  \/ tap' = thread /\ UNCHANGED gate
  \/ tap' = "running" /\ gate' = Gate(discovery, configured, registered, makers)

PruneTick ==
  /\ up
  /\ LET aged == Aged(known, seen, KnownTTL)
         left == Aged(ignored, {}, IgnoredTTL)
         looked == tapIgnored \cap Present(left)
     IN /\ known' = Refreshed(aged, looked, KnownTTL)
        /\ ignored' = Refreshed(left, looked, IgnoredTTL)
        /\ tapDisabled' = tapDisabled \cap Present(aged)
        /\ tapIgnored' = StillSilent(Present(left), Present(aged))
        /\ shown' = shown \cap Present(aged)
        /\ notices' = notices \ (Mac \ Present(aged))
  /\ IF tap = "dead" /\ ~throttled THEN StartTap("none") ELSE UNCHANGED <<tap, gate>>
  /\ UNCHANGED <<settings, up, discovery, configured, seen, queue, router, throttled>>

(***************************************************************************)
(* The tap's life and the process.                                         *)
(***************************************************************************)
TapDies ==
  /\ up /\ tap = "running"
  /\ tap' = "dead"
  /\ UNCHANGED <<settings, up, items, devices, filters, seen, queue, router, throttled>>

LoadTrip ==
  /\ up /\ ~throttled
  /\ throttled' = TRUE /\ tap' = "none"
  /\ UNCHANGED <<settings, up, items, devices, filters, seen, queue, router>>

LoadRelease ==
  /\ up /\ throttled
  /\ throttled' = FALSE
  /\ StartTap(tap)
  /\ UNCHANGED <<settings, up, items, devices, tapIgnored, tapDisabled, seen, queue, router>>

FreshProcess ==
  /\ shown' = {} /\ notices' = {}
  /\ known' = Absent /\ ignored' = Absent
  /\ tapIgnored' = {} /\ tapDisabled' = {}
  /\ seen' = {} /\ queue' = <<>>
  /\ registered' = {} /\ makers' = FALSE /\ throttled' = FALSE

Start ==
  /\ ~up /\ up' = TRUE
  /\ FreshProcess
  /\ configured' = stored /\ discovery' = wanted
  /\ \/ tap' = "none" /\ gate' = {}
     \/ tap' = "running" /\ gate' = Gate(wanted, stored, {}, FALSE)
  /\ UNCHANGED settings

Exit ==
  /\ up /\ up' = FALSE
  /\ FreshProcess
  /\ configured' = {} /\ discovery' = FALSE /\ tap' = "none" /\ gate' = {}
  /\ UNCHANGED settings

Init ==
  /\ stored \in SUBSET Mac /\ wanted \in BOOLEAN /\ enabled \in SUBSET stored
  /\ up = FALSE /\ discovery = FALSE /\ shown = {} /\ notices = {}
  /\ configured = {} /\ known = Absent /\ ignored = Absent
  /\ tapIgnored = {} /\ tapDisabled = {} /\ gate = {}
  /\ seen = {} /\ queue = <<>> /\ registered = {} /\ makers = FALSE
  /\ tap = "none" /\ throttled = FALSE

Next ==
  \/ \E f \in Frame : Hear(f)
  \/ Process
  \/ SetDiscovery \/ SetDiscoveryHere \/ DiscoverySignal
  \/ \E m \in Mac : SetEnabled(m) \/ SetEnabledHere(m) \/ EnabledSignal(m)
  \/ \E addresses \in SUBSET Mac, any \in BOOLEAN : RegistrationsChanged(addresses, any)
  \/ PruneTick \/ TapDies \/ LoadTrip \/ LoadRelease
  \/ Start \/ Exit

Spec == Init /\ [][Next]_vars

(***************************************************************************)
(* Fairness.  The prune timer keeps firing and the idle queue is served.   *)
(* For the properties about devices that are on the air: a device repeats  *)
(* its readable frame, so whenever the tap would let that frame through    *)
(* again and again it does so at some time.                                *)
(***************************************************************************)
Readable(m) == [from |-> m, records |-> <<[class |-> "fits", external |-> FALSE]>>]

Fairness == WF_vars(PruneTick) /\ WF_vars(Process)
OnAir == \A m \in Mac : SF_vars(Hear(Readable(m)))

FairSpec == Spec /\ Fairness
OnAirSpec == FairSpec /\ OnAir

(***************************************************************************)
(* Properties                                                              *)
(***************************************************************************)

\* Type invariant: the tap's sets hold addresses, the two dated dictionaries
\* count down from their time to live, queued frames are frames.
TypeOK ==
  /\ stored \in SUBSET Mac /\ enabled \in SUBSET Mac /\ shown \in SUBSET Mac
  /\ wanted \in BOOLEAN /\ up \in BOOLEAN /\ discovery \in BOOLEAN
  /\ notices \in SUBSET (Mac \cup {DiscoverySetting})
  /\ configured \in SUBSET Mac
  /\ known \in [Mac -> 0..KnownTTL] /\ ignored \in [Mac -> 0..IgnoredTTL]
  /\ tapIgnored \in SUBSET Mac /\ tapDisabled \in SUBSET Mac
  /\ gate \in SUBSET Mac /\ seen \in SUBSET Mac
  /\ queue \in Seq(Frame) /\ Len(queue) <= QueueBound
  /\ registered \in SUBSET Mac /\ makers \in BOOLEAN
  /\ tap \in {"none", "running", "dead"} /\ throttled \in BOOLEAN

\* "Drops it before the AD walk -- but only if we can prove it is a stranger":
\* while the tap runs, an address it drops unseen is neither configured nor
\* registered, and adoption is closed.  The settings bridge may lag behind a
\* write to our own item until the change signal arrives, and no longer, even
\* when the toggle happens while the throttle has the tap down.
GateIsSafe ==
  tap = "running" /\ DiscoverySetting \notin notices
    => \/ gate = {}
       \/ ~discovery /\ ~makers /\ configured \cup registered \subseteq gate

\* "With Continuous scanning OFF we adopt nothing new": settings gain a device
\* only while discovery is on, whatever was queued before it was turned off,
\* and also when an initialisation fails half way.
OnlyDiscoveryAdds == [][stored' \subseteq stored \/ discovery]_vars

\* A device is skipped at the tap exactly when it is known and its Enabled
\* setting is 0, except while the change signal is on its way: an enabled
\* device is never starved and a disabled one does not cross to the main loop.
DisabledInStep ==
  \A m \in Mac \ notices : m \in tapDisabled <=> known[m] > 0 /\ m \notin enabled

\* An address silenced at the tap has an entry in _ignored_mac, where a new
\* registration looks for it, or is a known device: none is silenced and
\* forgotten.
SilencedIsTracked == tapIgnored \subseteq Present(ignored) \cup Present(known)

\* A device adopted from a frame whose first record had it silenced is heard
\* again: the prune tick lets it go.
DeviceIsHeard ==
  \A m \in Mac : known[m] > 0 /\ m \in tapIgnored ~> m \notin tapIgnored

\* "Turning discovery off never blinds us to our own gear": a configured device
\* that is on the air becomes a device, after every restart and although a
\* frame of another format may come first.
ConfiguredComesBack ==
  \A m \in Mac :
    <>[](up /\ tap = "running" /\ m \in configured) => []<>(known[m] > 0)

=============================================================================
