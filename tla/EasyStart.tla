------------------------------- MODULE EasyStart ------------------------------
(***************************************************************************)
(* A Micro-Air EasyStart (ble_device_easystart.py): identified by its      *)
(* advertised name, silent while its compressor is off, read over a GATT   *)
(* session that polls until the link drops.  With it the path of           *)
(* name-identified advertisements and the restoring of such devices at     *)
(* start-up in dbus_ble_sensors.py, and ble_async_loop.py, which runs the  *)
(* session on its thread and hands results back through the idle queue.    *)
(***************************************************************************)
EXTENDS Naturals, Sequences

CONSTANTS
  Card,        \* Bluetooth adapters, by identity
  Own,         \* those of the allowlist: the ones this service scans on
  Nowhere,     \* no card
  Edits,       \* bound on what users, the unit and the hardware do
  QueueBound   \* bound on the idle queue

MAX_POLL_FAILURES == 3
SHORT == 1             \* SESSION_COOLDOWN_S, the unit of time here: 30 s
LONG == 20             \* SESSION_COOLDOWN_MAX_S

\* What the unit does: it does not advertise; advertises and refuses the link;
\* takes the link and never answers a read; answers.
Unit == {"silent", "refuses", "mute", "answers"}
Outcome == {"ended", "dropped", "failed"}   \* dropped: before discovery
Stage == {"none", "resolving", "linked", "polling"}

ASSUME EasyStartAssumption ==
  /\ Own \subseteq Card /\ Nowhere \notin Card
  /\ Edits \in Nat /\ QueueBound \in Nat \ {0}

VARIABLES
  unit, cards,          \* the device, and the cards that are plugged in
  orphan,               \* the card of a link BlueZ keeps for a killed process
  discovery,            \* /Settings/BleSensors/ContinuousScan
  stored, enabled,      \* its settings: there are some, and acload/Enabled
  macSaved,             \* its address in _NAME_DEVICE_MACS_PATH
  running,              \* the process
  known, macKnown,      \* in _known_mac, and in _name_device_macs
  connected, shown,     \* its service, and the load it shows
  adapter,              \* _adapter_key
  active, stop,         \* _session_active, _stop_session
  reachable,            \* _reachable
  streak, cooldown,     \* _failure_streak; time until _cooldown_until
  loop,                 \* ble_async_loop: "down", "up", or "failed" for good
  stage, via, failures, \* the coroutine, the card of its link, its failed polls
  idle,                 \* GLib idle callbacks
  edits

world == <<unit, cards, orphan, discovery>>
settings == <<stored, enabled, macSaved>>
service == <<running, known, macKnown, connected, shown>>
driver == <<adapter, active, stop, reachable, streak, cooldown>>
session == <<loop, stage, via, failures>>
vars == <<world, settings, service, driver, session, idle, edits>>

Least(a, b) == IF a < b THEN a ELSE b

(***************************************************************************)
(* Advertisements.                                                         *)
(***************************************************************************)
\* Seeded fault: the card that heard it is not checked.
AllowedAny(c) == TRUE

\* _adapter_allowed: the tap also hears other processes' scans.
Allowed(c) == c \in Own

\* A linked unit does not advertise.  The tap's gate is open while discovering,
\* else for known addresses.
Heard == running /\ unit # "silent" /\ orphan = Nowhere /\ (discovery \/ macKnown)

\* _process_name_advertisement: adopt it or not; a handler follows.
Adopted == known \/ stored \/ discovery

\* Seeded fault: the address is cached and not saved.
CacheOnly == macKnown' = TRUE /\ UNCHANGED macSaved

\* _save_name_device_macs, on every change.
CacheAddress == macKnown' = TRUE /\ macSaved' = TRUE

\* Seeded fault: the flag is set before the loop is known to be there.
StartIfActive(l) == /\ active' = TRUE /\ loop' = l
                    /\ IF l = "up" THEN stage' = "resolving" ELSE UNCHANGED stage

\* start() is tried once; without a loop no session is begun.
StartIf(l) ==
  /\ loop' = l
  /\ IF l = "up" THEN active' = TRUE /\ stage' = "resolving"
                 ELSE UNCHANGED <<active, stage>>

StartSession ==
  /\ \E l \in (IF loop = "down" THEN {"up", "failed"} ELSE {loop}) :
       /\ StartIf(l)
       /\ stop' = IF l = "up" THEN FALSE ELSE stop
  /\ failures' = 0 /\ via' = Nowhere

\* handle_name_advertisement.
Advertisement(c) ==
  /\ Heard /\ c \in cards /\ Allowed(c) /\ Adopted
  /\ known' = TRUE /\ stored' = TRUE
  /\ CacheAddress
  /\ adapter' = c
  /\ connected' = (enabled \/ connected)
  /\ IF enabled /\ ~active /\ cooldown = 0
     THEN StartSession
     ELSE UNCHANGED <<session, active, stop>>
  /\ UNCHANGED <<world, running, enabled, shown, reachable, streak, cooldown, idle, edits>>

(***************************************************************************)
(* _run_session, on the BLE thread.                                        *)
(***************************************************************************)
\* The future settles and on_done is queued behind what the session published.
Settle(outcome) ==
  /\ stage' = "none" /\ via' = Nowhere
  /\ idle' = Append(idle, outcome)

\* _resolve_without_scanning: the card is looked up now, not when it heard.
Resolve ==
  /\ stage = "resolving"
  /\ IF unit \in {"mute", "answers"} /\ adapter \in cards
     THEN stage' = "linked" /\ via' = adapter /\ UNCHANGED idle
     ELSE Settle("failed")
  /\ UNCHANGED <<world, settings, service, driver, loop, failures, edits>>

Links(u, card, plugged) == u \in {"mute", "answers"} /\ card \in plugged
LinkUp == Links(unit, via, cards)

\* Notifications and the config block; a failed read does not end the session.
\* A link lost before the services are discovered is told from one lost later.
ReadConfig ==
  /\ stage = "linked" /\ Len(idle) < QueueBound
  /\ IF ~LinkUp THEN \E outcome \in {"dropped", "failed"} : Settle(outcome)
     ELSE /\ stage' = "polling" /\ UNCHANGED via
          /\ idle' \in {idle} \cup (IF unit = "answers" THEN {Append(idle, "config")} ELSE {})
  /\ UNCHANGED <<world, settings, service, driver, loop, failures, edits>>

\* One turn of the poll loop.
Poll ==
  /\ stage = "polling" /\ Len(idle) < QueueBound
  /\ IF stop \/ (LinkUp /\ unit = "mute" /\ failures + 1 = MAX_POLL_FAILURES)
     THEN Settle("ended") /\ UNCHANGED failures
     ELSE IF ~LinkUp THEN Settle("failed") /\ UNCHANGED failures
     ELSE /\ UNCHANGED <<stage, via>>
          /\ IF unit = "mute" THEN failures' = failures + 1 /\ UNCHANGED idle
             ELSE failures' = 0 /\ idle' = Append(idle, "live")
  /\ UNCHANGED <<world, settings, service, driver, loop, edits>>

(***************************************************************************)
(* The idle queue, on the GLib thread.                                     *)
(***************************************************************************)
\* _publish_target: a device disabled meanwhile has its session stopped.
Publish(load) ==
  /\ IF enabled
     THEN shown' = load /\ (reachable' = IF load = "load" THEN "yes" ELSE reachable)
          /\ UNCHANGED stop
     ELSE stop' = TRUE /\ UNCHANGED <<shown, reachable>>
  /\ UNCHANGED <<active, streak, cooldown>>

Backoff(n) == Least(SHORT * 2 ^ Least(n - 1, 5), LONG)

\* _publish_offline: 0 W, if the service is there to say so.
Offline ==
  IF connected THEN shown' = "zero" /\ reachable' = "no"
  ELSE UNCHANGED <<shown, reachable>>

\* _on_session_done: only a failure that gave no data backs off.  A streak of
\* six and a longer one have the same back-off.
SessionDone(outcome) ==
  /\ active' = FALSE
  /\ IF outcome \in {"ended", "dropped"} \/ reachable = "yes"
     THEN streak' = 0 /\ cooldown' = SHORT
     ELSE streak' = Least(streak + 1, 6) /\ cooldown' = Backoff(streak + 1)
  /\ Offline /\ UNCHANGED stop

Idle ==
  /\ idle # <<>> /\ idle' = Tail(idle)
  /\ CASE Head(idle) = "live" -> Publish("load")
       [] Head(idle) = "config" -> Publish(shown)
       [] OTHER -> SessionDone(Head(idle))
  /\ UNCHANGED <<world, settings, running, known, macKnown, connected, adapter, session,
                 edits>>

Tick ==
  /\ cooldown > 0 /\ cooldown' = cooldown - 1
  /\ UNCHANGED <<world, settings, service, adapter, active, stop, reachable, streak,
                 session, idle, edits>>

(***************************************************************************)
(* Users, the unit and the hardware; the process.                          *)
(***************************************************************************)
Edit == edits < Edits /\ edits' = edits + 1

LinkKept == orphan' = IF Links(unit', orphan, cards') THEN orphan ELSE Nowhere

UnitChanges ==
  /\ Edit /\ unit' \in Unit \ {unit} /\ UNCHANGED cards /\ LinkKept
  /\ UNCHANGED <<discovery, settings, service, driver, session, idle>>

CardChanges(c) ==
  /\ Edit /\ cards' = IF c \in cards THEN cards \ {c} ELSE cards \cup {c}
  /\ UNCHANGED unit /\ LinkKept
  /\ UNCHANGED <<discovery, settings, service, driver, session, idle>>

DiscoveryChanges ==
  /\ Edit /\ discovery' = ~discovery
  /\ UNCHANGED <<unit, cards, orphan, settings, service, driver, session, idle>>

\* on_enabled_changed; a device not yet adopted has no entry to edit.
OnEnabledChanged ==
  /\ known /\ Edit /\ enabled' = ~enabled /\ connected' = enabled'
  /\ UNCHANGED <<world, stored, macSaved, running, known, macKnown, shown, driver,
                 session, idle>>

\* The process is killed; bluetoothd keeps its link.
Killed ==
  /\ running /\ Edit
  /\ orphan' = IF LinkUp THEN via ELSE orphan
  /\ running' = FALSE /\ known' = FALSE /\ macKnown' = FALSE
  /\ connected' = FALSE /\ shown' = "nothing" /\ reachable' = "unknown"
  /\ adapter' = Nowhere /\ active' = FALSE /\ stop' = FALSE
  /\ streak' = 0 /\ cooldown' = 0
  /\ loop' = "down" /\ stage' = "none" /\ via' = Nowhere /\ failures' = 0
  /\ idle' = <<>>
  /\ UNCHANGED <<unit, cards, discovery, settings>>

\* Seeded fault: no sweep.
NotSwept == orphan

\* disconnect_stale_links, for the addresses this service knows: the claim of a
\* process that is gone is no claim.
Swept == IF macSaved THEN Nowhere ELSE orphan

\* _load_name_device_macs_static.
Loaded == macSaved

\* start: _restore_name_devices, which publishes the off-state of a service that
\* comes back, and the sweep, before the tap.
Start ==
  /\ ~running /\ running' = TRUE
  /\ known' = stored /\ macKnown' = Loaded
  /\ connected' = (stored /\ enabled)
  /\ IF connected' THEN shown' = "zero" /\ reachable' = "no"
                   ELSE UNCHANGED <<shown, reachable>>
  /\ orphan' = Swept
  /\ UNCHANGED <<unit, cards, discovery, settings, adapter, active, stop, streak,
                 cooldown, session, idle, edits>>

Init ==
  /\ unit \in Unit /\ cards = Card /\ orphan = Nowhere /\ discovery \in BOOLEAN
  /\ stored \in BOOLEAN /\ enabled \in (IF stored THEN BOOLEAN ELSE {FALSE})
  /\ macSaved = stored
  /\ running = FALSE /\ known = FALSE /\ macKnown = FALSE
  /\ connected = FALSE /\ shown = "nothing" /\ reachable = "unknown"
  /\ adapter = Nowhere /\ active = FALSE /\ stop = FALSE
  /\ streak = 0 /\ cooldown = 0
  /\ loop = "down" /\ stage = "none" /\ via = Nowhere /\ failures = 0
  /\ idle = <<>>
  /\ edits = 0

Session == Resolve \/ ReadConfig \/ Poll

Next ==
  \/ \E c \in Card : Advertisement(c)
  \/ Session \/ Idle \/ Tick
  \/ UnitChanges \/ DiscoveryChanges \/ OnEnabledChanged \/ Killed \/ Start
  \/ \E c \in Card : CardChanges(c)

Spec == Init /\ [][Next]_vars

\* A unit that is not silent keeps advertising, the main loop turns, time
\* passes, every await of the session has a timeout, and the supervisor restarts
\* the service.
FairSpec ==
  /\ Spec
  /\ WF_vars(\E c \in Card : Advertisement(c))
  /\ WF_vars(Start) /\ WF_vars(Session) /\ WF_vars(Idle) /\ WF_vars(Tick)

(***************************************************************************)
(* Properties.                                                             *)
(***************************************************************************)
\* Types; failed polls and the streak stay within their bounds.
TypeOK ==
  /\ unit \in Unit /\ cards \subseteq Card /\ orphan \in Card \cup {Nowhere}
  /\ discovery \in BOOLEAN
  /\ stored \in BOOLEAN /\ enabled \in BOOLEAN /\ macSaved \in BOOLEAN
  /\ running \in BOOLEAN /\ known \in BOOLEAN /\ macKnown \in BOOLEAN /\ connected \in BOOLEAN
  /\ shown \in {"nothing", "load", "zero"} /\ adapter \in Card \cup {Nowhere}
  /\ active \in BOOLEAN /\ stop \in BOOLEAN /\ reachable \in {"unknown", "yes", "no"}
  /\ streak \in 0..6 /\ cooldown \in 0..LONG
  /\ loop \in {"down", "up", "failed"} /\ stage \in Stage
  /\ via \in Card \cup {Nowhere} /\ failures \in 0..(MAX_POLL_FAILURES - 1)
  /\ idle \in Seq({"live", "config"} \cup Outcome) /\ Len(idle) <= QueueBound + 1
  /\ edits \in 0..Edits

\* "Link placement follows our own cards only": whatever other processes scan
\* on, and whichever card heard the unit while the session was being set up,
\* the link is opened on a card of the allowlist.
LinkOnOwnCard == via \in Own \cup {Nowhere}

\* _session_active stands for one coroutine or for one result on its way
\* through the idle queue, and nothing of an earlier session is behind it: the
\* pruning spares the device, and refuses it a second session, just that long.
ActiveBacked ==
  LET Ends == {i \in DOMAIN idle : idle[i] \in Outcome}
  IN  /\ active <=> stage # "none" \/ Ends # {}
      /\ Ends # {} => stage = "none" /\ Ends = {Len(idle)}

\* Once things settle, a unit that answers on a card of ours shows its load, and
\* one that advertises and does not answer shows 0 W: through failed sessions,
\* back-offs, restarts that leave a link nobody holds, and an address that must
\* be known for it to be heard.
ShownInTheEnd ==
  <>[](running /\ connected /\ loop # "failed" /\ cards \cap Own # {} =>
         /\ unit = "answers" => shown = "load"
         /\ unit \in {"refuses", "mute"} => shown = "zero")

===============================================================================
