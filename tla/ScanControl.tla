----------------------------- MODULE ScanControl -----------------------------
(***************************************************************************)
(* Scan control of dbus-ble-sensors-py (dbus_ble_sensors.py together with  *)
(* hci_scan_control.py, scan_claims.py and load_throttle.py): which        *)
(* Bluetooth card listens, who has been told about it, and what happens    *)
(* when BlueZ adds or removes cards, other services reset a controller,    *)
(* the load throttle trips, HCI commands fail and the tap thread dies.     *)
(*                                                                         *)
(* Every action except those of the environment is one callback of the     *)
(* GLib main loop, so callbacks are atomic with respect to each other.     *)
(* The cards are the identity keys of _adapters; the rotation visits them  *)
(* in sorted order, which is the order of the numbers that stand for them. *)
(***************************************************************************)
EXTENDS Naturals, FiniteSets

CONSTANTS
  Card,             \* cards the adapter allow-list lets the service use
  Contested,        \* cards that another BLE service may claim as well
  NoCard,           \* None, as a value of _scan_active_key
  EnableOutcomes,   \* how hci_scan_control.enable_scan may end
  DisableOutcomes,  \* how hci_scan_control.disable_passive_scan may end
  TapOutcomes,      \* how create_tap_socket may end
  ClaimsMayFail,    \* whether taking a claim may end without one
  CanExit           \* whether the process may be stopped and started again

Outcome == {"ok", "fail", "raise"}
TimerName == {"prune", "reenable", "rotation"}

\* What _scan_claims has of a card.  "failed" is "none" to the code: the last
\* hold() of the card ended without a claim.
ClaimKind == {"none", "failed", "soft", "hard"}

ASSUME CardAssumption ==
  Card \subseteq Nat /\ NoCard \notin Card /\ Contested \subseteq Card
ASSUME OutcomeAssumption ==
  /\ EnableOutcomes \in SUBSET Outcome
  /\ DisableOutcomes \in SUBSET Outcome
  /\ TapOutcomes \in SUBSET {"ok", "fail"}
  /\ ClaimsMayFail \in BOOLEAN
  /\ CanExit \in BOOLEAN

VARIABLES
  up,         \* the process is running
  present,    \* cards that adapter_identity.index_for resolves to an hciN
  rivals,     \* cards whose hard claim a live process other than this one holds
  scanning,   \* cards whose controller is in LE scan
  adapters,   \* keys of _adapters
  active,     \* _scan_active_key
  enabled,    \* _scan_enabled_adapters, the "scan is enabled" markers
  claims,     \* the claim _scan_claims has of each card
  throttled,  \* _throttled, here and in LoadThrottle
  tap,        \* _tap_thread: no thread object, a live one, a dead one
  rx,         \* _last_tap_rx: never set, recent, older than the silence limit
  warned,     \* _silence_warned
  timers      \* GLib timeout sources that still fire

env == <<up, present, rivals>>
radio == <<active, scanning, enabled, claims>>
listener == <<tap, rx, warned>>
vars == <<env, adapters, throttled, timers, radio, listener>>

(***************************************************************************)
(* HCI commands.  A reply says how the call ended and whether the card     *)
(* scans afterwards.  A call that does not end well may still have taken   *)
(* effect: enable_scan disables before it sets parameters, and a command   *)
(* whose Command Complete is lost was nevertheless executed.               *)
(***************************************************************************)
Reply == [res : EnableOutcomes \cup DisableOutcomes \cup {"fail"}, on : BOOLEAN]
Answers(outcomes, on) == {[res |-> r, on |-> on] : r \in outcomes}

EnableReply(c) ==
  Answers(EnableOutcomes \ {"ok"}, FALSE)
    \cup Answers(EnableOutcomes \ (IF c \in scanning THEN {} ELSE {"fail"}), TRUE)

DisableReply(c) ==
  Answers(DisableOutcomes, FALSE)
    \cup Answers(IF c \in scanning THEN DisableOutcomes \ {"ok"} ELSE {}, TRUE)

\* index_for found no hciN for the card: no command is sent and the caller
\* skips the card as it does one whose command failed.
AbsentReply(c) == {[res |-> "fail", on |-> c \in scanning]}

ReplyFor(c, listen) ==
  IF c \notin present THEN AbsentReply(c)
  ELSE IF listen THEN EnableReply(c) ELSE DisableReply(c)

Replies(cards, role) ==
  {rep \in [cards -> UNION {ReplyFor(c, c = role) : c \in cards}] :
     \A c \in cards : rep[c] \in ReplyFor(c, c = role)}

(***************************************************************************)
(* _apply_rotation and its two helpers, _start_passive_scan for the card   *)
(* that takes the role and _stop_scan_on for the others.  An exception out *)
(* of a helper ends the loop: the cards after that one are not visited.    *)
(***************************************************************************)
First(S) == CHOOSE c \in S : \A d \in S : c <= d
After(cards, c) == {d \in cards : d > c}

\* Seeded faults: advance by one without wrapping; skip back to the first.
NextCardUnwrapped(cards, c) == c + 1
NextCardPingPong(cards, c) == IF cards = {c} THEN c ELSE First(cards \ {c})

NextCard(cards, c) ==
  IF After(cards, c) = {} THEN First(cards) ELSE First(After(cards, c))

RoleHolder(cards, from, advance) ==
  IF from \notin cards THEN First(cards)
  ELSE IF advance THEN NextCard(cards, from) ELSE from

Visited(cards, rep) ==
  {c \in cards : \A d \in cards : d < c => rep[d].res # "raise"}

Succeeded(cards, rep) == {c \in Visited(cards, rep) : rep[c].res = "ok"}

ScanningAfter(cards, rep, on) ==
  {c \in on : c \notin cards} \cup {c \in cards : rep[c].on}

(***************************************************************************)
(* ScanClaims.  hold(exclusive=True) returns at once for a hard claim.  A  *)
(* soft one, the fallback for a card somebody else has claimed, is         *)
(* released and the card claimed anew, which may fail: claim_hard or       *)
(* claim_soft raises or gives nothing.  Without a claims layer no card     *)
(* gets a claim; a claim manager, once there, stays.                       *)
(***************************************************************************)
\* Seeded faults: a card that is claimed at all is left as it is; no fallback
\* where another process has the card.
SettledOnce(kind) == kind \in {"soft", "hard"}
ClaimedOrYielded(c) == IF c \in rivals THEN "none" ELSE "hard"

Settled(kind) == kind = "hard"
Claimed(c) == IF c \in rivals THEN "soft" ELSE "hard"

Unsettled(held, done) == {c \in done : ~Settled(held[c])}

ClaimsAfter(held, done) ==
  {[c \in Card |-> IF c \notin Unsettled(held, done) THEN held[c]
                   ELSE IF c \in failed THEN "failed" ELSE Claimed(c)]
     : failed \in IF ClaimsMayFail THEN SUBSET Unsettled(held, done) ELSE {{}}}

Released(held, c) == [held EXCEPT ![c] = "none"]
NoClaims == [c \in Card |-> "none"]

RotationResults(cards, role, rep, on, marked, held) ==
  LET done == Succeeded(cards, rep)
  IN {[active |-> role,
       scanning |-> ScanningAfter(Visited(cards, rep), rep, on),
       enabled |-> (marked \ (done \ {role})) \cup (done \cap {role}),
       claims |-> k,
       raised |-> \E c \in cards : rep[c].res = "raise"] : k \in ClaimsAfter(held, done)}

Unchanged(role, on, marked, held) ==
  [active |-> role, scanning |-> on, enabled |-> marked, claims |-> held,
   raised |-> FALSE]

Rotations(cards, from, advance, on, marked, held) ==
  IF cards = {} THEN {Unchanged(NoCard, on, marked, held)}
  ELSE LET role == RoleHolder(cards, from, advance)
       IN UNION {RotationResults(cards, role, rep, on, marked, held)
                   : rep \in Replies(cards, role)}

Become(o) ==
  /\ active' = o.active
  /\ scanning' = o.scanning
  /\ enabled' = o.enabled
  /\ claims' = o.claims

\* PyGObject removes a timeout source whose callback raises.
TimersAfter(t, raised) == IF raised THEN timers \ {t} ELSE timers

RotationTick ==
  /\ up /\ "rotation" \in timers
  /\ ~throttled
  /\ UNCHANGED <<env, adapters, throttled, listener>>
  /\ \E o \in Rotations(adapters, active, TRUE, scanning, enabled, claims) :
       /\ Become(o)
       /\ timers' = TimersAfter("rotation", o.raised)

(***************************************************************************)
(* BlueZ signals.  InterfacesAdded is handled for a card that answers the  *)
(* Address property; a card already known under another hciN is renamed    *)
(* and the rotation re-applied.  An exception in a D-Bus signal handler is *)
(* logged by dbus-python and otherwise lost.                               *)
(***************************************************************************)

MayRotate == ~throttled

InterfacesAdded(c) ==
  /\ up /\ c \in present
  /\ adapters' = adapters \cup {c}
  /\ IF MayRotate
       THEN \E o \in Rotations(adapters', active, FALSE, scanning, enabled, claims) : Become(o)
       ELSE UNCHANGED radio
  /\ UNCHANGED <<env, throttled, timers, listener>>

Forget(S, c) == S \ {c}

RoleAfterRemoval(c) == IF active = c THEN NoCard ELSE active

InterfacesRemoved(c) ==
  /\ up /\ c \in adapters
  /\ adapters' = Forget(adapters, c)
  /\ \E r \in ReplyFor(c, FALSE) :
       LET on == IF r.on THEN scanning ELSE scanning \ {c}
           role == RoleAfterRemoval(c)
           marked == Forget(enabled, c)
           held == Released(claims, c)
       IN IF role = active \/ ~MayRotate
            THEN Become(Unchanged(role, on, marked, held))
            ELSE \E o \in Rotations(adapters', role, FALSE, on, marked, held) : Become(o)
  /\ UNCHANGED <<env, throttled, timers, listener>>

(***************************************************************************)
(* _scan_reenable_tick, called by its timer and by the ContinuousScan      *)
(* setting.  Only the card that holds the role is re-enabled.              *)
(***************************************************************************)
\* Seeded faults: every known card (as the docstring still says); only a card
\* that has its marker, so that a card whose enable failed is not tried again.
ReenableCardsAll == adapters
ReenableCardsMarked == adapters \cap {active} \cap enabled

ReenableCards == adapters \cap {active}

ReenableResults(rep) ==
  LET done == {c \in ReenableCards : rep[c].res = "ok"}
  IN {[active |-> active,
       scanning |-> ScanningAfter(ReenableCards, rep, scanning),
       enabled |-> enabled \cup done,
       claims |-> k,
       raised |-> \E c \in ReenableCards : rep[c].res = "raise"]
        : k \in ClaimsAfter(claims, done)}

Reenables ==
  UNION {ReenableResults(rep)
           : rep \in {f \in [ReenableCards -> Reply] :
                        \A c \in ReenableCards : f[c] \in ReplyFor(c, TRUE)}}

ReenableTick ==
  /\ up /\ "reenable" \in timers
  /\ ~throttled
  /\ UNCHANGED <<env, adapters, throttled, listener>>
  /\ \E o \in Reenables :
       /\ Become(o)
       /\ timers' = TimersAfter("reenable", o.raised)

\* The exception, if any, ends in the settings callback, not in a timer.
ContinuousScanChanged ==
  /\ up /\ ~throttled
  /\ \E o \in Reenables : Become(o)
  /\ UNCHANGED <<env, adapters, throttled, timers, listener>>

(***************************************************************************)
(* The tap.  _start_tap leaves everything as it was when the monitor       *)
(* socket cannot be opened.                                                *)
(***************************************************************************)
TapStarts(thread) ==
  {[tap |-> IF res = "ok" THEN "running" ELSE thread,
    rx |-> IF res = "ok" THEN "recent" ELSE rx] : res \in TapOutcomes}

TapFrame ==
  /\ up /\ tap = "running"
  /\ adapters = {} \/ scanning \cap adapters # {}
  /\ rx' = "recent"
  /\ warned' = FALSE
  /\ UNCHANGED <<env, adapters, throttled, timers, radio, tap>>

TapDies ==
  /\ up /\ tap = "running"
  /\ tap' = "dead"
  /\ UNCHANGED <<env, adapters, throttled, timers, radio, rx, warned>>

SilenceElapses ==
  /\ up /\ rx = "recent"
  /\ rx' = "silent"
  /\ UNCHANGED <<env, adapters, throttled, timers, radio, tap, warned>>

(***************************************************************************)
(* _prune_tick after its cache pruning: the tap watchdog, the "scan lost"  *)
(* path and the silence detection, in that order.  While throttled it      *)
(* leaves all of this alone.                                               *)
(***************************************************************************)
\* Seeded fault: the watchdog looks for a missing thread, not for a dead one.
WatchdogFiresOnMissing == tap = "none"

WatchdogFires == tap = "dead"

TapAfterWatchdog == IF WatchdogFires THEN TapStarts("none") ELSE {[tap |-> tap, rx |-> rx]}

ScanLost == active = NoCard \/ active \notin enabled

ScanRestored ==
  IF ScanLost
    THEN Rotations(adapters, active, FALSE, scanning, enabled, claims)
    ELSE {Unchanged(active, scanning, enabled, claims)}

PruneTick ==
  /\ up /\ "prune" \in timers
  /\ ~throttled
  /\ UNCHANGED <<env, adapters, throttled>>
  /\ \E t \in TapAfterWatchdog, o \in ScanRestored :
       LET silence == ~o.raised /\ t.rx = "silent" /\ ~warned
       IN /\ tap' = t.tap
          /\ rx' = t.rx
          /\ active' = o.active /\ scanning' = o.scanning /\ claims' = o.claims
          /\ enabled' = (IF silence THEN {} ELSE o.enabled)
          /\ warned' = (warned \/ silence)
          /\ timers' = TimersAfter("prune", o.raised)

(***************************************************************************)
(* The load throttle.  LoadThrottle.tick flips its state before it calls   *)
(* back and logs an exception of the callback, so its timer never dies.    *)
(***************************************************************************)

\* _stop_passive_scan_all visits the markers in no particular order.
StopAll ==
  \E rep \in Replies(enabled, NoCard) :
    LET raisers == {c \in enabled : rep[c].res = "raise"}
    IN \/ /\ raisers = {}
          /\ scanning' = ScanningAfter(enabled, rep, scanning)
          /\ enabled' = {}
          /\ claims' = NoClaims
       \/ \E last \in raisers, before \in SUBSET (enabled \ raisers) :
            /\ scanning' = ScanningAfter(before \cup {last}, rep, scanning)
            /\ UNCHANGED <<enabled, claims>>

LoadTrip ==
  /\ up /\ ~throttled
  /\ throttled' = TRUE
  /\ tap' = "none"
  /\ StopAll
  /\ UNCHANGED <<env, adapters, active, timers, rx, warned>>

LoadRelease ==
  /\ up /\ throttled
  /\ throttled' = FALSE
  /\ \E t \in TapStarts(tap),
        o \in Rotations(adapters, active, FALSE, scanning, enabled, claims) :
       /\ tap' = t.tap
       /\ Become(o)
       /\ rx' = (IF o.raised THEN t.rx ELSE "recent")
       /\ warned' = (o.raised /\ warned)
  /\ UNCHANGED <<env, adapters, timers>>

(***************************************************************************)
(* The process.  SIGTERM ends it with os._exit(0), like a kill or a crash; *)
(* the claim files of a dead process no longer count.                      *)
(***************************************************************************)
FreshProcess ==
  /\ adapters' = {}
  /\ active' = NoCard
  /\ enabled' = {}
  /\ claims' = NoClaims
  /\ throttled' = FALSE
  /\ warned' = FALSE

Start ==
  /\ ~up
  /\ up' = TRUE
  /\ FreshProcess
  /\ timers' = TimerName
  /\ \E t \in TapStarts("none") : tap' = t.tap /\ rx' = t.rx
  /\ UNCHANGED <<present, rivals, scanning>>

Exit ==
  /\ CanExit /\ up
  /\ up' = FALSE
  /\ FreshProcess
  /\ timers' = {}
  /\ tap' = "none"
  /\ rx' = "never"
  /\ UNCHANGED <<present, rivals, scanning>>

(***************************************************************************)
(* The environment: cards are plugged and pulled, and another service that *)
(* ran a discovery of its own leaves a controller with scanning off.  It   *)
(* takes the hard claim of a card only while no live process holds it.     *)
(***************************************************************************)
Plug(c) ==
  /\ c \notin present
  /\ present' = present \cup {c}
  /\ UNCHANGED <<up, rivals, adapters, throttled, timers, radio, listener>>

Unplug(c) ==
  /\ c \in present
  /\ present' = present \ {c}
  /\ scanning' = scanning \ {c}
  /\ UNCHANGED <<up, rivals, adapters, active, enabled, claims, throttled, timers, listener>>

ForeignReset(c) ==
  /\ c \in scanning
  /\ scanning' = scanning \ {c}
  /\ UNCHANGED <<env, adapters, active, enabled, claims, throttled, timers, listener>>

RivalScans(c) ==
  /\ c \in Contested \ rivals /\ c \in present
  /\ claims[c] # "hard"
  /\ rivals' = rivals \cup {c}
  /\ UNCHANGED <<up, present, adapters, throttled, timers, radio, listener>>

RivalStops(c) ==
  /\ c \in rivals
  /\ rivals' = rivals \ {c}
  /\ UNCHANGED <<up, present, adapters, throttled, timers, radio, listener>>

Init ==
  /\ up = FALSE
  /\ present \in SUBSET Card
  /\ rivals = {}
  /\ scanning = {}
  /\ adapters = {}
  /\ active = NoCard
  /\ enabled = {}
  /\ claims = NoClaims
  /\ throttled = FALSE
  /\ tap = "none"
  /\ rx = "never"
  /\ warned = FALSE
  /\ timers = {}

Environment ==
  \E c \in Card :
    Plug(c) \/ Unplug(c) \/ ForeignReset(c) \/ RivalScans(c) \/ RivalStops(c)

Service ==
  \/ \E c \in Card : InterfacesAdded(c) \/ InterfacesRemoved(c)
  \/ RotationTick \/ ReenableTick \/ ContinuousScanChanged \/ PruneTick
  \/ TapFrame \/ TapDies \/ SilenceElapses
  \/ LoadTrip \/ LoadRelease
  \/ Start \/ Exit

Next == Environment \/ Service

Spec == Init /\ [][Next]_vars

(***************************************************************************)
(* Fairness.  GLib fires a timer for as long as its source exists, so each *)
(* tick is weakly fair.  The environment, the signals and the throttle are *)
(* not fair.  A controller that is asked again and again is assumed to     *)
(* accept an enable from the re-enable tick sooner or later.               *)
(***************************************************************************)
ReenableSucceeds == ReenableTick /\ active' \in scanning'

Fairness ==
  /\ WF_vars(PruneTick)
  /\ WF_vars(RotationTick)
  /\ WF_vars(ReenableTick)
  /\ SF_vars(ReenableSucceeds)

FairSpec == Spec /\ Fairness

(***************************************************************************)
(* Properties                                                              *)
(***************************************************************************)

\* Type invariant: every variable keeps the shape its Python counterpart has.
TypeOK ==
  /\ up \in BOOLEAN /\ throttled \in BOOLEAN /\ warned \in BOOLEAN
  /\ present \in SUBSET Card /\ scanning \in SUBSET Card
  /\ adapters \in SUBSET Card /\ enabled \in SUBSET Card
  /\ claims \in [Card -> ClaimKind] /\ rivals \in SUBSET Contested
  /\ active \in Card \cup {NoCard}
  /\ tap \in {"none", "running", "dead"}
  /\ rx \in {"never", "recent", "silent"}
  /\ timers \in SUBSET TimerName

\* The listening role never points at a card that is gone, and outside the
\* throttle some known card always has it, whatever the HCI commands answer:
\* _apply_rotation assigns _scan_active_key before it touches a controller.
RoleIsKnown ==
  /\ active # NoCard => active \in adapters
  /\ up /\ ~throttled /\ adapters # {} => active # NoCard

\* A marker is always backed by a claim, hard or soft, unless taking that claim
\* failed, so no card this service enabled looks free to a BMS link because
\* somebody else scans on it too; and neither survives the card:
\* _on_interfaces_removed, the silence detection and an aborted trip all keep
\* the two in step.
MarkersBacked ==
  /\ \A c \in enabled : claims[c] # "none"
  /\ \A c \in Card : claims[c] # "none" => c \in adapters

\* "Make exactly one scanning card listen; the rest sit idle": as long as
\* controllers obey a disable and no call raises, only the card with the role
\* scans, through hot-plug, foreign resets, failed enables and cards an earlier
\* life of the process left scanning.
OneListener == up /\ ~throttled => scanning \cap adapters \subseteq {active}

\* While throttled the service holds no claim and no marker, whatever signals
\* and setting changes arrive meanwhile ("stop telling everyone else these
\* cards are busy").
ThrottledHoldsNothing == throttled => enabled = {} /\ claims = NoClaims

\* "Idle cards keep their claim so no other consumer takes them": outside the
\* throttle a card that stays known keeps a hard claim, whatever commands and
\* claims fail while the role moves, and a soft one is given up only for a hard
\* one, another soft one, or because taking it anew failed.
ClaimKept ==
  [][up /\ up' /\ ~throttled' =>
       \A c \in adapters' : /\ claims[c] = "hard" => claims'[c] = "hard"
                            /\ claims[c] = "soft" => claims'[c] # "none"
    ]_vars

\* A card that had to be claimed softly because another process was scanning on
\* it is claimed for this service alone once the other has gone for good, as
\* long as the card stays and the claims layer works.
ExclusiveInTheEnd ==
  \A c \in Contested :
    <>[](up /\ ~throttled /\ c \in adapters \cap present /\ c \notin rivals)
      => <>[](claims[c] = "hard")

\* The service comes back on the air after foreign resets and failed enables:
\* again and again the card with the role scans, unless there is a reason for it
\* not to (stopped, throttled, no card, or the card is unplugged).
BackOnAir ==
  []<>(\/ ~up \/ throttled \/ active = NoCard
       \/ active \notin present \/ active \in scanning)

\* Every card of a set that stays as it is gets the listening role again and
\* again, so no device is left to a card that never listens.
EveryCardListens ==
  \A S \in SUBSET Card :
    <>[](up /\ ~throttled /\ adapters = S) => \A c \in S : []<>(active = c)

\* "Tap thread watchdog: restart if it died": a tap thread that dies while the
\* throttle is off runs again, however often it dies.  True as long as the
\* monitor socket can be reopened at once, and only then.
DeadTapRestarted == tap = "dead" ~> (tap = "running" \/ throttled \/ ~up)

=============================================================================
