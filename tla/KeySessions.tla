----------------------------- MODULE KeySessions -----------------------------
(***************************************************************************)
(* The advertisement keys of the encrypted Victron devices: how the IP22,  *)
(* Orion-TR, SmartSolar and SmartShunt drivers use a key, find it wrong,   *)
(* read it again over the GATT writer they share (hex_key_session.py) and  *)
(* store it in the settings (ip22_key_settings.py and its kin); the PV     *)
(* poll of the SmartSolar, which competes for the slot, and the sessions   *)
(* of their own in which a SmartShunt is asked for its first key           *)
(* (smartshunt_hex.py).  The decoder tells a wrong key by its first byte,  *)
(* so the keys of the model differ in theirs.                              *)
(***************************************************************************)
EXTENDS GattWriter

CONSTANTS
  Fleet,        \* the fleets considered: the kind of every device, one family each
  Key, NoKey,
  Issued,       \* by device, the key it has when the program meets it
  Speaks,       \* by device, the forms of request it answers with its key
  Gated,        \* devices that answer only after the PUK and PIN exchange
  MaxAttempts,  \* _PROVISION_MAX_ATTEMPTS of the SmartSolar
  MaxTrouble    \* bound: how often something goes wrong from outside

Kinds == {"ip22", "orion", "solar", "shunt"}
Form == {"indefinite", "definite", "private", "hex"}

KeyJob == {"key", "refresh"}
Requests == [dev : Device, why : KeyJob \cup {"pv"}]

ASSUME FreeAssumption == Free \notin Requests
\* Each family of drivers has a writer of its own.
ASSUME FleetAssumption == Fleet \subseteq {[d \in Device |-> k] : k \in Kinds}
ASSUME KeyAssumption == NoKey \notin Key /\ Issued \in [Device -> Key]
ASSUME SpeaksAssumption == Speaks \in [Device -> SUBSET Form] /\ Gated \subseteq Device
ASSUME BoundAssumption == MaxAttempts \in Nat \ {0} /\ MaxTrouble \in Nat

VARIABLES
  kind,          \* the fleet at hand
  enabled,       \* devices the user has enabled
  secret,        \* the key each device encrypts with
  stored,        \* AdvertisementKey in com.victronenergy.settings
  keys,          \* the drivers' knowledge of their keys
  pv,            \* the SmartSolar drivers' PV poll
  provisioning,  \* _provision_busy, one for all drivers of a kind
  reading,       \* the key session: requests made, PUK accepted, key read
  trouble

driverVars == <<stored, keys, pv, provisioning>>
worldVars == <<kind, enabled, secret>>
vars == <<gattVars, worldVars, driverVars, reading, trouble>>

Solar(d) == kind[d] = "solar"
Shunt(d) == kind[d] = "shunt"

NewKeys(key) ==
  [cached |-> key,      \* _adv_key_hex
   invalid |-> FALSE,   \* _stored_key_invalid
   rested |-> TRUE,     \* the back-off since the last attempt is over
   attempts |-> 0,      \* _provision_attempts
   due |-> TRUE,        \* today's refresh is still to be done
   hex |-> "unmet",     \* the shunt's own session: "off", "running", or "got" a key
   got |-> NoKey]       \* which is on its way to the GLib thread

NewPv ==
  [busy |-> FALSE,      \* _pv_poll_busy
   retry |-> FALSE,     \* _pv_poll_retry_scheduled
   fresh |-> FALSE,     \* the last good poll is younger than _PV_STALE_S
   shown |-> FALSE]     \* /Pv/V has a value

NotReading == [way |-> 0, authed |-> FALSE, key |-> NoKey]

(***************************************************************************)
(* What one handler of device d reads and changes.                         *)
(***************************************************************************)
Sight(d) ==
  [stored |-> stored[d], k |-> keys[d], p |-> pv[d],
   busy |-> provisioning[kind[d]], w |-> Writer]

Leave(d, s) ==
  /\ stored' = [stored EXCEPT ![d] = s.stored]
  /\ keys' = [keys EXCEPT ![d] = s.k]
  /\ pv' = [pv EXCEPT ![d] = s.p]
  /\ provisioning' = [provisioning EXCEPT ![kind[d]] = s.busy]
  /\ Become(s.w)

Do(d, outcomes) == \E s \in outcomes : Leave(d, s) /\ UNCHANGED <<bonded, worldVars>>

\* get_advertisement_key and set_advertisement_key.
FromSettings(s) == s.stored
Saved(s, key) == [s EXCEPT !.stored = key]

\* Seeded fault: the flag of a rejected session stays.
StartedKeepingFlag(d, s, why) ==
  IF Busy(s.w) THEN {[s EXCEPT !.busy = TRUE]}
  ELSE {IF Accepts(w) THEN [s EXCEPT !.busy = TRUE, !.w = Opened(w, [dev |-> d, why |-> why])]
        ELSE [s EXCEPT !.busy = FALSE, !.w = w] : w \in Starts(s.w)}

(***************************************************************************)
(* AsyncGATTWriter.provision_key, with done() called at once when the      *)
(* writer does not take the session.                                       *)
(***************************************************************************)
Started(d, s, why) ==
  IF Busy(s.w) THEN {[s EXCEPT !.busy = FALSE]}
  ELSE {IF Accepts(w) THEN [s EXCEPT !.busy = TRUE, !.w = Opened(w, [dev |-> d, why |-> why])]
        ELSE [s EXCEPT !.busy = FALSE, !.w = w] : w \in Starts(s.w)}

GaveUp(d, k) == Solar(d) /\ k.attempts >= MaxAttempts

Provision(d, s) ==
  IF s.busy \/ GaveUp(d, s.k) \/ ~s.k.rested THEN {s}
  ELSE Started(d, [s EXCEPT !.k.rested = FALSE,
                            !.k.attempts = IF Solar(d) THEN @ + 1 ELSE @], "key")

Refresh(d, s) ==
  IF s.busy \/ ~s.k.due THEN {s} ELSE Started(d, [s EXCEPT !.k.due = FALSE], "refresh")

\* read_instance_pushes of a free writer; a refusal clears the flag at once.
PvRequested(d, s) ==
  {IF Accepts(w) THEN [s EXCEPT !.p.busy = TRUE, !.w = Opened(w, [dev |-> d, why |-> "pv"])]
   ELSE [s EXCEPT !.w = w] : w \in Starts(s.w)}

\* _maybe_poll_pv; whether the poll interval is over is left open.
PollPv(d, s) ==
  IF s.busy \/ s.p.busy \/ d \notin enabled THEN {s}
  ELSE {s} \cup (IF Busy(s.w) THEN {[s EXCEPT !.p.retry = TRUE]} ELSE PvRequested(d, s))

(***************************************************************************)
(* Advertisements: full frames, and short or undecodable ones, which end   *)
(* in the handler after the key is looked up.                              *)
(***************************************************************************)
\* Seeded fault: the settings are asked for a key also after a mismatch.
UsableRejected(d, s) == IF s.k.cached # NoKey THEN s.k.cached ELSE FromSettings(s)

Usable(d, s) ==
  IF s.k.invalid THEN NoKey ELSE IF s.k.cached # NoKey THEN s.k.cached ELSE FromSettings(s)

\* Seeded fault: the PV values stay until a poll replaces them.
PublishKeepingPv(d, s) == s

\* _publish: the PV side rides along and is withdrawn once it is stale.
Publish(d, s) == [s EXCEPT !.p.shown = IF Solar(d) THEN s.p.fresh ELSE @]

\* The parsers reject a frame of another key by its first decrypted byte.
Decodes(d, key) == key = secret[d]

Decoded(d, s) ==
  LET t == Publish(d, s)
  IN IF Solar(d) THEN PollPv(d, t) ELSE IF Shunt(d) THEN {t} ELSE Refresh(d, t)

Mismatch(d, s) ==
  Provision(d, [s EXCEPT !.k.invalid = TRUE, !.k.cached = NoKey])

Handled(d, s, full) ==
  LET key == Usable(d, s)
      t == [s EXCEPT !.k.cached = key]
  IN IF d \notin enabled THEN {s}
     ELSE IF key = NoKey THEN IF Shunt(d) /\ ~s.k.invalid THEN {s} ELSE Provision(d, s)
     ELSE IF ~full THEN {t}
     ELSE IF Decodes(d, key) THEN Decoded(d, t)
     ELSE Mismatch(d, t)

\* smartshunt_hex.start, which needs the loop and not the writer.
HexStarted(s) ==
  {[s EXCEPT !.k.hex = IF Accepts(w) THEN "running" ELSE "off", !.w = w] : w \in Starts(s.w)}

\* The first frame makes the device; a shunt's HEX session starts then or never.
Met(d, s) ==
  IF s.k.hex # "unmet" THEN {s}
  ELSE IF Shunt(d) /\ d \in enabled /\ FromSettings(s) = NoKey THEN HexStarted(s)
  ELSE {[s EXCEPT !.k.hex = "off"]}

Frame(d, full) ==
  /\ Do(d, UNION {Handled(d, s, full) : s \in Met(d, Sight(d))})
  /\ UNCHANGED <<reading, trouble>>

PvRetry(d) ==
  /\ pv[d].retry
  /\ Do(d, PollPv(d, [Sight(d) EXCEPT !.p.retry = FALSE]))
  /\ UNCHANGED <<reading, trouble>>

(***************************************************************************)
(* Time: back-off, staleness of the PV values, a new day.                  *)
(***************************************************************************)
Clock(d, s) ==
  /\ s # Sight(d)
  /\ Leave(d, s) /\ UNCHANGED <<bonded, worldVars, reading, trouble>>

Rest(d) == Clock(d, [Sight(d) EXCEPT !.k.rested = TRUE])
PvStale(d) == Clock(d, [Sight(d) EXCEPT !.p.fresh = FALSE])
NewDay(d) == Clock(d, [Sight(d) EXCEPT !.k.due = TRUE])

(***************************************************************************)
(* The key session, _read_key of hex_key_session.py: the register is asked *)
(* for in every form a firmware is known to answer, first as it is, then   *)
(* after the PUK and PIN exchange, whose failure ends nothing.             *)
(***************************************************************************)
Plain(form) == [form |-> form, after |-> FALSE]
Authed(form) == [form |-> form, after |-> TRUE]

Ways ==
  <<Plain("indefinite"), Plain("definite"), Plain("private"),
    Authed("indefinite"), Authed("definite"), Authed("private"), Authed("hex")>>

Answers(d, way, authed) == way.form \in Speaks[d] /\ (d \in Gated => authed)

\* _puk_pin_auth stands before the first request of the second round.
Unlocked(way) == reading.authed \/ way.after

Quiet == UNCHANGED <<driverVars, worldVars>>

\* Connecting and pairing in one step: nothing here tells them apart.
Link ==
  /\ stage = "queued" /\ stage' = "sent"
  /\ bonded' = bonded \cup {job.dev}
  /\ Quiet /\ UNCHANGED <<loop, job, agent, reading, trouble>>

AskKey ==
  /\ stage = "sent" /\ job.why \in KeyJob
  /\ LET way == Ways[reading.way + 1]
         authed == Unlocked(way)
     IN IF Answers(job.dev, way, authed)
        THEN /\ stage' = "good"
             /\ reading' = [way |-> reading.way + 1, authed |-> authed, key |-> secret[job.dev]]
        ELSE /\ stage' = IF reading.way + 1 = Len(Ways) THEN "bad" ELSE stage
             /\ reading' = [reading EXCEPT !.way = @ + 1, !.authed = authed]
  /\ Quiet /\ UNCHANGED <<loop, job, agent, bonded, trouble>>

ReadPv ==
  /\ job # Free /\ job.why = "pv" /\ Complete
  /\ Quiet /\ UNCHANGED <<reading, trouble>>

(***************************************************************************)
(* The idle callback.  A key reaches the settings, the cache and the end   *)
(* of the mistrust together, or none of them when the settings refuse it.  *)
(***************************************************************************)
Counted(d, s) == [s EXCEPT !.k.attempts = 0]

\* Seeded fault: the driver waits for the settings to give it the key.
KeptInSettings(s) == Saved(s, reading.key)

Kept(s) ==
  [Saved(s, reading.key) EXCEPT !.k.cached = reading.key, !.k.invalid = FALSE]

PvDone(d, s, ok) ==
  LET t == [s EXCEPT !.p.busy = FALSE]
  IN IF ok THEN [t EXCEPT !.p.fresh = TRUE, !.p.shown = @ \/ d \in enabled] ELSE t

Told(d, s, persisted) ==
  IF job.why = "pv" THEN PvDone(d, s, stage = "good")
  ELSE LET t == [s EXCEPT !.busy = FALSE]
       IN IF stage = "bad" THEN t
          ELSE IF persisted THEN Kept(Counted(d, t)) ELSE Counted(d, t)

Deliver(persisted) ==
  /\ Settled
  /\ LET d == job.dev IN Do(d, {Told(d, [Sight(d) EXCEPT !.w = Finished(@)], persisted)})
  /\ reading' = NotReading

Delivered == Deliver(TRUE) /\ UNCHANGED trouble

(***************************************************************************)
(* smartshunt_hex._run_forever: it connects again and again, holding no    *)
(* slot, until a session, which authenticates and asks in the definite     *)
(* form, has read the key; the shunt learns of it through the idle queue.  *)
(***************************************************************************)
HexReads(d) ==
  /\ keys[d].hex = "running" /\ Answers(d, Authed("definite"), TRUE)
  /\ keys' = [keys EXCEPT ![d].hex = "got", ![d].got = secret[d]]
  /\ UNCHANGED <<gattVars, worldVars, stored, pv, provisioning, reading, trouble>>

HexDeliver(d, persisted) ==
  /\ keys[d].hex = "got"
  /\ LET s == [Sight(d) EXCEPT !.k.hex = "off", !.k.got = NoKey]
         key == keys[d].got
     IN Do(d, {IF persisted THEN [Saved(s, key) EXCEPT !.k.cached = key, !.k.invalid = FALSE]
               ELSE s})
  /\ UNCHANGED reading

HexDelivered(d) == HexDeliver(d, TRUE) /\ UNCHANGED trouble

(***************************************************************************)
(* What goes wrong, MaxTrouble times: a session fails, the settings refuse *)
(* a key, the device is given another key, a user enters one by hand or    *)
(* enables or disables the device, the process restarts.                   *)
(***************************************************************************)
SessionFails == Fail /\ Quiet /\ UNCHANGED reading

Unsettable ==
  \/ stage = "good" /\ job.why \in KeyJob /\ Deliver(FALSE)
  \/ \E d \in Device : HexDeliver(d, FALSE)

Rekey(d) ==
  /\ \E k \in Key : secret' = [secret EXCEPT ![d] = k]
  /\ UNCHANGED <<gattVars, kind, enabled, driverVars, reading>>

Toggle(d) ==
  /\ enabled' = IF d \in enabled THEN enabled \ {d} ELSE enabled \cup {d}
  /\ UNCHANGED <<gattVars, kind, secret, driverVars, reading>>

EnterByHand(d) ==
  /\ \E k \in Key : stored' = [stored EXCEPT ![d] = k]
  /\ UNCHANGED <<gattVars, worldVars, keys, pv, provisioning, reading>>

Restart ==
  /\ GattRestart
  /\ keys' = [d \in Device |-> NewKeys(stored[d])]
  /\ pv' = [d \in Device |-> NewPv]
  /\ provisioning' = [k \in Kinds |-> FALSE]
  /\ reading' = NotReading
  /\ UNCHANGED <<worldVars, stored>>

Trouble ==
  /\ trouble < MaxTrouble /\ trouble' = trouble + 1
  /\ \/ SessionFails \/ Unsettable \/ Restart
     \/ \E d \in Device : Rekey(d) \/ Toggle(d) \/ EnterByHand(d)

Init ==
  /\ GattInit
  /\ kind \in Fleet /\ enabled \in SUBSET Device
  /\ secret = Issued
  /\ stored \in [Device -> Key \cup {NoKey}]
  /\ keys = [d \in Device |-> NewKeys(stored[d])]
  /\ pv = [d \in Device |-> NewPv]
  /\ provisioning = [k \in Kinds |-> FALSE]
  /\ reading = NotReading
  /\ trouble = 0

Session == Link \/ AskKey \/ ReadPv \/ Delivered

Driver(d) ==
  \/ Frame(d, TRUE) \/ Frame(d, FALSE)
  \/ Rest(d)
  \/ Solar(d) /\ (PvRetry(d) \/ PvStale(d))
  \/ ~Solar(d) /\ ~Shunt(d) /\ NewDay(d)
  \/ HexReads(d) \/ HexDelivered(d)

Next == Session \/ Trouble \/ \E d \in Device : Driver(d)

Spec == Init /\ [][Next]_vars

(***************************************************************************)
(* A session ends by itself or by its timeout.  Advertisements come all    *)
(* the time, most of them between two PV polls, and the back-off of three  *)
(* minutes ends, at moments at which the slot, held for seconds at a time, *)
(* is free.                                                                *)
(***************************************************************************)
Heard(d) == Frame(d, TRUE) /\ (job' # Free => job'.why \in KeyJob)

Fairness ==
  /\ WF_vars(Session)
  /\ \A d \in Device :
       /\ WF_vars(HexReads(d)) /\ WF_vars(HexDelivered(d))
       /\ SF_vars(job = Free /\ Rest(d))
       /\ SF_vars(job = Free /\ keys[d].rested /\ Heard(d))

FairSpec == Spec /\ Fairness

---------------------------------------------------------------------------
\* Types; a session is under way exactly while the writer is busy, and it has
\* read a key only of the device it talks to.
TypeOK ==
  /\ loop \in {"down", "up", "failed"} /\ stage \in Stage
  /\ job \in Requests \cup {Free} /\ (job = Free <=> stage = "idle")
  /\ agent \in SUBSET Device /\ bonded \in SUBSET Device
  /\ agent # {} => job # Free /\ agent = {job.dev}
  /\ kind \in Fleet /\ enabled \in SUBSET Device
  /\ secret \in [Device -> Key] /\ stored \in [Device -> Key \cup {NoKey}]
  /\ keys \in [Device -> [cached : Key \cup {NoKey}, invalid : BOOLEAN, rested : BOOLEAN,
                          attempts : 0 .. MaxAttempts, due : BOOLEAN,
                          hex : {"unmet", "off", "running", "got"}, got : Key \cup {NoKey}]]
  /\ pv \in [Device -> [busy : BOOLEAN, retry : BOOLEAN,
                        fresh : BOOLEAN, shown : BOOLEAN]]
  /\ provisioning \in [Kinds -> BOOLEAN]
  /\ reading \in [way : 0 .. Len(Ways), authed : BOOLEAN, key : Key \cup {NoKey}]
  /\ stage = "good" /\ job.why \in KeyJob => reading.key \in Key
  /\ trouble \in 0 .. MaxTrouble

\* The flag that keeps all drivers of a kind from provisioning is up exactly
\* while the writer reads the key of one of them: left up, no device of the
\* kind would ever get a key again.  The same for each PV poll.
FlagsBacked ==
  /\ \A k \in Kinds : provisioning[k] <=>
       job # Free /\ job.why \in KeyJob /\ kind[job.dev] = k
  /\ \A d \in Device : pv[d].busy <=> job # Free /\ job.why = "pv" /\ job.dev = d

\* A key that failed to decode a frame is not used again, whatever is in the
\* settings, until a session or a restart brings one.
RejectedKeyRests == \A d \in Device : keys[d].invalid => keys[d].cached = NoKey

\* The writer keeps the promise of a register session to these drivers as well:
\* a key session may ask its device many times, but it is one and ends once.
Promise == INSTANCE RegisterSession WITH
  Job <- Requests, held <- job,
  state <- IF stage \in {"queued", "linked"} THEN "asked" ELSE stage

OneSession == Promise!SessionSpec

\* A shunt without a key whose own session is not running: it was met while
\* disabled, or the settings refused the key.  Only a restart helps it.
Stranded(d) ==
  Shunt(d) /\ ~keys[d].invalid /\ stored[d] = NoKey /\ keys[d].hex = "off"

\* When nothing goes wrong any more, every enabled device that answers is
\* decoded with its own key in the end, unless a SmartSolar has given up, a
\* SmartShunt is stranded or there is no connection stack.
KeyInTheEnd ==
  \A d \in Device : Answers(d, Authed("definite"), TRUE) =>
    <>[](d \in enabled =>
           keys[d].cached = secret[d] \/ GaveUp(d, keys[d]) \/ Stranded(d) \/ loop = "failed")

\* A PV voltage the poll stopped refreshing is withdrawn, as long as the
\* device's frames are decoded.
PvWithdrawn ==
  \A d \in Device :
    pv[d].shown /\ ~pv[d].fresh ~> ~pv[d].shown \/ pv[d].fresh \/ keys[d].cached # secret[d] \/ d \notin enabled
==============================================================================
