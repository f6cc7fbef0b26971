--------------------------- MODULE KeySessionsProofs --------------------------
(***************************************************************************)
(* Proofs about KeySessions, for every fleet, every issue of keys and any  *)
(* number of things that go wrong: the flags that keep drivers from asking *)
(* twice are up exactly while the writer works for them, and a key that    *)
(* failed is not used again.                                               *)
(*                                                                         *)
(* As in ChargerControlProofs the argument is about what a handler sees    *)
(* and leaves (Sound), and Left carries it back to the state: the flag of  *)
(* a kind is one for all its devices, so it must also be shown that a      *)
(* session of one device says nothing of another kind.                     *)
(***************************************************************************)
EXTENDS KeySessions, TLAPS

AnyKey == Key \cup {NoKey}

KeysType ==
  [cached : AnyKey, invalid : BOOLEAN, rested : BOOLEAN, attempts : 0 .. MaxAttempts, due : BOOLEAN,
   hex : {"unmet", "off", "running", "got"}, got : AnyKey]

PvType ==
  [busy : BOOLEAN, retry : BOOLEAN, fresh : BOOLEAN, shown : BOOLEAN]

\* A pairing agent waits only for the device of the request at hand.
WriterType ==
  {w \in [loop : {"down", "up", "failed"}, job : Requests \cup {Free}, stage : Stage,
          agent : SUBSET Device] :
     w.agent # {} => w.job # Free /\ w.agent = {w.job.dev}}

Sights ==
  [stored : AnyKey, k : KeysType, p : PvType, busy : BOOLEAN, w : WriterType]

\* The request j reads a key for a device of kind k, the PV values of device d.
KeyFor(j, k) == j # Free /\ j.why \in KeyJob /\ kind[j.dev] = k
PvFor(j, d) == j # Free /\ j.why = "pv" /\ j.dev = d

Sound(d, s) ==
  /\ s \in Sights
  /\ s.w.job = Free <=> s.w.stage = "idle"
  /\ s.busy <=> KeyFor(s.w.job, kind[d])
  /\ s.p.busy <=> PvFor(s.w.job, d)
  /\ s.k.invalid => s.k.cached = NoKey

Touched(d, w, x) ==
  \/ x.job = w.job /\ x.stage = w.stage
  \/ w.job = Free /\ x.job \in Requests /\ x.job.dev = d /\ x.stage = "queued"

Types ==
  /\ kind \in [Device -> Kinds] /\ secret \in [Device -> Key]
  /\ stored \in [Device -> AnyKey] /\ keys \in [Device -> KeysType]
  /\ pv \in [Device -> PvType] /\ provisioning \in [Kinds -> BOOLEAN]
  /\ Writer \in WriterType /\ (job = Free <=> stage = "idle")

\* A session has a way left to ask while it may ask, and a good one has a key.
ReadingOK ==
  /\ reading \in [way : 0 .. Len(Ways), authed : BOOLEAN, key : AnyKey]
  /\ stage \in {"idle", "queued", "sent"} => reading.way < Len(Ways)
  /\ stage = "good" /\ job.why \in KeyJob => reading.key \in Key

Inv == Types /\ ReadingOK /\ FlagsBacked /\ RejectedKeyRests

\* What a step of the drivers may do to the writer.
WriterStep ==
  \/ job' = job /\ stage' = stage
  \/ job = Free /\ job' \in Requests /\ stage' = "queued"

(***************************************************************************)
(* The writer.                                                             *)
(***************************************************************************)
LEMMA StartsWriter ==
  ASSUME NEW w \in WriterType, NEW x \in Starts(w)
  PROVE  x \in WriterType /\ x.job = w.job /\ x.stage = w.stage
BY DEF Starts, WriterType

LEMMA OpenedWriter ==
  ASSUME NEW w \in WriterType, NEW d \in Device, NEW why \in KeyJob \cup {"pv"}
  PROVE  LET x == Opened(w, [dev |-> d, why |-> why])
         IN  /\ x \in WriterType /\ x.stage = "queued"
             /\ x.job = [dev |-> d, why |-> why] /\ x.job \in Requests /\ x.job # Free
<1> DEFINE r == [dev |-> d, why |-> why]
<1>1. r \in Requests /\ r # Free /\ r.dev = d
  BY FreeAssumption DEF Requests
<1> HIDE DEF r
<1>2. /\ Opened(w, r) \in WriterType /\ Opened(w, r).stage = "queued"
      /\ Opened(w, r).job = r
  BY <1>1 DEF Opened, WriterType, Stage, AgentFor
<1>3. QED
  BY <1>1, <1>2 DEF r

LEMMA FinishedWriter ==
  ASSUME NEW w \in WriterType
  PROVE  /\ Finished(w) \in WriterType
         /\ Finished(w).job = Free /\ Finished(w).stage = "idle"
BY DEF Finished, WriterType, Stage

\* What Sound looks at.
LEMMA SoundAlike ==
  ASSUME NEW d, NEW s, Sound(d, s), NEW t \in Sights,
         t.w.job = s.w.job, t.w.stage = s.w.stage, t.busy = s.busy,
         t.p.busy = s.p.busy, t.k.invalid => t.k.cached = NoKey
  PROVE  Sound(d, t)
BY DEF Sound

(***************************************************************************)
(* Sessions that are asked for.                                            *)
(***************************************************************************)

\* The flag goes up with the session, and stays down if there is none.
LEMMA StartedSound ==
  ASSUME NEW d \in Device, NEW s, Sound(d, s), ~s.busy, NEW why \in KeyJob,
         NEW t \in Started(d, s, why)
  PROVE  Sound(d, t) /\ Touched(d, s.w, t.w)
<1>1. s \in Sights /\ s.w \in WriterType
  BY DEF Sound, Sights
<1>2. CASE Busy(s.w)
  <2>1. t = [s EXCEPT !.busy = FALSE]
    BY <1>2 DEF Started
  <2>2. t \in Sights /\ t.w = s.w /\ t.p = s.p /\ t.k = s.k /\ ~t.busy
    BY <1>1, <2>1 DEF Sights
  <2>3. QED
    BY <2>2 DEF Sound, Touched
<1>3. CASE ~Busy(s.w)
  <2>1. PICK w \in Starts(s.w) :
          t = IF Accepts(w)
              THEN [s EXCEPT !.busy = TRUE, !.w = Opened(w, [dev |-> d, why |-> why])]
              ELSE [s EXCEPT !.busy = FALSE, !.w = w]
    BY <1>3 DEF Started
  <2>2. w \in WriterType /\ w.job = s.w.job /\ w.stage = s.w.stage /\ s.w.job = Free
    BY <1>1, <1>3, StartsWriter DEF Busy
  <2>3. CASE Accepts(w)
    <3> DEFINE x == Opened(w, [dev |-> d, why |-> why])
    <3>1. /\ x \in WriterType /\ x.stage = "queued" /\ x.job.why = why
          /\ x.job.dev = d /\ x.job \in Requests /\ x.job # Free
      BY <2>2, OpenedWriter
    <3> HIDE DEF x
    <3>2. t \in Sights /\ t.w = x /\ t.p = s.p /\ t.k = s.k /\ t.busy = TRUE
      BY <1>1, <2>1, <2>3, <3>1 DEF Sights, x
    <3>3. ~s.p.busy
      BY <2>2 DEF Sound, PvFor
    <3>4. KeyFor(x.job, kind[d]) /\ ~PvFor(x.job, d)
      BY <3>1 DEF KeyFor, PvFor, KeyJob
    <3>5. QED
      BY <2>2, <3>1, <3>2, <3>3, <3>4 DEF Sound, Touched
  <2>4. CASE ~Accepts(w)
    <3>1. t \in Sights /\ t.w = w /\ t.p = s.p /\ t.k = s.k /\ t.busy = FALSE
      BY <1>1, <2>1, <2>2, <2>4 DEF Sights
    <3>2. QED
      BY <2>2, <3>1 DEF Sound, Touched
  <2>5. QED
    BY <2>3, <2>4
<1>4. QED
  BY <1>2, <1>3

LEMMA ProvisionSound ==
  ASSUME NEW d \in Device, NEW s, Sound(d, s), NEW t \in Provision(d, s)
  PROVE  Sound(d, t) /\ Touched(d, s.w, t.w)
<1>1. CASE t = s
  BY <1>1 DEF Touched
<1>2. CASE /\ ~s.busy /\ ~GaveUp(d, s.k)
           /\ t \in Started(d, [s EXCEPT !.k.rested = FALSE,
                        !.k.attempts = IF Solar(d) THEN @ + 1 ELSE @], "key")
  <2> DEFINE n == IF Solar(d) THEN s.k.attempts + 1 ELSE s.k.attempts
             u == [s EXCEPT !.k.rested = FALSE, !.k.attempts = n]
  <2>1. s \in Sights /\ n \in 0 .. MaxAttempts
    BY <1>2, BoundAssumption DEF Sound, Sights, KeysType, GaveUp
  <2>2. t \in Started(d, u, "key")
    BY <1>2
  <2> HIDE DEF n
  <2>3. /\ u \in Sights /\ u.w = s.w /\ u.busy = s.busy /\ u.p = s.p
        /\ u.k.invalid = s.k.invalid /\ u.k.cached = s.k.cached
    BY <2>1 DEF Sights, KeysType
  <2> HIDE DEF u
  <2>4. Sound(d, u) /\ ~u.busy
    BY <1>2, <2>3 DEF Sound
  <2>5. "key" \in KeyJob
    BY DEF KeyJob
  <2>6. QED
    BY <2>2, <2>3, <2>4, <2>5, StartedSound
<1>3. QED
  BY <1>1, <1>2 DEF Provision

LEMMA RefreshSound ==
  ASSUME NEW d \in Device, NEW s, Sound(d, s), NEW t \in Refresh(d, s)
  PROVE  Sound(d, t) /\ Touched(d, s.w, t.w)
<1>1. CASE t = s
  BY <1>1 DEF Touched
<1>2. CASE ~s.busy /\ t \in Started(d, [s EXCEPT !.k.due = FALSE], "refresh")
  <2> DEFINE u == [s EXCEPT !.k.due = FALSE]
  <2>1. /\ u \in Sights /\ u.w = s.w /\ u.busy = s.busy /\ u.p = s.p
        /\ u.k.invalid = s.k.invalid /\ u.k.cached = s.k.cached
    BY DEF Sound, Sights, KeysType
  <2>2. t \in Started(d, u, "refresh")
    BY <1>2
  <2> HIDE DEF u
  <2>3. Sound(d, u) /\ ~u.busy
    BY <1>2, <2>1 DEF Sound
  <2>4. "refresh" \in KeyJob
    BY DEF KeyJob
  <2>5. QED
    BY <2>1, <2>2, <2>3, <2>4, StartedSound
<1>3. QED
  BY <1>1, <1>2 DEF Refresh

LEMMA PollPvSound ==
  ASSUME NEW d \in Device, NEW s, Sound(d, s), NEW t \in PollPv(d, s)
  PROVE  Sound(d, t) /\ Touched(d, s.w, t.w)
<1>1. CASE t = s
  BY <1>1 DEF Touched
<1>2. CASE t = [s EXCEPT !.p.retry = TRUE]
  <2>1. /\ t \in Sights /\ t.w = s.w /\ t.busy = s.busy /\ t.p.busy = s.p.busy /\ t.k = s.k
    BY <1>2 DEF Sound, Sights, PvType
  <2>2. QED
    BY <2>1 DEF Sound, Touched
<1>3. CASE ~s.busy /\ ~s.p.busy /\ ~Busy(s.w) /\ t \in PvRequested(d, s)
  <2>1. s \in Sights /\ s.w \in WriterType /\ s.w.job = Free
    BY <1>3 DEF Sound, Sights, Busy
  <2>2. PICK w \in Starts(s.w) :
          t = IF Accepts(w)
              THEN [s EXCEPT !.p.busy = TRUE, !.w = Opened(w, [dev |-> d, why |-> "pv"])]
              ELSE [s EXCEPT !.w = w]
    BY <1>3 DEF PvRequested
  <2>3. w \in WriterType /\ w.job = s.w.job /\ w.stage = s.w.stage
    BY <2>1, StartsWriter
  <2>4. CASE Accepts(w)
    <3> DEFINE x == Opened(w, [dev |-> d, why |-> "pv"])
    <3>1. /\ x \in WriterType /\ x.stage = "queued" /\ x.job.why = "pv"
          /\ x.job.dev = d /\ x.job \in Requests /\ x.job # Free
      BY <2>3, OpenedWriter
    <3>2. t = [s EXCEPT !.p.busy = TRUE, !.w = x]
      BY <2>2, <2>4
    <3> HIDE DEF x
    <3>3. t \in Sights /\ t.w = x /\ t.busy = s.busy /\ t.k = s.k /\ t.p.busy = TRUE
      BY <2>1, <3>1, <3>2 DEF Sights, PvType
    <3>4. ~KeyFor(x.job, kind[d]) /\ PvFor(x.job, d)
      BY <3>1 DEF KeyFor, PvFor, KeyJob
    <3>5. QED
      BY <1>3, <2>1, <2>3, <3>1, <3>3, <3>4 DEF Sound, Touched
  <2>5. CASE ~Accepts(w)
    <3>1. t \in Sights /\ t.w = w /\ t.p = s.p /\ t.k = s.k /\ t.busy = s.busy
      BY <2>1, <2>2, <2>3, <2>5 DEF Sights
    <3>2. QED
      BY <2>1, <2>3, <3>1 DEF Sound, Touched
  <2>6. QED
    BY <2>4, <2>5
<1>4. QED
  BY <1>1, <1>2, <1>3 DEF PollPv

(***************************************************************************)
(* Advertisements.                                                         *)
(***************************************************************************)

\* What a handler does before it may ask for a session.
LEMMA DecodedSound ==
  ASSUME NEW d \in Device, NEW s, Sound(d, s), NEW t \in Decoded(d, s)
  PROVE  Sound(d, t) /\ Touched(d, s.w, t.w)
<1> DEFINE shown == IF Solar(d) THEN s.p.fresh ELSE s.p.shown
           u == Publish(d, s)
<1>1. s \in Sights /\ shown \in BOOLEAN
  BY DEF Sound, Sights, PvType
<1>2. u = [s EXCEPT !.p.shown = shown]
  BY <1>1 DEF Publish
<1> HIDE DEF shown
<1>3. u \in Sights /\ u.w = s.w /\ u.busy = s.busy /\ u.p.busy = s.p.busy /\ u.k = s.k
  BY <1>1, <1>2 DEF Sights, PvType
<1>4. t \in PollPv(d, u) \/ t = u \/ t \in Refresh(d, u)
  BY DEF Decoded
<1> HIDE DEF u
<1>5. Sound(d, u)
  BY <1>3 DEF Sound
<1>6. QED
  BY <1>3, <1>4, <1>5, PollPvSound, RefreshSound DEF Touched

LEMMA HandledSound ==
  ASSUME NEW d \in Device, NEW s, Sound(d, s), NEW full \in BOOLEAN,
         NEW t \in Handled(d, s, full)
  PROVE  Sound(d, t) /\ Touched(d, s.w, t.w)
<1> DEFINE key == Usable(d, s)
           u == [s EXCEPT !.k.cached = key]
           m == [u EXCEPT !.k.invalid = TRUE, !.k.cached = NoKey]
<1>1. key \in AnyKey /\ (s.k.invalid => key = NoKey)
  BY DEF Usable, FromSettings, Sound, Sights, KeysType, AnyKey
<1>2. \/ t = s \/ t \in Provision(d, s) \/ t = u
      \/ t \in Decoded(d, u) \/ t \in Provision(d, m)
  BY DEF Handled, Mismatch
<1> HIDE DEF key
<1>3. /\ u \in Sights /\ u.w = s.w /\ u.busy = s.busy /\ u.p = s.p
      /\ u.k.cached = key /\ u.k.invalid = s.k.invalid
  BY <1>1 DEF Sound, Sights, KeysType
<1>4. Sound(d, u)
  BY <1>1, <1>3 DEF Sound
<1> HIDE DEF u
<1>5. m \in Sights /\ m.w = s.w /\ m.busy = s.busy /\ m.p = s.p /\ m.k.cached = NoKey
  BY <1>3 DEF Sights, KeysType, AnyKey
<1> HIDE DEF m
<1>6. Sound(d, m)
  BY <1>5 DEF Sound
<1>7. QED
  BY <1>2, <1>3, <1>4, <1>5, <1>6, ProvisionSound, DecodedSound DEF Touched

LEMMA MetSound ==
  ASSUME NEW d \in Device, NEW s, Sound(d, s), NEW t \in Met(d, s)
  PROVE  Sound(d, t) /\ t.w.job = s.w.job /\ t.w.stage = s.w.stage
<1>1. CASE t = s
  BY <1>1
<1>2. CASE t = [s EXCEPT !.k.hex = "off"]
  <2>1. /\ t \in Sights /\ t.w = s.w /\ t.busy = s.busy /\ t.p = s.p
        /\ t.k.invalid = s.k.invalid /\ t.k.cached = s.k.cached
    BY <1>2 DEF Sound, Sights, KeysType
  <2>2. QED
    BY <2>1 DEF Sound
<1>3. CASE t \in HexStarted(s)
  <2>1. PICK w \in Starts(s.w) :
          t = [s EXCEPT !.k.hex = IF Accepts(w) THEN "running" ELSE "off", !.w = w]
    BY <1>3 DEF HexStarted
  <2>2. w \in WriterType /\ w.job = s.w.job /\ w.stage = s.w.stage
    BY StartsWriter DEF Sound, Sights
  <2>3. PICK h \in {"running", "off"} : t = [s EXCEPT !.k.hex = h, !.w = w]
    BY <2>1
  <2>4. /\ t \in Sights /\ t.w = w /\ t.busy = s.busy /\ t.p = s.p
        /\ t.k.invalid = s.k.invalid /\ t.k.cached = s.k.cached
    BY <2>2, <2>3 DEF Sound, Sights, KeysType
  <2>5. QED
    BY <2>2, <2>4 DEF Sound
<1>4. QED
  BY <1>1, <1>2, <1>3 DEF Met

(***************************************************************************)
(* From the outcome of a handler to the state.                             *)
(***************************************************************************)

\* A request of device d says nothing of other kinds and of other devices.
Spares(d, w) ==
  /\ \A k \in Kinds \ {kind[d]} : KeyFor(w.job, k) <=> KeyFor(job, k)
  /\ \A e \in Device \ {d} : PvFor(w.job, e) <=> PvFor(job, e)

LEMMA SightSound ==
  ASSUME Inv, NEW d \in Device
  PROVE  Sound(d, Sight(d)) /\ Sight(d).w = Writer
<1>1. kind[d] \in Kinds
  BY DEF Inv, Types
<1>2. Sight(d) \in Sights
  BY <1>1 DEF Inv, Types, Sight, Sights
<1>3. QED
  BY <1>1, <1>2 DEF Inv, Types, Sight, Sound, FlagsBacked, RejectedKeyRests, KeyFor, PvFor,
     Writer

LEMMA Left ==
  ASSUME Inv, NEW d \in Device, NEW s, Sound(d, s), Spares(d, s.w), Leave(d, s),
         kind' = kind, secret' \in [Device -> Key], ReadingOK'
  PROVE  Inv' /\ job' = s.w.job /\ stage' = s.w.stage
<1>1. /\ s.stored \in AnyKey /\ s.k \in KeysType /\ s.p \in PvType /\ s.busy \in BOOLEAN
      /\ s.w \in WriterType /\ kind[d] \in Kinds
  BY DEF Sound, Sights, Inv, Types
<1>2. Writer' = s.w /\ job' = s.w.job /\ stage' = s.w.stage
  BY <1>1 DEF Leave, Become, Writer, WriterType
<1>3. /\ stored' \in [Device -> AnyKey] /\ keys' \in [Device -> KeysType]
      /\ pv' \in [Device -> PvType] /\ provisioning' \in [Kinds -> BOOLEAN]
      /\ keys'[d] = s.k /\ pv'[d] = s.p /\ provisioning'[kind[d]] = s.busy
      /\ \A e \in Device \ {d} : keys'[e] = keys[e] /\ pv'[e] = pv[e]
      /\ \A k \in Kinds \ {kind[d]} : provisioning'[k] = provisioning[k]
  BY <1>1 DEF Leave, Inv, Types
<1>4. Types'
  BY <1>1, <1>2, <1>3 DEF Inv, Types, Sound
<1>5. ASSUME NEW k \in Kinds
      PROVE  provisioning'[k] <=> KeyFor(job', k)
  <2>1. provisioning[k] <=> KeyFor(job, k)
    BY DEF Inv, FlagsBacked, KeyFor
  <2>2. QED
    BY <1>2, <1>3, <2>1 DEF Spares, Sound
<1>6. ASSUME NEW e \in Device
      PROVE  pv'[e].busy <=> PvFor(job', e)
  <2>1. pv[e].busy <=> PvFor(job, e)
    BY DEF Inv, FlagsBacked, PvFor
  <2>2. QED
    BY <1>2, <1>3, <2>1 DEF Spares, Sound
<1>7. FlagsBacked'
  BY <1>5, <1>6 DEF FlagsBacked, KeyFor, PvFor
<1>8. RejectedKeyRests'
  BY <1>3 DEF Inv, RejectedKeyRests, Sound
<1>9. QED
  BY <1>2, <1>4, <1>7, <1>8 DEF Inv

LEMMA TouchedSpares ==
  ASSUME NEW d \in Device, NEW w, Touched(d, Writer, w)
  PROVE  Spares(d, w)
BY FreeAssumption DEF Touched, Spares, KeyFor, PvFor, Writer

LEMMA DoSound ==
  ASSUME Inv, NEW d \in Device, NEW outcomes, Do(d, outcomes), UNCHANGED reading,
         \A t \in outcomes : Sound(d, t) /\ Touched(d, Writer, t.w)
  PROVE  Inv' /\ WriterStep
<1>1. PICK s \in outcomes : Leave(d, s)
  BY DEF Do
<1>2. kind' = kind /\ secret' \in [Device -> Key]
  BY DEF Do, worldVars, Inv, Types
<1>3. Sound(d, s) /\ Spares(d, s.w) /\ Touched(d, Writer, s.w)
  BY <1>1, TouchedSpares
<1>4. job' = s.w.job /\ stage' = s.w.stage
  BY <1>1 DEF Leave, Become
<1>5. WriterStep
  BY <1>3, <1>4 DEF Touched, WriterStep, Writer
<1>6. ReadingOK'
  BY <1>5 DEF WriterStep, Inv, Types, ReadingOK
<1>7. QED
  BY <1>1, <1>2, <1>3, <1>5, <1>6, Left

LEMMA FrameInv ==
  ASSUME Inv, NEW d \in Device, NEW full \in BOOLEAN, Frame(d, full)
  PROVE  Inv' /\ WriterStep
<1> DEFINE outcomes == UNION {Handled(d, s, full) : s \in Met(d, Sight(d))}
<1>1. SUFFICES ASSUME NEW t \in outcomes
               PROVE  Sound(d, t) /\ Touched(d, Writer, t.w)
  <2>1. Do(d, outcomes) /\ UNCHANGED reading
    BY DEF Frame
  <2> HIDE DEF outcomes
  <2>2. QED
    BY <1>1, <2>1, DoSound
<1>2. PICK s \in Met(d, Sight(d)) : t \in Handled(d, s, full)
  BY <1>1
<1>3. Sound(d, s) /\ s.w.job = Writer.job /\ s.w.stage = Writer.stage
  BY <1>2, SightSound, MetSound
<1>4. Sound(d, t) /\ Touched(d, s.w, t.w)
  BY <1>2, <1>3, HandledSound
<1>5. QED
  BY <1>3, <1>4 DEF Touched

LEMMA PvRetryInv ==
  ASSUME Inv, NEW d \in Device, PvRetry(d)
  PROVE  Inv' /\ WriterStep
<1> DEFINE s == [Sight(d) EXCEPT !.p.retry = FALSE]
<1>1. /\ s \in Sights /\ s.w = Writer /\ s.busy = Sight(d).busy
      /\ s.p.busy = Sight(d).p.busy /\ s.k = Sight(d).k
  BY SightSound DEF Sound, Sights, PvType
<1>2. Do(d, PollPv(d, s)) /\ UNCHANGED reading
  BY DEF PvRetry
<1> HIDE DEF s
<1>3. Sound(d, s)
  BY <1>1, SightSound DEF Sound
<1>4. QED
  BY <1>1, <1>2, <1>3, PollPvSound, DoSound

\* A clock changes none of what Sound looks at.
LEMMA ClockInv ==
  ASSUME Inv, NEW d \in Device, NEW s \in Sights, Clock(d, s),
         s.w = Writer, s.busy = Sight(d).busy, s.p.busy = Sight(d).p.busy,
         s.k.invalid = Sight(d).k.invalid, s.k.cached = Sight(d).k.cached
  PROVE  Inv' /\ WriterStep
<1>1. Sound(d, s)
  BY SightSound DEF Sound
<1>2. Touched(d, Writer, s.w)
  BY DEF Touched
<1>3. Do(d, {s}) /\ UNCHANGED reading
  BY DEF Clock, Do
<1>4. QED
  BY <1>1, <1>2, <1>3, DoSound

LEMMA TimeInv ==
  ASSUME Inv, NEW d \in Device, Rest(d) \/ PvStale(d) \/ NewDay(d)
  PROVE  Inv' /\ WriterStep
<1>1. Sight(d) \in Sights /\ Sight(d).w = Writer
  BY SightSound DEF Sound
<1>2. CASE Rest(d)
  <2> DEFINE s == [Sight(d) EXCEPT !.k.rested = TRUE]
  <2>1. /\ s \in Sights /\ s.w = Writer /\ s.busy = Sight(d).busy
        /\ s.p.busy = Sight(d).p.busy /\ s.k.invalid = Sight(d).k.invalid
        /\ s.k.cached = Sight(d).k.cached
    BY <1>1 DEF Sights, KeysType
  <2>2. Clock(d, s)
    BY <1>2 DEF Rest
  <2> HIDE DEF s
  <2>3. QED
    BY <2>1, <2>2, ClockInv
<1>3. CASE PvStale(d)
  <2> DEFINE s == [Sight(d) EXCEPT !.p.fresh = FALSE]
  <2>1. /\ s \in Sights /\ s.w = Writer /\ s.busy = Sight(d).busy
        /\ s.p.busy = Sight(d).p.busy /\ s.k = Sight(d).k
    BY <1>1 DEF Sights, PvType
  <2>2. Clock(d, s)
    BY <1>3 DEF PvStale
  <2> HIDE DEF s
  <2>3. QED
    BY <2>1, <2>2, ClockInv
<1>4. CASE NewDay(d)
  <2> DEFINE s == [Sight(d) EXCEPT !.k.due = TRUE]
  <2>1. /\ s \in Sights /\ s.w = Writer /\ s.busy = Sight(d).busy
        /\ s.p.busy = Sight(d).p.busy /\ s.k.invalid = Sight(d).k.invalid
        /\ s.k.cached = Sight(d).k.cached
    BY <1>1 DEF Sights, KeysType
  <2>2. Clock(d, s)
    BY <1>4 DEF NewDay
  <2> HIDE DEF s
  <2>3. QED
    BY <2>1, <2>2, ClockInv
<1>5. QED
  BY <1>2, <1>3, <1>4

(***************************************************************************)
(* The key session and its answer.                                         *)
(***************************************************************************)

\* While the request stays and is not answered, nothing of the drivers changes.
LEMMA StageChanges ==
  ASSUME Inv, UNCHANGED <<loop, job, agent, driverVars, worldVars>>,
         stage' \in Stage \ {"idle"}, stage # "idle", ReadingOK'
  PROVE  Inv'
<1>1. Writer' \in WriterType /\ (job' = Free <=> stage' = "idle")
  BY DEF Inv, Types, Writer, WriterType
<1>2. Types'
  BY <1>1 DEF Inv, Types, driverVars, worldVars
<1>3. FlagsBacked' /\ RejectedKeyRests'
  BY DEF Inv, FlagsBacked, RejectedKeyRests, driverVars, worldVars
<1>4. QED
  BY <1>2, <1>3 DEF Inv

LEMMA WaysAre == Len(Ways) = 7 /\ \A i \in 1 .. 7 : Ways[i].after \in BOOLEAN
<1>1. Len(Ways) = 7
  BY DEF Ways
<1>2. /\ Ways[1].after = FALSE /\ Ways[2].after = FALSE /\ Ways[3].after = FALSE
      /\ Ways[4].after = TRUE /\ Ways[5].after = TRUE /\ Ways[6].after = TRUE
      /\ Ways[7].after = TRUE
  BY DEF Ways, Plain, Authed
<1>3. ASSUME NEW i \in 1 .. 7
      PROVE  Ways[i].after \in BOOLEAN
  <2>1. i = 1 \/ i = 2 \/ i = 3 \/ i = 4 \/ i = 5 \/ i = 6 \/ i = 7
    OBVIOUS
  <2>2. QED
    BY <1>2, <2>1
<1>4. QED
  BY <1>1, <1>3

LEMMA NotReadingOK ==
  /\ NotReading \in [way : 0 .. Len(Ways), authed : BOOLEAN, key : AnyKey]
  /\ NotReading.way < Len(Ways)
BY WaysAre DEF NotReading, AnyKey

\* A session that asks for a key gets one, gives up or goes on.
LEMMA AskKeyInv ==
  ASSUME Inv, AskKey
  PROVE  Inv'
<1>1. job \in Requests /\ job.dev \in Device /\ secret[job.dev] \in AnyKey
  BY DEF AskKey, Inv, Types, Writer, WriterType, Requests, AnyKey
<1>2. /\ stage = "sent" /\ stage' \in {"good", "bad", "sent"}
      /\ UNCHANGED <<loop, job, agent, driverVars, worldVars>>
  BY DEF AskKey, Quiet
<1> DEFINE way == Ways[reading.way + 1]
           authed == Unlocked(way)
           n == reading.way + 1
<1>3. n \in 1 .. Len(Ways) /\ authed \in BOOLEAN
  <2>1. reading.way \in 0 .. Len(Ways) /\ reading.way < Len(Ways) /\ reading.authed \in BOOLEAN
    BY <1>2 DEF Inv, ReadingOK
  <2>2. n \in 1 .. 7 /\ Len(Ways) = 7
    BY <2>1, WaysAre
  <2>3. way.after \in BOOLEAN
    BY <2>2, WaysAre
  <2>4. QED
    BY <2>1, <2>2, <2>3 DEF Unlocked
<1>4. CASE stage' = "good" /\ reading' = [way |-> n, authed |-> authed, key |-> secret[job.dev]]
  <2>1. secret[job.dev] \in Key
    BY <1>1 DEF Inv, Types
  <2> HIDE DEF n, authed
  <2>2. ReadingOK'
    BY <1>1, <1>3, <1>4, <2>1 DEF ReadingOK
  <2>3. QED
    BY <1>2, <2>2, StageChanges DEF Stage
<1>5. CASE /\ stage' = IF n = Len(Ways) THEN "bad" ELSE stage
           /\ reading' = [reading EXCEPT !.way = n, !.authed = authed]
  <2> HIDE DEF n, authed, way
  <2>1. n \in 0 .. 7 /\ authed \in BOOLEAN /\ Len(Ways) = 7
    BY <1>3, WaysAre
  <2>2. reading \in [way : 0 .. 7, authed : BOOLEAN, key : AnyKey]
    BY <2>1 DEF Inv, ReadingOK
  <2>3. reading' \in [way : 0 .. 7, authed : BOOLEAN, key : AnyKey] /\ reading'.way = n
    BY <1>5, <2>1, <2>2
  <2>4. ReadingOK'
    BY <1>2, <1>5, <2>1, <2>3 DEF ReadingOK
  <2>5. QED
    BY <1>2, <1>5, <2>4, StageChanges DEF Stage
<1>6. QED
  BY <1>4, <1>5 DEF AskKey

\* The answer of a session: the flag it stood for goes down with it, and a key
\* that was read ends the mistrust together with entering the cache.
LEMMA DeliverInv ==
  ASSUME Inv, NEW persisted \in BOOLEAN, Deliver(persisted)
  PROVE  Inv' /\ stage \in {"good", "bad"} /\ job' = Free /\ stage' = "idle"
<1> DEFINE d == job.dev
           f == Finished(Writer)
           s == [Sight(d) EXCEPT !.w = f]
           t == Told(d, s, persisted)
<1>1. job \in Requests /\ d \in Device /\ job # Free
  BY DEF Deliver, Settled, Inv, Types, Writer, WriterType, Requests
<1>2. f \in WriterType /\ f.job = Free /\ f.stage = "idle"
  BY FinishedWriter DEF Inv, Types
<1>3. Sound(d, Sight(d)) /\ Sight(d).w = Writer
  BY <1>1, SightSound
<1>4. s \in Sights /\ s.w = f /\ s.busy = Sight(d).busy /\ s.p = Sight(d).p /\ s.k = Sight(d).k
  BY <1>2, <1>3 DEF Sound, Sights
<1>5. Leave(d, t) /\ UNCHANGED worldVars /\ reading' = NotReading
  <2>1. s = [Sight(d) EXCEPT !.w = Finished(@)]
    BY <1>3
  <2> HIDE DEF s
  <2>2. QED
    BY <2>1 DEF Deliver, Do
<1>6. /\ s.k.invalid => s.k.cached = NoKey
      /\ s.busy <=> KeyFor(job, kind[d])
      /\ s.p.busy <=> PvFor(job, d)
  BY <1>3, <1>4 DEF Sound, Writer
<1> HIDE DEF s, f
<1>7. Sound(d, t)
  <2>1. CASE job.why = "pv"
    <3> DEFINE v == [s EXCEPT !.p.busy = FALSE]
    <3>1. PICK b \in BOOLEAN : t = v \/ t = [v EXCEPT !.p.fresh = TRUE, !.p.shown = b]
      <4>1. (v.p.shown \/ d \in enabled) \in BOOLEAN
        OBVIOUS
      <4>2. QED
        BY <2>1, <4>1 DEF Told, PvDone
    <3> HIDE DEF t
    <3>2. v \in Sights /\ v.w = f /\ v.busy = s.busy /\ v.k = s.k /\ v.p.busy = FALSE
      BY <1>4 DEF Sights, PvType
    <3> HIDE DEF v
    <3>3. t \in Sights /\ t.w = f /\ t.busy = s.busy /\ t.k = s.k /\ t.p.busy = FALSE
      <4>1. v.p \in PvType
        BY <3>2 DEF Sights
      <4> DEFINE q == [v.p EXCEPT !.fresh = TRUE, !.shown = b]
      <4>2. q \in PvType /\ q.busy = FALSE
        BY <3>2, <4>1 DEF PvType
      <4>3. t = v \/ t = [v EXCEPT !.p = q]
        BY <3>1, <3>2, <4>1 DEF Sights, PvType
      <4> HIDE DEF q
      <4>4. QED
        BY <3>2, <4>2, <4>3 DEF Sights
    <3>4. ~s.busy
      BY <1>6, <2>1 DEF KeyFor, KeyJob
    <3>5. QED
      BY <1>2, <1>6, <3>3, <3>4 DEF Sound, KeyFor, PvFor
  <2>2. CASE job.why # "pv"
    <3> DEFINE u == [s EXCEPT !.busy = FALSE]
    <3>1. u \in Sights /\ u.w = f /\ ~u.busy /\ u.p = s.p /\ u.k = s.k
      BY <1>4 DEF Sights
    <3>2. t = u \/ t = Counted(d, u) \/ t = Kept(Counted(d, u))
      BY <2>2 DEF Told
    <3> HIDE DEF t, u
    <3>3. ~s.p.busy
      BY <1>6, <2>2 DEF PvFor
    <3>4. Sound(d, u)
      BY <1>2, <1>6, <3>1, <3>3 DEF Sound, KeyFor, PvFor
    <3> DEFINE c == Counted(d, u)
    <3>5. /\ c \in Sights /\ c.w = u.w /\ c.busy = u.busy /\ c.p = u.p
          /\ c.k.invalid = u.k.invalid /\ c.k.cached = u.k.cached
      BY <3>1, BoundAssumption DEF Counted, Sights, KeysType
    <3> HIDE DEF c
    <3>6. Sound(d, c)
      BY <3>4, <3>5 DEF Sound
    <3> DEFINE k == Kept(c)
    <3>7. k \in Sights /\ k.w = c.w /\ k.busy = c.busy /\ k.p = c.p /\ ~k.k.invalid
      <4>1. reading.key \in AnyKey
        BY DEF Inv, ReadingOK
      <4>2. QED
        BY <3>5, <4>1 DEF Kept, Saved, Sights, KeysType
    <3> HIDE DEF k
    <3>8. Sound(d, k)
      BY <3>6, <3>7 DEF Sound
    <3>9. QED
      BY <3>2, <3>4, <3>6, <3>8 DEF c, k
  <2>3. QED
    BY <2>1, <2>2
<1>8. t.w = f
  <2>1. \/ t = [s EXCEPT !.p.busy = FALSE]
        \/ t = [[s EXCEPT !.p.busy = FALSE] EXCEPT !.p.fresh = TRUE, !.p.shown = @ \/ d \in enabled]
        \/ t = [s EXCEPT !.busy = FALSE]
        \/ t = Counted(d, [s EXCEPT !.busy = FALSE])
        \/ t = Kept(Counted(d, [s EXCEPT !.busy = FALSE]))
    BY DEF Told, PvDone
  <2> HIDE DEF t
  <2>2. QED
    BY <1>4, <2>1 DEF Counted, Kept, Saved, Sights
<1> HIDE DEF t
<1>9. Spares(d, t.w)
  BY <1>2, <1>8 DEF Spares, KeyFor, PvFor
<1>10. job' = Free /\ stage' = "idle"
  BY <1>2, <1>5, <1>8 DEF Leave, Become
<1>11. ReadingOK'
  BY <1>5, <1>10, NotReadingOK DEF ReadingOK
<1>12. QED
  BY <1>1, <1>5, <1>7, <1>9, <1>10, <1>11, Left DEF Inv, Types, worldVars, Deliver, Settled

\* The shunt's own session holds no slot: its key comes to rest the same way.
LEMMA HexReadsInv ==
  ASSUME Inv, NEW d \in Device, HexReads(d)
  PROVE  Inv' /\ WriterStep
<1>1. secret[d] \in AnyKey
  BY DEF Inv, Types, AnyKey
<1>2. keys' = [keys EXCEPT ![d].hex = "got", ![d].got = secret[d]]
      /\ UNCHANGED <<gattVars, worldVars, stored, pv, provisioning, reading>>
  BY DEF HexReads
<1> DEFINE k == [keys[d] EXCEPT !.hex = "got", !.got = secret[d]]
<1>3. k \in KeysType /\ k.invalid = keys[d].invalid /\ k.cached = keys[d].cached
  BY <1>1 DEF Inv, Types, KeysType
<1>4. keys' = [keys EXCEPT ![d] = k]
  BY <1>2 DEF Inv, Types
<1> HIDE DEF k
<1>5. Types'
  BY <1>2, <1>3, <1>4 DEF Inv, Types, Writer, gattVars, worldVars
<1>6. FlagsBacked'
  BY <1>2 DEF Inv, FlagsBacked, gattVars, worldVars
<1>7. RejectedKeyRests'
  BY <1>3, <1>4 DEF Inv, Types, RejectedKeyRests
<1>8. ReadingOK' /\ WriterStep
  BY <1>2 DEF Inv, ReadingOK, WriterStep, gattVars
<1>9. QED
  BY <1>5, <1>6, <1>7, <1>8 DEF Inv

LEMMA HexDeliverInv ==
  ASSUME Inv, NEW d \in Device, NEW persisted \in BOOLEAN, HexDeliver(d, persisted)
  PROVE  Inv' /\ WriterStep
<1> DEFINE key == keys[d].got
           s == [Sight(d) EXCEPT !.k.hex = "off", !.k.got = NoKey]
           k == [Saved(s, key) EXCEPT !.k.cached = key, !.k.invalid = FALSE]
<1>1. key \in AnyKey /\ Sound(d, Sight(d)) /\ Sight(d).w = Writer
  BY SightSound DEF Inv, Types, KeysType
<1>2. Do(d, {IF persisted THEN k ELSE s}) /\ UNCHANGED reading
  BY DEF HexDeliver
<1> HIDE DEF key
<1>3. /\ s \in Sights /\ s.w = Writer /\ s.busy = Sight(d).busy /\ s.p = Sight(d).p
      /\ s.k.invalid = Sight(d).k.invalid /\ s.k.cached = Sight(d).k.cached
  BY <1>1 DEF Sound, Sights, KeysType, AnyKey
<1> HIDE DEF s
<1>4. Sound(d, s)
  BY <1>1, <1>3 DEF Sound
<1>5. k \in Sights /\ k.w = s.w /\ k.busy = s.busy /\ k.p = s.p /\ ~k.k.invalid
  BY <1>1, <1>3 DEF Saved, Sights, KeysType
<1> HIDE DEF k
<1>6. Sound(d, k)
  BY <1>4, <1>5 DEF Sound
<1>7. Touched(d, Writer, s.w) /\ Touched(d, Writer, k.w)
  BY <1>3, <1>5 DEF Touched
<1>8. QED
  BY <1>2, <1>4, <1>6, <1>7, DoSound

(***************************************************************************)
(* What goes wrong.                                                        *)
(***************************************************************************)
LEMMA RestartInv ==
  ASSUME Inv, Restart
  PROVE  Inv' /\ job' = Free /\ stage' = "idle"
<1>1. /\ loop' = "down" /\ job' = Free /\ stage' = "idle" /\ agent' = {}
      /\ keys' = [d \in Device |-> NewKeys(stored[d])]
      /\ pv' = [d \in Device |-> NewPv] /\ provisioning' = [k \in Kinds |-> FALSE]
      /\ reading' = NotReading /\ UNCHANGED <<worldVars, stored>>
  BY DEF Restart, GattRestart
<1>2. Writer' \in WriterType
  BY <1>1 DEF Writer, WriterType, Stage
<1>3. ASSUME NEW d \in Device
      PROVE  NewKeys(stored[d]) \in KeysType /\ ~NewKeys(stored[d]).invalid
  BY BoundAssumption DEF Inv, Types, NewKeys, KeysType, AnyKey
<1>4. NewPv \in PvType /\ ~NewPv.busy
  BY DEF NewPv, PvType
<1>5. Types'
  BY <1>1, <1>2, <1>3, <1>4 DEF Inv, Types, worldVars
<1>6. FlagsBacked' /\ RejectedKeyRests'
  BY <1>1, <1>3, <1>4 DEF FlagsBacked, RejectedKeyRests
<1>7. ReadingOK'
  BY <1>1, NotReadingOK DEF ReadingOK
<1>8. QED
  BY <1>1, <1>5, <1>6, <1>7 DEF Inv

\* What a step does to the writer: the actions of RegisterSession.
SessionStep ==
  \/ WriterStep
  \/ stage = "queued" /\ stage' = "sent" /\ job' = job
  \/ stage = "sent" /\ stage' = "good" /\ job' = job
  \/ stage \in {"queued", "linked", "sent"} /\ stage' = "bad" /\ job' = job
  \/ job' = Free /\ stage' = "idle"

LEMMA TroubleInv ==
  ASSUME Inv, Trouble
  PROVE  Inv' /\ SessionStep
<1>1. CASE SessionFails
  <2>1. ReadingOK'
    BY <1>1 DEF SessionFails, Fail, Quiet, Inv, ReadingOK
  <2>2. QED
    BY <1>1, <2>1, StageChanges DEF SessionFails, Fail, Quiet, Stage, SessionStep
<1>2. CASE Unsettable
  BY <1>2, DeliverInv, HexDeliverInv DEF Unsettable, SessionStep
<1>3. CASE Restart
  BY <1>3, RestartInv DEF SessionStep
<1>4. ASSUME NEW d \in Device, Rekey(d)
      PROVE  Inv' /\ SessionStep
  BY <1>4 DEF Rekey, Inv, Types, ReadingOK, FlagsBacked, RejectedKeyRests, gattVars,
     driverVars, Writer, SessionStep, WriterStep
<1>5. ASSUME NEW d \in Device, Toggle(d)
      PROVE  Inv' /\ SessionStep
  BY <1>5 DEF Toggle, Inv, Types, ReadingOK, FlagsBacked, RejectedKeyRests, gattVars,
     driverVars, Writer, SessionStep, WriterStep
<1>6. ASSUME NEW d \in Device, EnterByHand(d)
      PROVE  Inv' /\ SessionStep
  BY <1>6 DEF EnterByHand, Inv, Types, ReadingOK, FlagsBacked, RejectedKeyRests, gattVars,
     worldVars, Writer, AnyKey, SessionStep, WriterStep
<1>7. QED
  BY <1>1, <1>2, <1>3, <1>4, <1>5, <1>6 DEF Trouble

(***************************************************************************)
(* The theorems.                                                           *)
(***************************************************************************)
LEMMA InitInv == Init => Inv
<1> SUFFICES ASSUME Init
             PROVE  Inv
  OBVIOUS
<1>1. /\ loop = "down" /\ job = Free /\ stage = "idle" /\ agent = {}
      /\ keys = [d \in Device |-> NewKeys(stored[d])]
      /\ pv = [d \in Device |-> NewPv] /\ provisioning = [k \in Kinds |-> FALSE]
      /\ reading = NotReading /\ stored \in [Device -> AnyKey]
  BY DEF Init, GattInit, AnyKey
<1>2. Writer \in WriterType
  BY <1>1 DEF Writer, WriterType, Stage
<1>3. ASSUME NEW d \in Device
      PROVE  NewKeys(stored[d]) \in KeysType /\ ~NewKeys(stored[d]).invalid
  BY <1>1, BoundAssumption DEF NewKeys, KeysType, AnyKey
<1>4. NewPv \in PvType /\ ~NewPv.busy
  BY DEF NewPv, PvType
<1>5. kind \in [Device -> Kinds] /\ secret \in [Device -> Key]
  BY FleetAssumption, KeyAssumption DEF Init
<1>6. Types
  BY <1>1, <1>2, <1>3, <1>4, <1>5 DEF Types
<1>7. FlagsBacked /\ RejectedKeyRests
  BY <1>1, <1>3, <1>4 DEF FlagsBacked, RejectedKeyRests
<1>8. ReadingOK
  BY <1>1, NotReadingOK DEF ReadingOK
<1>9. QED
  BY <1>6, <1>7, <1>8 DEF Inv

LEMMA NextInv == Inv /\ [Next]_vars => Inv' /\ SessionStep
<1> SUFFICES ASSUME Inv, [Next]_vars
             PROVE  Inv' /\ SessionStep
  OBVIOUS
<1>1. CASE Link
  <2>1. ReadingOK'
    BY <1>1 DEF Link, Inv, ReadingOK
  <2>2. QED
    BY <1>1, <2>1, StageChanges DEF Link, Quiet, Stage, SessionStep
<1>2. CASE AskKey
  <2>1. stage = "sent" /\ stage' \in {"good", "bad", "sent"} /\ job' = job
    BY <1>2 DEF AskKey
  <2>2. QED
    BY <1>2, <2>1, AskKeyInv DEF SessionStep, WriterStep
<1>3. CASE ReadPv
  <2>1. ReadingOK'
    BY <1>3 DEF ReadPv, Complete, Inv, ReadingOK, KeyJob
  <2>2. QED
    BY <1>3, <2>1, StageChanges DEF ReadPv, Complete, Quiet, Stage, SessionStep
<1>4. CASE Delivered
  BY <1>4, DeliverInv DEF Delivered, SessionStep
<1>5. CASE Trouble
  BY <1>5, TroubleInv
<1>6. ASSUME NEW d \in Device, Driver(d)
      PROVE  Inv' /\ SessionStep
  BY <1>6, FrameInv, PvRetryInv, TimeInv, HexReadsInv, HexDeliverInv
     DEF Driver, HexDelivered, SessionStep
<1>7. CASE UNCHANGED vars
  BY <1>7 DEF vars, gattVars, worldVars, driverVars, Inv, Types, ReadingOK, Writer, FlagsBacked,
     RejectedKeyRests, SessionStep, WriterStep
<1>8. QED
  BY <1>1, <1>2, <1>3, <1>4, <1>5, <1>6, <1>7 DEF Next, Session

\* The fleet and what happens to it from outside.
World ==
  /\ kind \in Fleet /\ enabled \in SUBSET Device /\ bonded \in SUBSET Device
  /\ trouble \in 0 .. MaxTrouble

LEMMA WorldInv == Inv /\ World /\ [Next]_vars => World'
<1> SUFFICES ASSUME Inv, World, [Next]_vars
             PROVE  World'
  OBVIOUS
<1>1. CASE Link
  <2>1. job.dev \in Device
    BY <1>1 DEF Link, Inv, Types, Writer, WriterType, Requests
  <2>2. QED
    BY <1>1, <2>1 DEF Link, Quiet, worldVars, World
<1>2. CASE AskKey \/ ReadPv
  BY <1>2 DEF AskKey, ReadPv, Complete, Quiet, worldVars, World
<1>3. CASE Delivered
  BY <1>3 DEF Delivered, Deliver, Do, worldVars, World
<1>4. CASE Trouble
  <2>1. trouble' \in 0 .. MaxTrouble
    BY <1>4, BoundAssumption DEF Trouble, World
  <2>2. CASE SessionFails \/ Restart
    BY <2>1, <2>2 DEF SessionFails, Fail, Quiet, Restart, GattRestart, worldVars, World
  <2>3. CASE Unsettable
    BY <2>1, <2>3 DEF Unsettable, Deliver, HexDeliver, Do, worldVars, World
  <2>4. ASSUME NEW d \in Device, Rekey(d) \/ Toggle(d) \/ EnterByHand(d)
        PROVE  World'
    BY <2>1, <2>4 DEF Rekey, Toggle, EnterByHand, gattVars, worldVars, World
  <2>5. QED
    BY <1>4, <2>2, <2>3, <2>4 DEF Trouble
<1>5. ASSUME NEW d \in Device, Driver(d)
      PROVE  World'
  BY <1>5 DEF Driver, Frame, Rest, PvRetry, PvStale, NewDay, Clock, HexReads, HexDelivered,
     HexDeliver, Do, gattVars, worldVars, World
<1>6. CASE UNCHANGED vars
  BY <1>6 DEF vars, gattVars, worldVars, World
<1>7. QED
  BY <1>1, <1>2, <1>3, <1>4, <1>5, <1>6 DEF Next, Session

\* The inductive invariant holds in every behaviour.
THEOREM InductiveInvariant == Spec => []Inv
<1>1. Inv /\ [Next]_vars => Inv'
  BY NextInv
<1>2. QED
  BY InitInv, <1>1, PTL DEF Spec

\* The types of KeySessions: among them that a pairing agent waits only for the
\* device of the request at hand, that a SmartSolar stops after
\* _PROVISION_MAX_ATTEMPTS, that a key session never runs out of forms to ask
\* in while it goes on, and that one that ended well has read a key.
THEOREM TypeCorrect == Spec => []TypeOK
<1>1. Init => World
  BY BoundAssumption DEF Init, GattInit, World
<1>2. Inv /\ World => TypeOK
  BY DEF Inv, Types, ReadingOK, World, TypeOK, Writer, WriterType, KeysType, PvType, AnyKey
<1>3. QED
  BY <1>1, <1>2, WorldInv, InductiveInvariant, PTL DEF Spec

\* The flags _provision_busy of a kind and _pv_poll_busy of a device are up
\* exactly while the writer works for them, however sessions end.
THEOREM FlagsBackedAlways == Spec => []FlagsBacked
<1>1. Inv => FlagsBacked
  BY DEF Inv
<1>2. QED
  BY <1>1, InductiveInvariant, PTL

\* A key that failed to decode a frame is not used again until a session or a
\* restart brings one (_stored_key_invalid against the cache).
THEOREM RejectedKeyRestsAlways == Spec => []RejectedKeyRests
<1>1. Inv => RejectedKeyRests
  BY DEF Inv
<1>2. QED
  BY <1>1, InductiveInvariant, PTL

\* The writer implements a register session for these drivers too: however many
\* forms a key session tries, it is one session, taken when the slot is free and
\* answered once (AsyncGATTWriter.provision_key and read_instance_pushes).
THEOREM OneSessionAlways == Spec => OneSession
<1>1. Init => Promise!SessionInit
  BY DEF Init, GattInit, Promise!SessionInit
<1>2. ASSUME Inv, SessionStep
      PROVE  [Promise!SessionNext]_(Promise!sessionVars)
  BY <1>2 DEF Inv, Types, SessionStep, WriterStep, Promise!SessionNext, Promise!sessionVars,
     Promise!Ask, Promise!Send, Promise!Succeed, Promise!Give, Promise!Answer,
     Promise!AnswerAndAsk, Promise!Abandon
<1>3. Inv /\ [Next]_vars => [Promise!SessionNext]_(Promise!sessionVars)
  BY <1>2, NextInv
<1>4. QED
  BY <1>1, <1>3, InductiveInvariant, PTL DEF Spec, OneSession, Promise!SessionSpec
===============================================================================
