------------------------- MODULE ChargerControlProofs -------------------------
(***************************************************************************)
(* Proofs about ChargerControl, for every set of chargers, of setpoints    *)
(* and of faults: no write is stranded, the flag of a telemetry poll is    *)
(* backed by the poll, /State and NetworkStatus tell the same, and the     *)
(* writer implements RegisterSession.                                      *)
(*                                                                         *)
(* A handler is a set of outcomes, each a record of what the handler sees  *)
(* (Sight).  So the argument is about such records: every helper takes a   *)
(* record that is Backed to records that are Backed, and either leaves the *)
(* writer's slot alone or fills it with a request of this charger          *)
(* (Touched); the helpers that end a chain also leave no pending write     *)
(* behind (Served).  One lemma, Left, carries an outcome back to the state *)
(* and says what it means for the other chargers.                          *)
(***************************************************************************)
EXTENDS ChargerControl, TLAPS

PendingEntry == [reg : Register, val : Value, why : Reason \ {"poll"}]

\* At most one write of a register waits.
Queues ==
  {q \in Seq(PendingEntry) : \A i, j \in DOMAIN q : q[i].reg = q[j].reg => i = j}

DriverType ==
  [engaged : BOOLEAN, advertised : {"off", "bulk"}, seen : Shown,
   pending : Queues, drain : BOOLEAN,
   pushed : [{"current", "voltage"} -> Value],
   userType : BOOLEAN, polling : BOOLEAN, retry : BOOLEAN]

RoleType ==
  [at : [Setpoint \cup Switch -> Value], status : {"dvcc", "standalone"}, state : Shown,
   enabled : BOOLEAN]

ProfileType == [Profile -> Value]

\* A pairing agent waits only for the device of the request at hand.
WriterType ==
  {w \in [loop : {"down", "up", "failed"}, job : Requests \cup {Free}, stage : Stage,
          agent : SUBSET Device] :
     w.agent # {} => w.job # Free /\ w.agent = {w.job.dev}}

Sights == [d : DriverType, r : RoleType, p : ProfileType, w : WriterType]

\* The request j is one of charger c.
Holds(j, c) == j # Free /\ j.dev = c

PollBacked(c, s) == s.d.polling <=> Holds(s.w.job, c) /\ s.w.job.why = "poll"

\* What the publisher wrote last is what was advertised last, unless external
\* control hid it.
StateTold(s) ==
  /\ s.r.state = Derived(s.d) /\ (s.r.status = "dvcc" <=> s.d.engaged)
  /\ s.d.seen \in {"unseen", "external", s.d.advertised}

Backed(c, s) ==
  /\ s \in Sights
  /\ s.w.job = Free <=> s.w.stage = "idle"
  /\ PollBacked(c, s) /\ StateTold(s)

Served(c, s) ==
  s.d.pending # <<>> => s.d.drain \/ (Holds(s.w.job, c) /\ s.w.job.why # "poll")

Touched(c, w, x) ==
  \/ x.job = w.job /\ x.stage = w.stage
  \/ w.job = Free /\ x.job \in Requests /\ x.job.dev = c /\ x.stage = "queued"

\* What is told of the control stays.
Steady(s, t) == t.d.engaged = s.d.engaged /\ t.r.at = s.r.at

\* The whole state.
Inv ==
  /\ drv \in [Device -> DriverType] /\ role \in [Device -> RoleType]
  /\ saved \in [Device -> ProfileType] /\ Writer \in WriterType
  /\ job = Free <=> stage = "idle"
  /\ \A c \in Device : Backed(c, Sight(c)) /\ Served(c, Sight(c))

(***************************************************************************)
(* The writer.                                                             *)
(***************************************************************************)
LEMMA StartsWriter ==
  ASSUME NEW w \in WriterType, NEW x \in Starts(w)
  PROVE  x \in WriterType /\ x.job = w.job /\ x.stage = w.stage
BY DEF Starts, WriterType

LEMMA OpenedWriter ==
  ASSUME NEW w \in WriterType, NEW r \in Requests
  PROVE  /\ Opened(w, r) \in WriterType
         /\ Opened(w, r).job = r /\ Opened(w, r).stage = "queued"
<1>1. r # Free /\ r.dev \in Device
  BY FreeAssumption DEF Requests
<1>2. AgentFor(r.dev) \in SUBSET Device /\ (AgentFor(r.dev) # {} => AgentFor(r.dev) = {r.dev})
  BY <1>1 DEF AgentFor
<1>3. QED
  BY <1>1, <1>2 DEF Opened, WriterType, Stage

LEMMA FinishedWriter ==
  ASSUME NEW w \in WriterType
  PROVE  /\ Finished(w) \in WriterType
         /\ Finished(w).job = Free /\ Finished(w).stage = "idle"
BY DEF Finished, WriterType, Stage

LEMMA TouchedTransitive ==
  ASSUME NEW c, NEW w, NEW x, NEW y, Touched(c, w, x), Touched(c, x, y)
  PROVE  Touched(c, w, y)
BY FreeAssumption DEF Touched

LEMMA RequestOf ==
  ASSUME NEW c \in Device, NEW e \in PendingEntry
  PROVE  /\ Request(c, e) \in Requests /\ Request(c, e) # Free
         /\ Request(c, e).dev = c /\ Request(c, e).why # "poll"
BY FreeAssumption DEF Request, Requests, PendingEntry

LEMMA PollRequest ==
  ASSUME NEW c \in Device
  PROVE  /\ Request(c, Poll) \in Requests /\ Request(c, Poll) # Free
         /\ Request(c, Poll).dev = c /\ Request(c, Poll).why = "poll"
BY FreeAssumption DEF Request, Requests, Poll, Entry, Register, Value, Reason, Unset

(***************************************************************************)
(* The telemetry poll and the write queue.                                 *)
(***************************************************************************)

\* A change of the writer that keeps its request keeps what is Backed.
LEMMA WriterKept ==
  ASSUME NEW c, NEW s, Backed(c, s), NEW w \in WriterType,
         w.job = s.w.job, w.stage = s.w.stage
  PROVE  /\ Backed(c, [s EXCEPT !.w = w]) /\ Steady(s, [s EXCEPT !.w = w])
         /\ [s EXCEPT !.w = w].d = s.d /\ [s EXCEPT !.w = w].w = w
BY DEF Backed, Sights, PollBacked, StateTold, Steady

\* A poll that is asked for either starts, in a free slot, or leaves things be.
LEMMA MaybePollBacked ==
  ASSUME NEW c \in Device, NEW s, Backed(c, s), NEW t \in MaybePoll(c, s)
  PROVE  /\ Backed(c, t) /\ Touched(c, s.w, t.w) /\ Steady(s, t)
         /\ t.d.pending = s.d.pending /\ t.d.drain = s.d.drain
<1>1. s \in Sights /\ s.w \in WriterType
  BY DEF Backed, Sights
<1>2. CASE t = s
  BY <1>2 DEF Touched, Steady
<1>3. CASE t = [s EXCEPT !.d.retry = TRUE]
  BY <1>1, <1>3 DEF Backed, Sights, DriverType, PollBacked, StateTold, Derived, Touched, Steady
<1>4. CASE /\ ~s.d.polling /\ ~Busy(s.w)
           /\ \E w \in Starts(s.w) :
                t = [s EXCEPT !.d.polling = Accepts(w),
                              !.w = IF Accepts(w) THEN Opened(w, Request(c, Poll)) ELSE w]
  <2>1. PICK w \in Starts(s.w) :
          t = [s EXCEPT !.d.polling = Accepts(w),
                        !.w = IF Accepts(w) THEN Opened(w, Request(c, Poll)) ELSE w]
    BY <1>4
  <2>2. w \in WriterType /\ w.job = s.w.job /\ w.stage = s.w.stage /\ s.w.job = Free
    BY <1>1, <1>4, StartsWriter DEF Busy
  <2>3. CASE Accepts(w)
    <3> DEFINE x == Opened(w, Request(c, Poll))
    <3>1. /\ x \in WriterType /\ x.job \in Requests /\ x.job # Free /\ x.job.dev = c
          /\ x.job.why = "poll" /\ x.stage = "queued"
      BY <2>2, OpenedWriter, PollRequest
    <3> HIDE DEF x
    <3>2. t = [s EXCEPT !.d.polling = TRUE, !.w = x]
      BY <2>1, <2>3 DEF x
    <3>3. QED
      BY <1>1, <2>2, <3>1, <3>2 DEF Backed, Sights, DriverType, PollBacked, StateTold,
         Derived, Touched, Holds, Steady
  <2>4. CASE ~Accepts(w)
    <3>1. Accepts(w) = FALSE
      BY <2>4 DEF Accepts
    <3>2. t = [s EXCEPT !.d.polling = FALSE, !.w = w]
      BY <2>1, <3>1
    <3>3. QED
      BY <1>1, <2>2, <3>2 DEF Backed, Sights, DriverType, PollBacked, StateTold,
         Derived, Touched, Holds, Steady
  <2>5. QED
    BY <2>3, <2>4
<1>5. QED
  BY <1>2, <1>3, <1>4 DEF MaybePoll

\* What the end of a write needs to know of it.
EndOf(e) == e.val \in Value /\ e.why \in Reason \ {"poll"}

LEMMA CompletedBacked ==
  ASSUME NEW c \in Device, NEW s, Backed(c, s), NEW e, EndOf(e), NEW ok \in BOOLEAN
  PROVE  /\ Backed(c, Completed(s, e, ok)) /\ Completed(s, e, ok).w = s.w
         /\ Steady(s, Completed(s, e, ok))
         /\ Completed(s, e, ok).d.pending = s.d.pending
<1>1. s \in Sights
  BY DEF Backed
<1>2. CASE ~ok
  BY <1>2 DEF Completed, Steady
<1>3. CASE ok /\ e.why = "type"
  BY <1>1, <1>3 DEF Completed, Backed, Sights, DriverType, PollBacked, StateTold, Derived, Steady
<1>4. CASE ok /\ e.why \in {"linkVoltage", "linkCurrent"}
  <2>1. Completed(s, e, ok) = [s EXCEPT !.d.pushed[e.reg] = e.val]
    BY <1>4 DEF Completed
  <2>2. QED
    BY <1>1, <2>1 DEF Backed, Sights, DriverType, PollBacked, StateTold, Derived, EndOf, Steady
<1>5. CASE ok /\ e.why \in {"limit", "absorption"}
  <2>1. Completed(s, e, ok) = [s EXCEPT !.d.pushed[e.reg] = e.val, !.p[e.why] = e.val]
    BY <1>5 DEF Completed
  <2> DEFINE q == [s.d.pushed EXCEPT ![e.reg] = e.val]
             pr == [s.p EXCEPT ![e.why] = e.val]
  <2>2. q \in [{"current", "voltage"} -> Value] /\ pr \in ProfileType
    BY <1>1 DEF Sights, DriverType, ProfileType, EndOf
  <2>3. Completed(s, e, ok) = [s EXCEPT !.d.pushed = q, !.p = pr]
    BY <2>1
  <2> HIDE DEF q, pr
  <2> DEFINE t == [s EXCEPT !.d.pushed = q, !.p = pr]
  <2>4. t \in Sights
    BY <1>1, <2>2 DEF Sights, DriverType
  <2>5. /\ t.w = s.w /\ t.r = s.r /\ t.d.polling = s.d.polling /\ t.d.seen = s.d.seen
        /\ t.d.engaged = s.d.engaged /\ t.d.advertised = s.d.advertised
        /\ t.d.pending = s.d.pending
    BY <1>1 DEF Sights, DriverType
  <2> HIDE DEF t
  <2>6. Backed(c, t)
    BY <2>4, <2>5 DEF Backed, PollBacked, StateTold, Derived
  <2>7. QED
    BY <2>3, <2>5, <2>6 DEF t, Steady
<1>6. CASE ok /\ e.why = "floatVoltage"
  <2>1. Completed(s, e, ok) = [s EXCEPT !.p[e.why] = e.val]
    BY <1>6 DEF Completed
  <2>2. QED
    BY <1>1, <2>1 DEF Backed, Sights, ProfileType, PollBacked, StateTold, Derived,
       EndOf, Steady
<1>7. QED
  BY <1>2, <1>3, <1>4, <1>5, <1>6 DEF EndOf, Reason, Setpoint

\* What Backed looks at.
LEMMA BackedAlike ==
  ASSUME NEW c, NEW s, Backed(c, s), NEW t \in Sights,
         t.w.job = s.w.job, t.w.stage = s.w.stage,
         t.r.state = s.r.state, t.r.status = s.r.status,
         t.d.polling = s.d.polling, t.d.seen = s.d.seen,
         t.d.engaged = s.d.engaged, t.d.advertised = s.d.advertised
  PROVE  Backed(c, t)
BY DEF Backed, PollBacked, StateTold, Derived

\* Setting the drain timer changes nothing else.
LEMMA DrainSet ==
  ASSUME NEW c, NEW s, Backed(c, s), NEW on \in BOOLEAN
  PROVE  LET t == [s EXCEPT !.d.drain = on]
         IN  /\ Backed(c, t) /\ t.w = s.w /\ Steady(s, t)
             /\ t.d.pending = s.d.pending /\ t.d.drain = on
<1> DEFINE t == [s EXCEPT !.d.drain = on]
<1>1. /\ t \in Sights /\ t.w = s.w /\ t.r = s.r /\ t.d.polling = s.d.polling
      /\ t.d.seen = s.d.seen /\ t.d.engaged = s.d.engaged
      /\ t.d.advertised = s.d.advertised /\ t.d.pending = s.d.pending /\ t.d.drain = on
  BY DEF Backed, Sights, DriverType
<1>2. QED
  BY <1>1, BackedAlike DEF Steady

\* So does asking for another poll, or giving up on it.
LEMMA RetrySet ==
  ASSUME NEW c, NEW s, Backed(c, s), NEW on \in BOOLEAN
  PROVE  LET t == [s EXCEPT !.d.retry = on]
         IN  /\ Backed(c, t) /\ t.w = s.w /\ Steady(s, t)
             /\ t.d.pending = s.d.pending /\ t.d.drain = s.d.drain
<1> DEFINE t == [s EXCEPT !.d.retry = on]
<1>1. /\ t \in Sights /\ t.w = s.w /\ t.r = s.r /\ t.d.polling = s.d.polling
      /\ t.d.seen = s.d.seen /\ t.d.engaged = s.d.engaged
      /\ t.d.advertised = s.d.advertised
      /\ t.d.pending = s.d.pending /\ t.d.drain = s.d.drain
  BY DEF Backed, Sights, DriverType
<1>2. QED
  BY <1>1, BackedAlike DEF Steady

\* Other pending writes.
LEMMA PendingSet ==
  ASSUME NEW c, NEW s, Backed(c, s), NEW q \in Queues
  PROVE  LET t == [s EXCEPT !.d.pending = q]
         IN  Backed(c, t) /\ t.w = s.w /\ Steady(s, t) /\ t.d.pending = q
<1> DEFINE t == [s EXCEPT !.d.pending = q]
<1>1. /\ t \in Sights /\ t.w = s.w /\ t.r = s.r /\ t.d.polling = s.d.polling
      /\ t.d.seen = s.d.seen /\ t.d.engaged = s.d.engaged
      /\ t.d.advertised = s.d.advertised /\ t.d.pending = q
  BY DEF Backed, Sights, DriverType
<1>2. QED
  BY <1>1, BackedAlike DEF Steady

LEMMA TouchedSame ==
  ASSUME NEW c, NEW s, NEW t, t.w = s.w
  PROVE  Touched(c, s.w, t.w)
BY DEF Touched

\* The end of a write: pending ones get the timer, else a poll may start.
LEMMA AfterWriteBacked ==
  ASSUME NEW c \in Device, NEW s, Backed(c, s), NEW e, EndOf(e), NEW ok \in BOOLEAN,
         NEW t \in AfterWrite(c, s, e, ok)
  PROVE  Backed(c, t) /\ Served(c, t) /\ Touched(c, s.w, t.w) /\ Steady(s, t)
<1> DEFINE u == Completed(s, e, ok)
<1>1. Backed(c, u) /\ u.w = s.w /\ Steady(s, u)
  BY CompletedBacked
<1>2. CASE u.d.pending # <<>>
  <2>1. t = [u EXCEPT !.d.drain = TRUE]
    BY <1>2 DEF AfterWrite
  <2> HIDE DEF u
  <2>2. Backed(c, t) /\ t.w = u.w /\ t.d.drain /\ Steady(u, t)
    BY <1>1, <2>1, DrainSet
  <2>3. QED
    BY <1>1, <2>2 DEF Served, Touched, Steady
<1>3. CASE u.d.pending = <<>>
  <2>1. t \in MaybePoll(c, u)
    BY <1>3 DEF AfterWrite
  <2> HIDE DEF u
  <2>2. Backed(c, t) /\ Touched(c, u.w, t.w) /\ t.d.pending = <<>> /\ Steady(u, t)
    BY <1>1, <1>3, <2>1, MaybePollBacked
  <2>3. QED
    BY <1>1, <2>2 DEF Served, Steady
<1>4. QED
  BY <1>2, <1>3

\* The write that is taken from the queue leaves the others in their order.
LEMMA TailQueue ==
  ASSUME NEW q \in Queues, q # <<>>
  PROVE  Head(q) \in PendingEntry /\ Tail(q) \in Queues
<1>1. /\ q \in Seq(PendingEntry) /\ Len(q) \in Nat \ {0} /\ DOMAIN q = 1..Len(q)
      /\ \A i, j \in 1..Len(q) : q[i].reg = q[j].reg => i = j
  BY DEF Queues
<1>2. /\ Tail(q) \in Seq(PendingEntry) /\ DOMAIN Tail(q) = 1..(Len(q) - 1)
      /\ \A i \in 1..(Len(q) - 1) : Tail(q)[i] = q[i + 1]
  BY <1>1
<1>3. ASSUME NEW i \in DOMAIN Tail(q), NEW j \in DOMAIN Tail(q),
             Tail(q)[i].reg = Tail(q)[j].reg
      PROVE  i = j
  <2>1. i + 1 \in 1..Len(q) /\ j + 1 \in 1..Len(q) /\ q[i + 1].reg = q[j + 1].reg
    BY <1>1, <1>2, <1>3
  <2>2. i + 1 = j + 1
    BY <1>1, <2>1
  <2>3. QED
    BY <2>2
<1>4. Tail(q) \in Queues
  <2> DEFINE t == Tail(q)
  <2>1. t \in Seq(PendingEntry) /\ \A i, j \in DOMAIN t : t[i].reg = t[j].reg => i = j
    BY <1>2, <1>3
  <2> HIDE DEF t
  <2>2. t \in Queues
    BY <2>1 DEF Queues
  <2>3. QED
    BY <2>2 DEF t
<1>5. QED
  BY <1>1, <1>4

\* No write waits at first.
LEMMA EmptyQueue == <<>> \in Queues
  BY DEF Queues

\* The queue is worked on: whatever the writer does, a write that stays pending
\* has the timer or a write of the same charger to wait for.
LEMMA KickBacked ==
  ASSUME NEW c \in Device, NEW s, Backed(c, s), NEW t \in Kick(c, s)
  PROVE  Backed(c, t) /\ Served(c, t) /\ Touched(c, s.w, t.w) /\ Steady(s, t)
<1>1. s \in Sights /\ s.w \in WriterType /\ s.d.pending \in Queues
  BY DEF Backed, Sights, DriverType
<1>2. CASE s.d.pending = <<>>
  BY <1>2 DEF Kick, Served, Touched, Steady
<1>3. CASE s.d.pending # <<>> /\ Busy(s.w)
  <2>1. t = [s EXCEPT !.d.drain = TRUE]
    BY <1>3 DEF Kick
  <2>2. Backed(c, t) /\ t.w = s.w /\ t.d.drain /\ Steady(s, t)
    BY <2>1, DrainSet
  <2>3. QED
    BY <2>2 DEF Served, Touched
<1>4. CASE s.d.pending # <<>> /\ ~Busy(s.w)
  <2> DEFINE e == Head(s.d.pending)
             u == [s EXCEPT !.d.pending = Tail(@)]
  <2>1. e \in PendingEntry /\ Tail(s.d.pending) \in Queues
    BY <1>1, <1>4, TailQueue
  <2>2. Backed(c, u) /\ u.w = s.w /\ Steady(s, u)
    BY <2>1, PendingSet
  <2>3. PICK w \in Starts(s.w) :
          t \in IF Accepts(w) THEN {[u EXCEPT !.w = Opened(w, Request(c, e))]}
                ELSE AfterWrite(c, [u EXCEPT !.w = w], e, FALSE)
    BY <1>4 DEF Kick
  <2>4. w \in WriterType /\ w.job = s.w.job /\ w.stage = s.w.stage /\ s.w.job = Free
    BY <1>1, <1>4, StartsWriter DEF Busy
  <2> HIDE DEF e, u
  <2>5. CASE Accepts(w)
    <3> DEFINE x == Opened(w, Request(c, e))
    <3>1. /\ x \in WriterType /\ x.job \in Requests /\ x.job # Free /\ x.job.dev = c
          /\ x.job.why # "poll" /\ x.stage = "queued"
      BY <2>1, <2>4, OpenedWriter, RequestOf
    <3>2. t = [u EXCEPT !.w = x]
      BY <2>3, <2>5
    <3> HIDE DEF x
    <3>3. t \in Sights /\ t.d = u.d /\ t.r = u.r /\ t.w = x
      BY <2>2, <3>1, <3>2 DEF Backed, Sights
    <3>4. ~u.d.polling
      BY <2>2, <2>4 DEF Backed, PollBacked, Holds
    <3>5. Backed(c, t)
      BY <2>2, <3>1, <3>3, <3>4 DEF Backed, PollBacked, StateTold, Holds
    <3>6. QED
      BY <2>2, <2>4, <3>1, <3>3, <3>5 DEF Served, Touched, Holds, Steady
  <2>6. CASE ~Accepts(w)
    <3> DEFINE v == [u EXCEPT !.w = w]
    <3>1. t \in AfterWrite(c, v, e, FALSE)
      BY <2>3, <2>6
    <3>2. Backed(c, v) /\ v.w = w /\ Steady(u, v)
      BY <2>2, <2>4, WriterKept
    <3> HIDE DEF v
    <3>3. EndOf(e)
      BY <2>1 DEF PendingEntry, EndOf
    <3>4. Backed(c, t) /\ Served(c, t) /\ Touched(c, w, t.w) /\ Steady(v, t)
      BY <3>1, <3>2, <3>3, AfterWriteBacked
    <3>5. QED
      BY <2>2, <2>4, <3>2, <3>4 DEF Touched, Steady
  <2>7. QED
    BY <2>5, <2>6
<1>5. QED
  BY <1>2, <1>3, <1>4

\* A later write of a register takes the place of the one that waits.
LEMMA PlaceEntry ==
  ASSUME NEW q \in Queues, NEW e \in PendingEntry
  PROVE  Place(q, e) \in Queues
<1>1. /\ q \in Seq(PendingEntry) /\ DOMAIN q = 1..Len(q) /\ Len(q) \in Nat
      /\ \A i \in 1..Len(q) : q[i] \in PendingEntry
      /\ \A i, j \in 1..Len(q) : q[i].reg = q[j].reg => i = j
  BY DEF Queues
<1>2. CASE \E i \in DOMAIN q : q[i].reg = e.reg
  <2> DEFINE p == [i \in 1..Len(q) |-> IF q[i].reg = e.reg THEN e ELSE q[i]]
  <2>1. p \in Seq(PendingEntry) /\ DOMAIN p = 1..Len(q)
    BY <1>1
  <2>2. \A i \in 1..Len(q) : p[i].reg = q[i].reg
    OBVIOUS
  <2>3. Place(q, e) = p
    BY <1>1, <1>2 DEF Place
  <2> HIDE DEF p
  <2>4. QED
    BY <1>1, <2>1, <2>2, <2>3 DEF Queues
<1>3. CASE ~\E i \in DOMAIN q : q[i].reg = e.reg
  <2> DEFINE p == Append(q, e)
  <2>1. /\ p \in Seq(PendingEntry) /\ DOMAIN p = 1..(Len(q) + 1)
        /\ \A i \in 1..Len(q) : p[i] = q[i]
        /\ p[Len(q) + 1] = e
    BY <1>1
  <2>2. Place(q, e) = p
    BY <1>3 DEF Place
  <2> HIDE DEF p
  <2>3. ASSUME NEW i \in DOMAIN p, NEW j \in DOMAIN p, p[i].reg = p[j].reg
        PROVE  i = j
    BY <1>1, <1>3, <2>1, <2>3
  <2>4. QED
    BY <2>1, <2>2, <2>3 DEF Queues
<1>4. QED
  BY <1>2, <1>3

LEMMA EnqueueBacked ==
  ASSUME NEW c \in Device, NEW s, Backed(c, s), NEW e \in PendingEntry,
         NEW t \in Enqueue(c, s, e)
  PROVE  Backed(c, t) /\ Served(c, t) /\ Touched(c, s.w, t.w) /\ Steady(s, t)
<1> DEFINE q == Place(s.d.pending, e)
           u == [s EXCEPT !.d.pending = q]
<1>1. q \in Queues
  BY PlaceEntry DEF Backed, Sights, DriverType
<1>2. t \in Kick(c, u)
  BY DEF Enqueue
<1> HIDE DEF q
<1>3. Backed(c, u) /\ u.w = s.w /\ Steady(s, u)
  BY <1>1, PendingSet
<1> HIDE DEF u
<1>4. QED
  BY <1>2, <1>3, KickBacked DEF Steady

LEMMA EnqueueVoltageBacked ==
  ASSUME NEW c \in Device, NEW s, Backed(c, s), NEW e \in PendingEntry,
         NEW t \in EnqueueVoltage(c, s, e)
  PROVE  Backed(c, t) /\ Served(c, t) /\ Touched(c, s.w, t.w) /\ Steady(s, t)
<1>1. PICK u \in EnsureUserType(c, s) : t \in Enqueue(c, u, e)
  BY DEF EnqueueVoltage
<1>2. Backed(c, u) /\ Touched(c, s.w, u.w) /\ Steady(s, u)
  <2>1. CASE u = s
    BY <2>1 DEF Touched, Steady
  <2>2. CASE u \in Enqueue(c, s, Entry("type", UserType, "type"))
    <3>1. Entry("type", UserType, "type") \in PendingEntry
      BY DEF Entry, PendingEntry, Register, Value, Reason, UserType
    <3>2. QED
      BY <2>2, <3>1, EnqueueBacked
  <2>3. QED
    BY <2>1, <2>2 DEF EnsureUserType
<1>3. Backed(c, t) /\ Served(c, t) /\ Touched(c, u.w, t.w) /\ Steady(u, t)
  BY <1>1, <1>2, EnqueueBacked
<1>4. QED
  BY <1>2, <1>3, TouchedTransitive DEF Steady

(***************************************************************************)
(* Setpoints, switches and published states.                               *)
(***************************************************************************)
LEMMA EngageBacked ==
  ASSUME NEW c, NEW s, Backed(c, s), NEW on \in BOOLEAN
  PROVE  LET t == Engage(s, on)
         IN  /\ Backed(c, t) /\ t.w = s.w
             /\ t.d.engaged = on /\ t.r.at = s.r.at
             /\ t.d.pending = s.d.pending /\ t.d.drain = s.d.drain
<1> DEFINE d == [s.d EXCEPT !.engaged = on]
           st == IF s.d.engaged = on THEN s.r.state ELSE Derived(d)
           status == IF on THEN "dvcc" ELSE "standalone"
           t == [s EXCEPT !.d = d, !.r.status = status, !.r.state = st]
<1>1. Engage(s, on) = t
  BY DEF Engage
<1>2. /\ d \in DriverType /\ d.engaged = on /\ d.advertised = s.d.advertised
      /\ d.seen = s.d.seen /\ d.polling = s.d.polling
      /\ d.pending = s.d.pending /\ d.drain = s.d.drain
  BY DEF Backed, Sights, DriverType
<1>3. st = Derived(d) /\ st \in Shown
  BY <1>2 DEF Backed, StateTold, Derived, Sights, DriverType, Shown
<1>4. status \in {"dvcc", "standalone"} /\ (status = "dvcc" <=> on)
  OBVIOUS
<1> HIDE DEF d, st, status
<1>5. /\ t \in Sights /\ t.d = d /\ t.w = s.w /\ t.r.status = status /\ t.r.state = st
      /\ t.r.at = s.r.at
  BY <1>2, <1>3, <1>4 DEF Backed, Sights, RoleType
<1>6. Backed(c, t)
  BY <1>2, <1>3, <1>4, <1>5 DEF Backed, PollBacked, StateTold
<1>7. QED
  BY <1>1, <1>2, <1>5, <1>6

\* The publisher may keep back what it wrote last: it never differs from what the
\* service holds.
LEMMA PublishStateBacked ==
  ASSUME NEW c, NEW s, Backed(c, s), NEW st \in {"off", "bulk"}, NEW t \in PublishState(s, st)
  PROVE  /\ Backed(c, t) /\ t.w = s.w /\ Steady(s, t)
         /\ t.d.pending = s.d.pending /\ t.d.drain = s.d.drain
<1> DEFINE d == [s.d EXCEPT !.advertised = st]
           e == [d EXCEPT !.seen = Derived(d)]
<1>1. /\ d \in DriverType /\ d.engaged = s.d.engaged /\ d.advertised = st
      /\ d.seen = s.d.seen /\ d.polling = s.d.polling
      /\ d.pending = s.d.pending /\ d.drain = s.d.drain
  BY DEF Backed, Sights, DriverType
<1>2. Derived(d) \in Shown /\ Derived(d) = IF s.d.engaged THEN "external" ELSE st
  BY <1>1 DEF Derived, Shown
<1>3. CASE t = [s EXCEPT !.d = e, !.r.state = Derived(d)]
  <2>1. /\ e \in DriverType /\ e.engaged = d.engaged /\ e.advertised = st
        /\ e.seen = Derived(d) /\ e.polling = d.polling
        /\ e.pending = d.pending /\ e.drain = d.drain
    BY <1>1, <1>2 DEF DriverType
  <2> HIDE DEF d, e
  <2>2. /\ t \in Sights /\ t.d = e /\ t.w = s.w
        /\ t.r.status = s.r.status /\ t.r.state = Derived(d) /\ t.r.at = s.r.at
    BY <1>2, <1>3, <2>1 DEF Backed, Sights, RoleType
  <2>3. QED
    BY <1>1, <1>2, <2>1, <2>2 DEF Backed, PollBacked, StateTold, Derived, Steady
<1>4. CASE d.seen = Derived(d) /\ t = [s EXCEPT !.d = d]
  <2> HIDE DEF d
  <2>1. t \in Sights /\ t.d = d /\ t.w = s.w /\ t.r = s.r
    BY <1>1, <1>4 DEF Backed, Sights
  <2>2. s.r.state = Derived(d)
    BY <1>1, <1>2, <1>4 DEF Backed, StateTold, Derived
  <2>3. QED
    BY <1>1, <1>2, <1>4, <2>1, <2>2 DEF Backed, PollBacked, StateTold, Steady
<1>5. QED
  BY <1>3, <1>4 DEF PublishState

(***************************************************************************)
(* The handlers, each from the writer w on.                                *)
(***************************************************************************)
Kept(c, w, t) == Backed(c, t) /\ Served(c, t) /\ Touched(c, w, t.w)

LEMMA HandlerKept ==
  ASSUME NEW c \in Device, NEW s, Backed(c, s), Served(c, s),
         NEW path \in DOMAIN Asked[c], NEW v \in Asked[c][path],
         NEW t \in Handler(c, s, path, v)
  PROVE  Kept(c, s.w, t)
<1>1. /\ path \in Setpoint \cup Switch
      /\ path \in Setpoint => v \in Level
  BY AskedAssumption DEF Setpoint, Switch
<1>2. ASSUME NEW on \in BOOLEAN
      PROVE  LET u == Engage(s, on)
             IN  /\ Kept(c, s.w, u) /\ u.w = s.w
  BY <1>2, EngageBacked DEF Kept, Served, Touched
<1>3. \A reg \in Register : path \in Setpoint => Entry(reg, v, path) \in PendingEntry
  BY <1>1 DEF Entry, PendingEntry, Register, Value, Reason, Setpoint
<1>4. CASE path = "linkCurrent"
  <2>1. t \in OnLinkCurrent(c, s, v)
    BY <1>4 DEF Handler
  <2>2. CASE t = Engage(s, TRUE)
    BY <1>2, <2>2
  <2>3. CASE t \in Enqueue(c, Engage(s, TRUE), Entry("current", v, "linkCurrent"))
    <3>1. Entry("current", v, "linkCurrent") \in PendingEntry
      BY <1>3, <1>4 DEF Register, Setpoint
    <3>2. Backed(c, Engage(s, TRUE)) /\ Engage(s, TRUE).w = s.w
      BY <1>2 DEF Kept
    <3>3. QED
      BY <2>3, <3>1, <3>2, EnqueueBacked DEF Kept
  <2>4. QED
    BY <2>1, <2>2, <2>3 DEF OnLinkCurrent
<1>5. CASE path = "linkVoltage"
  <2>1. t \in OnLinkVoltage(c, s, v)
    BY <1>5 DEF Handler
  <2>2. CASE t = Engage(s, TRUE)
    BY <1>2, <2>2
  <2>3. CASE t \in EnqueueVoltage(c, Engage(s, TRUE), Entry("voltage", v, "linkVoltage"))
    <3>1. Entry("voltage", v, "linkVoltage") \in PendingEntry
      BY <1>3, <1>5 DEF Register, Setpoint
    <3>2. Backed(c, Engage(s, TRUE)) /\ Engage(s, TRUE).w = s.w
      BY <1>2 DEF Kept
    <3>3. QED
      BY <2>3, <3>1, <3>2, EnqueueVoltageBacked DEF Kept
  <2>4. QED
    BY <2>1, <2>2, <2>3 DEF OnLinkVoltage
<1>6. CASE path = "limit"
  <2>1. Entry("current", v, "limit") \in PendingEntry
    BY <1>3, <1>6 DEF Register, Setpoint
  <2>2. t \in Enqueue(c, s, Entry("current", v, "limit"))
    BY <1>6 DEF Handler, OnLimit
  <2>3. QED
    BY <2>1, <2>2, EnqueueBacked DEF Kept
<1>7. CASE path = "absorption"
  <2>1. t \in OnAbsorption(c, s, v)
    BY <1>7 DEF Handler
  <2>2. CASE t = [s EXCEPT !.p["absorption"] = v]
    <3>1. /\ t \in Sights /\ t.w = s.w /\ t.r = s.r /\ t.d = s.d
      BY <1>1, <1>7, <2>2 DEF Backed, Sights, ProfileType, Value, Setpoint
    <3>2. QED
      BY <3>1, BackedAlike DEF Kept, Served, Touched
  <2>3. CASE t \in EnqueueVoltage(c, s, Entry("voltage", v, "absorption"))
    <3>1. Entry("voltage", v, "absorption") \in PendingEntry
      BY <1>3, <1>7 DEF Register, Setpoint
    <3>2. QED
      BY <2>3, <3>1, EnqueueVoltageBacked DEF Kept
  <2>4. QED
    BY <2>1, <2>2, <2>3 DEF OnAbsorption
<1>8. CASE path = "floatVoltage"
  <2>1. Entry("float", v, "floatVoltage") \in PendingEntry
    BY <1>3, <1>8 DEF Register, Setpoint
  <2>2. t \in EnqueueVoltage(c, s, Entry("float", v, "floatVoltage"))
    BY <1>8 DEF Handler, OnFloat
  <2>3. QED
    BY <2>1, <2>2, EnqueueVoltageBacked DEF Kept
<1>9. CASE path \in Switch
  <2>1. PICK on \in BOOLEAN : t = Engage(s, on)
    BY <1>9 DEF Handler, OnBmsPresent, OnNetworkMode, Switch
  <2>2. QED
    BY <1>2, <2>1
<1>10. QED
  BY <1>1, <1>4, <1>5, <1>6, <1>7, <1>8, <1>9 DEF Setpoint

LEMMA StoreKept ==
  ASSUME NEW c \in Device, NEW s, Backed(c, s), Served(c, s),
         NEW path \in DOMAIN Asked[c], NEW v \in Asked[c][path],
         NEW t \in Store(c, s, path, v)
  PROVE  Kept(c, s.w, t)
<1>1. CASE t = s
  BY <1>1 DEF Kept, Touched
<1>2. CASE t \in {[u EXCEPT !.r.at[path] = v] : u \in Handler(c, s, path, v)}
  <2>1. PICK u \in Handler(c, s, path, v) : t = [u EXCEPT !.r.at[path] = v]
    BY <1>2
  <2>2. Kept(c, s.w, u)
    BY HandlerKept
  <2>3. v \in Value /\ path \in Setpoint \cup Switch
    BY AskedAssumption DEF Value
  <2> DEFINE at == [u.r.at EXCEPT ![path] = v]
  <2>4. u \in Sights /\ at \in [Setpoint \cup Switch -> Value]
    BY <2>2, <2>3 DEF Kept, Backed, Sights, RoleType
  <2>5. t = [u EXCEPT !.r.at = at]
    BY <2>1
  <2> HIDE DEF at
  <2>6. t \in Sights /\ t.d = u.d /\ t.w = u.w /\ t.r.state = u.r.state
        /\ t.r.status = u.r.status
    BY <2>4, <2>5 DEF Sights, RoleType
  <2>7. QED
    BY <2>2, <2>6, BackedAlike DEF Kept, Served
<1>3. QED
  BY <1>1, <1>2 DEF Store

LEMMA PublishKept ==
  ASSUME NEW c \in Device, NEW s, Backed(c, s), Served(c, s),
         NEW st \in {"off", "bulk"}, NEW t \in PublishState(s, st)
  PROVE  Kept(c, s.w, t)
BY PublishStateBacked DEF Kept, Served, Touched

(***************************************************************************)
(* From the outcome of a handler to the state.                             *)
(***************************************************************************)

\* The writer keeps to the requests of other chargers.
Spares(c, w) ==
  \A d \in Device \ {c} : Holds(w.job, d) \/ Holds(job, d) => w.job = job

LEMMA TouchedSpares ==
  ASSUME NEW c \in Device, NEW w, Touched(c, Writer, w)
  PROVE  Spares(c, w)
BY FreeAssumption DEF Touched, Spares, Holds, Writer

LEMMA Left ==
  ASSUME Inv, NEW c \in Device, NEW s, Backed(c, s), Served(c, s), Spares(c, s.w),
         Leave(c, s)
  PROVE  Inv'
<1>1. /\ s.d \in DriverType /\ s.r \in RoleType /\ s.p \in ProfileType
      /\ s.w \in WriterType /\ s = [d |-> s.d, r |-> s.r, p |-> s.p, w |-> s.w]
  BY DEF Backed, Sights
<1>2. Writer' = s.w
  BY <1>1 DEF Leave, Become, Writer, WriterType
<1>3. /\ drv' \in [Device -> DriverType] /\ role' \in [Device -> RoleType]
      /\ saved' \in [Device -> ProfileType]
      /\ drv'[c] = s.d /\ role'[c] = s.r /\ saved'[c] = s.p
      /\ \A d \in Device \ {c} : drv'[d] = drv[d] /\ role'[d] = role[d] /\ saved'[d] = saved[d]
  BY <1>1 DEF Leave, Inv
<1>4. Sight(c)' = s
  BY <1>1, <1>2, <1>3 DEF Sight
<1>5. job' = s.w.job /\ stage' = s.w.stage /\ (job' = Free <=> stage' = "idle")
  BY DEF Leave, Become, Backed
<1>6. ASSUME NEW d \in Device \ {c}
      PROVE  Backed(d, Sight(d)') /\ Served(d, Sight(d)')
  <2>1. Backed(d, Sight(d)) /\ Served(d, Sight(d))
    BY DEF Inv
  <2>2. Sight(d)' = [d |-> drv[d], r |-> role[d], p |-> saved[d], w |-> s.w]
    BY <1>2, <1>3 DEF Sight
  <2>3. Holds(job', d) \/ Holds(job, d) => job' = job
    BY <1>5 DEF Spares
  <2>4. Sight(d)' \in Sights
    BY <1>1, <2>2 DEF Inv, Sights
  <2>5. PollBacked(d, Sight(d)') /\ Served(d, Sight(d)')
    BY <1>5, <2>1, <2>2, <2>3 DEF Backed, PollBacked, Served, Sight, Writer
  <2>6. StateTold(Sight(d)')
    BY <2>1, <2>2 DEF Backed, StateTold, Sight
  <2>7. QED
    BY <1>5, <2>2, <2>4, <2>5, <2>6 DEF Backed
<1>7. QED
  BY <1>1, <1>2, <1>3, <1>4, <1>5, <1>6 DEF Inv

\* What the writer does to its slot in a step.
WriterStep ==
  \/ UNCHANGED <<job, stage>>
  \/ job = Free /\ job' \in Requests /\ stage' = "queued"

\* A handler that keeps things is a step that does.
LEMMA DoKept ==
  ASSUME Inv, NEW c \in Device, NEW outcomes, Do(c, outcomes),
         \A t \in outcomes : Kept(c, Writer, t)
  PROVE  Inv' /\ WriterStep
<1>1. PICK s \in outcomes : Leave(c, s)
  BY DEF Do
<1>2. Backed(c, s) /\ Served(c, s) /\ Touched(c, Writer, s.w) /\ Spares(c, s.w)
  BY <1>1, TouchedSpares DEF Kept
<1>3. Inv'
  BY <1>1, <1>2, Left
<1>4. WriterStep
  BY <1>1, <1>2 DEF WriterStep, Touched, Writer, Leave, Become
<1>5. QED
  BY <1>3, <1>4

(***************************************************************************)
(* The steps of the drivers.                                               *)
(***************************************************************************)
LEMMA SightBacked ==
  ASSUME Inv, NEW c \in Device
  PROVE  /\ Backed(c, Sight(c)) /\ Served(c, Sight(c)) /\ Sight(c) \in Sights
         /\ Sight(c).w = Writer /\ Kept(c, Writer, Sight(c))
BY DEF Inv, Sight, Backed, Kept, Touched

LEMMA SetValueStep ==
  ASSUME Inv, NEW c \in Device, NEW path \in DOMAIN Asked[c], NEW v \in Asked[c][path],
         SetValue(c, path, v)
  PROVE  Inv' /\ WriterStep
<1>1. \A t \in Store(c, Sight(c), path, v) : Kept(c, Writer, t)
  BY SightBacked, StoreKept
<1>2. QED
  BY <1>1, DoKept DEF SetValue

LEMMA FullFrameStep ==
  ASSUME Inv, NEW c \in Device, NEW st \in {"off", "bulk"}, FullFrame(c, st)
  PROVE  Inv' /\ WriterStep
<1>1. \A t \in Publish(Sight(c), st) : Kept(c, Writer, t)
  BY SightBacked, PublishKept DEF Publish
<1>2. QED
  BY <1>1, DoKept DEF FullFrame

LEMMA ShortFrameStep ==
  ASSUME Inv, NEW c \in Device, ShortFrame(c)
  PROVE  Inv' /\ WriterStep
<1> DEFINE s == [Sight(c) EXCEPT !.d.retry = TRUE]
           outcomes == {s} \cup IF s.d.engaged \/ s.d.polling THEN {}
                                 ELSE PublishState(s, "off")
<1>1. /\ s \in Sights /\ s.w = Writer /\ s.r = Sight(c).r
      /\ s.d.polling = Sight(c).d.polling /\ s.d.seen = Sight(c).d.seen
      /\ s.d.engaged = Sight(c).d.engaged /\ s.d.advertised = Sight(c).d.advertised
      /\ s.d.pending = Sight(c).d.pending /\ s.d.drain = Sight(c).d.drain
  BY SightBacked DEF Sights, DriverType
<1>2. Backed(c, s) /\ Served(c, s)
  <2>1. Backed(c, s)
    BY <1>1, SightBacked, BackedAlike
  <2>2. QED
    BY <1>1, <2>1, SightBacked DEF Served
<1>3. Do(c, outcomes)
  BY DEF ShortFrame
<1> HIDE DEF s
<1>4. \A t \in outcomes : Kept(c, Writer, t)
  BY <1>1, <1>2, PublishKept DEF Kept, Touched
<1>5. QED
  BY <1>3, <1>4, DoKept

LEMMA DrainTickStep ==
  ASSUME Inv, NEW c \in Device, DrainTick(c)
  PROVE  Inv' /\ WriterStep
<1> DEFINE s == [Sight(c) EXCEPT !.d.drain = FALSE]
<1>1. Backed(c, s) /\ s.w = Writer
  BY SightBacked, DrainSet
<1>2. Do(c, Kick(c, s))
  BY DEF DrainTick
<1> HIDE DEF s
<1>3. \A t \in Kick(c, s) : Kept(c, Writer, t)
  BY <1>1, KickBacked DEF Kept
<1>4. QED
  BY <1>2, <1>3, DoKept

\* A poll that starts takes no slot a pending write of the charger waits for: its
\* timer runs.
LEMMA RetryTickStep ==
  ASSUME Inv, NEW c \in Device, RetryTick(c)
  PROVE  Inv' /\ WriterStep
<1> DEFINE s == [Sight(c) EXCEPT !.d.retry = FALSE]
<1>1. /\ s \in Sights /\ s.w = Writer /\ s.r = Sight(c).r
      /\ s.d.polling = Sight(c).d.polling /\ s.d.seen = Sight(c).d.seen
      /\ s.d.engaged = Sight(c).d.engaged /\ s.d.advertised = Sight(c).d.advertised
      /\ s.d.pending = Sight(c).d.pending /\ s.d.drain = Sight(c).d.drain
  BY SightBacked DEF Sights, DriverType
<1>2. Backed(c, s)
  BY <1>1, SightBacked, BackedAlike
<1>3. Served(c, s)
  BY <1>1, SightBacked DEF Served
<1>4. Do(c, MaybePoll(c, s))
  BY DEF RetryTick
<1> HIDE DEF s
<1>5. \A t \in MaybePoll(c, s) : Kept(c, Writer, t)
  <2>1. SUFFICES ASSUME NEW t \in MaybePoll(c, s)
                 PROVE  Kept(c, Writer, t)
    OBVIOUS
  <2>2. /\ Backed(c, t) /\ Touched(c, Writer, t.w)
        /\ t.d.pending = s.d.pending /\ t.d.drain = s.d.drain
    BY <1>1, <1>2, MaybePollBacked
  <2>3. Served(c, t)
    BY <1>1, <1>3, <2>2 DEF Served, Touched, Holds
  <2>4. QED
    BY <2>2, <2>3 DEF Kept
<1>6. QED
  BY <1>4, <1>5, DoKept

\* Switching a charger off and on touches neither its control nor its queue.
LEMMA SetEnabledStep ==
  ASSUME Inv, NEW c \in Device, SetEnabled(c)
  PROVE  Inv' /\ WriterStep
<1> DEFINE r == [role[c] EXCEPT !.enabled = ~role[c].enabled]
<1>1. /\ r \in RoleType /\ r.state = role[c].state /\ r.status = role[c].status
  BY DEF Inv, RoleType
<1>2. /\ role' = [role EXCEPT ![c] = r] /\ UNCHANGED <<gattVars, drv, saved>>
  BY DEF SetEnabled
<1> HIDE DEF r
<1>3. /\ role' \in [Device -> RoleType] /\ Writer' = Writer
      /\ \A d \in Device : role'[d].state = role[d].state /\ role'[d].status = role[d].status
  BY <1>1, <1>2 DEF Inv, gattVars, Writer
<1>4. ASSUME NEW d \in Device
      PROVE  Backed(d, Sight(d)') /\ Served(d, Sight(d)')
  <2>1. /\ Sight(d)' \in Sights /\ Sight(d)'.w = Sight(d).w /\ Sight(d)'.d = Sight(d).d
        /\ Sight(d)'.r.state = Sight(d).r.state /\ Sight(d)'.r.status = Sight(d).r.status
    BY <1>2, <1>3 DEF Inv, Sight, Sights
  <2>2. Backed(d, Sight(d)) /\ Served(d, Sight(d))
    BY DEF Inv
  <2>3. Backed(d, Sight(d)')
    BY <2>1, <2>2, BackedAlike
  <2>4. QED
    BY <2>1, <2>2, <2>3 DEF Served
<1>5. QED
  BY <1>2, <1>3, <1>4 DEF Inv, WriterStep, gattVars

(***************************************************************************)
(* The steps of the session.                                               *)
(***************************************************************************)

\* While the request stays and is not answered, nothing of the drivers changes.
LEMMA StageChanges ==
  ASSUME Inv, UNCHANGED <<loop, job, agent, drv, role, saved>>,
         stage' \in Stage \ {"idle"}, stage # "idle"
  PROVE  Inv'
<1>1. Writer' \in WriterType /\ (job' = Free <=> stage' = "idle")
  BY DEF Inv, Writer, WriterType
<1>2. ASSUME NEW c \in Device
      PROVE  Backed(c, Sight(c)') /\ Served(c, Sight(c)')
  <2>1. Backed(c, Sight(c)) /\ Served(c, Sight(c))
    BY DEF Inv
  <2>2. /\ Sight(c)' \in Sights /\ Sight(c)'.d = Sight(c).d /\ Sight(c)'.r = Sight(c).r
        /\ Sight(c)'.w.job = job /\ Sight(c).w.job = job
        /\ Sight(c)'.w.stage = stage'
    BY <1>1 DEF Inv, Sight, Sights, Writer
  <2>3. QED
    BY <1>1, <2>1, <2>2 DEF Backed, PollBacked, StateTold, Served
<1>3. QED
  BY <1>1, <1>2 DEF Inv

\* The answer of a session: the slot is free before the driver is told.  Another
\* charger with writes pending has its timer.
LEMMA DeliverStep ==
  ASSUME Inv, Deliver
  PROVE  /\ Inv' /\ stage \in {"good", "bad"}
         /\ \/ job' = Free /\ stage' = "idle"
            \/ job' \in Requests /\ stage' = "queued"
<1> DEFINE c == job.dev
           f == Finished(Writer)
           s == [Sight(c) EXCEPT !.w = f]
           outcomes == Told(c, s, job, stage = "good")
<1>1. stage \in {"good", "bad"} /\ job \in Requests /\ c \in Device /\ job # Free
  BY DEF Deliver, Settled, Inv, Writer, WriterType, Requests
<1>2. f \in WriterType /\ f.job = Free /\ f.stage = "idle"
  BY FinishedWriter DEF Inv
<1>3. s.d = Sight(c).d /\ s.r = Sight(c).r /\ s.w = f /\ s \in Sights
  BY <1>1, <1>2, SightBacked DEF Sights
<1>4. PICK t \in outcomes : Leave(c, t)
  <2>1. s = [Sight(c) EXCEPT !.w = Finished(@)]
    BY <1>1, SightBacked DEF Sights
  <2>2. QED
    BY <2>1 DEF Deliver, Do
<1>5. /\ Backed(c, Sight(c)) /\ Served(c, Sight(c)) /\ Sight(c).w.job = job
      /\ StateTold(s)
  BY <1>1, <1>3, SightBacked DEF Writer, Backed, StateTold
<1> HIDE DEF s, f
<1>6. Kept(c, f, t)
  <2>1. CASE job.why = "poll"
    <3> DEFINE u == [s EXCEPT !.d.polling = FALSE]
    <3>1. /\ u \in Sights /\ u.w = f /\ u.r = s.r /\ ~u.d.polling
          /\ u.d.seen = s.d.seen /\ u.d.engaged = s.d.engaged
          /\ u.d.advertised = s.d.advertised
          /\ u.d.pending = s.d.pending /\ u.d.drain = s.d.drain
      BY <1>3 DEF Sights, DriverType
    <3>2. Backed(c, u)
      BY <1>2, <1>5, <3>1 DEF Backed, PollBacked, StateTold, Derived, Holds
    <3>3. Served(c, u)
      BY <1>3, <1>5, <2>1, <3>1 DEF Served
    <3>4. t \in {u} \cup UNION {Publish(u, st) : st \in Shows[c] \ {"short"}}
      BY <1>4, <2>1 DEF Told, PollDone
    <3> HIDE DEF u
    <3>5. CASE t = u
      BY <3>1, <3>2, <3>3, <3>5 DEF Kept, Touched
    <3>6. CASE \E st \in Shows[c] \ {"short"} : t \in Publish(u, st)
      <4>1. PICK st \in {"off", "bulk"} : t \in Publish(u, st)
        BY <1>1, <3>6, AskedAssumption
      <4>2. t = u \/ t \in PublishState(u, st)
        BY <4>1 DEF Publish
      <4>3. ASSUME t \in PublishState(u, st)
            PROVE  Kept(c, u.w, t)
        BY <1>1, <3>2, <3>3, <4>3, PublishKept
      <4>4. QED
        BY <3>1, <3>5, <4>2, <4>3
    <3>7. QED
      BY <3>4, <3>5, <3>6
  <2>2. CASE job.why # "poll"
    <3>1. EndOf(job)
      BY <1>1, <2>2 DEF Requests, EndOf
    <3>2. t \in AfterWrite(c, s, job, stage = "good")
      BY <1>4, <2>2 DEF Told
    <3>3. ~s.d.polling
      BY <1>3, <1>5, <2>2 DEF Backed, PollBacked
    <3>4. Backed(c, s)
      BY <1>2, <1>3, <1>5, <3>3 DEF Backed, PollBacked, Holds
    <3>5. (stage = "good") \in BOOLEAN
      OBVIOUS
    <3> HIDE DEF outcomes
    <3>6. QED
      BY <1>1, <1>3, <3>1, <3>2, <3>4, <3>5, AfterWriteBacked DEF Kept
  <2>3. QED
    BY <2>1, <2>2
<1>7. Spares(c, t.w)
  BY <1>2, <1>6 DEF Kept, Touched, Spares, Holds
<1>8. Inv'
  BY <1>1, <1>4, <1>6, <1>7, Left DEF Kept
<1>9. job' = t.w.job /\ stage' = t.w.stage
  BY <1>4 DEF Leave, Become
<1>10. QED
  BY <1>1, <1>2, <1>6, <1>8, <1>9 DEF Kept, Touched

LEMMA RestartStep ==
  ASSUME Inv, Restart
  PROVE  Inv' /\ job' = Free /\ stage' = "idle"
<1>1. /\ loop' = "down" /\ job' = Free /\ stage' = "idle" /\ agent' = {}
      /\ drv' = [c \in Device |-> NewDriver] /\ saved' = saved
      /\ role' = [c \in Device |-> NewRole(saved[c], role[c].enabled)]
  BY DEF Restart, GattRestart
<1>2. Writer' \in WriterType /\ Writer'.job = Free /\ Writer'.stage = "idle"
  BY <1>1 DEF Writer, WriterType, Stage
<1>3. NewDriver \in DriverType
  BY EmptyQueue DEF NewDriver, DriverType, Shown, Value, Unset
<1>4. /\ NewDriver.pending = <<>> /\ ~NewDriver.polling /\ ~NewDriver.engaged
      /\ NewDriver.advertised = "off" /\ NewDriver.seen = "unseen"
  BY DEF NewDriver
<1>5. ASSUME NEW c \in Device
      PROVE  LET r == NewRole(saved[c], role[c].enabled)
             IN  r \in RoleType /\ r.state = "off" /\ r.status = "standalone"
  <2>1. role[c].enabled \in BOOLEAN /\ saved[c] \in [Profile -> Value]
    BY DEF Inv, RoleType, ProfileType
  <2>2. [p \in Setpoint \cup Switch |-> IF p \in Profile THEN saved[c][p] ELSE Unset]
          \in [Setpoint \cup Switch -> Value]
    BY <2>1 DEF Value, Unset
  <2>3. QED
    BY <2>1, <2>2 DEF NewRole, RoleType, Shown
<1> HIDE DEF NewDriver
<1>6. /\ drv' \in [Device -> DriverType] /\ role' \in [Device -> RoleType]
      /\ saved' \in [Device -> ProfileType]
  BY <1>1, <1>3, <1>5 DEF Inv
<1>7. ASSUME NEW c \in Device
      PROVE  Backed(c, Sight(c)') /\ Served(c, Sight(c)')
  <2>1. /\ Sight(c)' \in Sights /\ Sight(c)'.d = NewDriver
        /\ Sight(c)'.r.state = "off" /\ Sight(c)'.r.status = "standalone"
        /\ Sight(c)'.w.job = Free /\ Sight(c)'.w.stage = "idle"
    BY <1>1, <1>2, <1>5, <1>6 DEF Sight, Sights
  <2>2. QED
    BY <1>4, <2>1 DEF Backed, PollBacked, StateTold, Derived, Served, Holds
<1>8. QED
  BY <1>1, <1>2, <1>6, <1>7 DEF Inv

LEMMA InitInv == Init => Inv
<1> SUFFICES ASSUME Init
             PROVE  Inv
  OBVIOUS
<1>1. /\ loop = "down" /\ job = Free /\ stage = "idle" /\ agent = {}
      /\ drv = [c \in Device |-> NewDriver] /\ saved = [c \in Device |-> NoProfile]
      /\ role = [c \in Device |-> NewRole(NoProfile, TRUE)]
  BY DEF Init, GattInit
<1>2. Writer \in WriterType /\ Writer.job = Free /\ Writer.stage = "idle"
  BY <1>1 DEF Writer, WriterType, Stage
<1>3. NewDriver \in DriverType
  BY EmptyQueue DEF NewDriver, DriverType, Shown, Value, Unset
<1>4. /\ NewDriver.pending = <<>> /\ ~NewDriver.polling /\ ~NewDriver.engaged
      /\ NewDriver.advertised = "off" /\ NewDriver.seen = "unseen"
  BY DEF NewDriver
<1>5. NoProfile \in ProfileType
  BY DEF NoProfile, ProfileType, Value, Unset
<1>6. LET r == NewRole(NoProfile, TRUE)
      IN  r \in RoleType /\ r.state = "off" /\ r.status = "standalone"
  <2>1. [p \in Setpoint \cup Switch |-> IF p \in Profile THEN NoProfile[p] ELSE Unset]
          \in [Setpoint \cup Switch -> Value]
    BY <1>5 DEF ProfileType, Value, Unset
  <2>2. QED
    BY <2>1 DEF NewRole, RoleType, Shown
<1> HIDE DEF NewDriver, NewRole, NoProfile
<1>7. /\ drv \in [Device -> DriverType] /\ role \in [Device -> RoleType]
      /\ saved \in [Device -> ProfileType]
  BY <1>1, <1>3, <1>5, <1>6
<1>8. ASSUME NEW c \in Device
      PROVE  Backed(c, Sight(c)) /\ Served(c, Sight(c))
  <2>1. /\ Sight(c) \in Sights /\ Sight(c).d = NewDriver
        /\ Sight(c).r.state = "off" /\ Sight(c).r.status = "standalone"
        /\ Sight(c).w.job = Free /\ Sight(c).w.stage = "idle"
    BY <1>1, <1>2, <1>6, <1>7 DEF Sight, Sights
  <2>2. QED
    BY <1>4, <2>1 DEF Backed, PollBacked, StateTold, Derived, Served, Holds
<1>9. QED
  BY <1>1, <1>2, <1>7, <1>8 DEF Inv

(***************************************************************************)
(* What a step does to the writer: the actions of RegisterSession.         *)
(***************************************************************************)
SessionStep ==
  \/ WriterStep
  \/ stage = "queued" /\ stage' = "linked" /\ job' = job
  \/ stage = "linked" /\ stage' = "sent" /\ job' = job
  \/ stage = "sent" /\ stage' = "good" /\ job' = job
  \/ stage \in {"queued", "linked", "sent"} /\ stage' = "bad" /\ job' = job
  \/ /\ stage \in {"good", "bad"}
     /\ \/ job' = Free /\ stage' = "idle"
        \/ job' \in Requests /\ stage' = "queued"
  \/ job' = Free /\ stage' = "idle"

LEMMA NextStep == Inv /\ [Next]_vars => Inv' /\ SessionStep
<1> SUFFICES ASSUME Inv, [Next]_vars
             PROVE  Inv' /\ SessionStep
  OBVIOUS
<1>1. ASSUME NEW c \in Device, DriverStep(c)
      PROVE  Inv' /\ WriterStep
  <2>1. CASE DrainTick(c) \/ RetryTick(c) \/ ShortFrame(c) \/ SetEnabled(c)
    BY <2>1, DrainTickStep, RetryTickStep, ShortFrameStep, SetEnabledStep
  <2>2. ASSUME NEW st \in Shows[c] \ {"short"}, FullFrame(c, st)
        PROVE  Inv' /\ WriterStep
    BY <2>2, FullFrameStep, AskedAssumption
  <2>3. QED
    BY <1>1, <2>1, <2>2 DEF DriverStep
<1>2. ASSUME NEW c \in Device, Write(c)
      PROVE  Inv' /\ WriterStep
  BY <1>2, SetValueStep DEF Write
<1>3. CASE Progress(Connect)
  BY <1>3, StageChanges DEF Progress, Connect, chargerVars, Stage, SessionStep
<1>4. CASE Transmit
  BY <1>4, StageChanges DEF Transmit, SendRequest, Stage, SessionStep
<1>5. CASE Progress(Complete)
  BY <1>5, StageChanges DEF Progress, Complete, chargerVars, Stage, SessionStep
<1>6. CASE Progress(Fail)
  BY <1>6, StageChanges DEF Progress, Fail, chargerVars, Stage, SessionStep
<1>7. CASE Deliver
  BY <1>7, DeliverStep DEF SessionStep
<1>8. CASE Restart
  BY <1>8, RestartStep DEF SessionStep
<1>9. CASE UNCHANGED vars
  <2>1. UNCHANGED <<loop, job, stage, agent, drv, role, saved>>
    BY <1>9 DEF vars, gattVars, chargerVars
  <2>2. Inv'
    BY <2>1 DEF Inv, Sight, Writer, Backed, PollBacked, StateTold, Served
  <2>3. QED
    BY <2>1, <2>2 DEF SessionStep, WriterStep
<1>10. QED
  BY <1>1, <1>2, <1>3, <1>4, <1>5, <1>6, <1>7, <1>8, <1>9 DEF Next, Session, SessionStep

(***************************************************************************)
(* The theorems.                                                           *)
(***************************************************************************)

\* The inductive invariant holds in every behaviour.
THEOREM InductiveInvariant == Spec => []Inv
<1>1. Inv /\ [Next]_vars => Inv'
  BY NextStep
<1>2. QED
  BY InitInv, <1>1, PTL DEF Spec

\* What the chargers hold, and the bonds.
World ==
  /\ regs \in [Device -> [Register -> Value]] /\ bonded \in SUBSET Device

LEMMA WorldInv == Inv /\ World /\ [Next]_vars => World'
<1> SUFFICES ASSUME Inv, World, [Next]_vars
             PROVE  World'
  OBVIOUS
<1>1. CASE Transmit
  <2>1. job \in Requests
    BY <1>1 DEF Transmit, SendRequest, Inv, Writer, WriterType, Stage
  <2>2. job.dev \in Device /\ job.reg \in Register /\ job.val \in Value
    BY <2>1 DEF Requests
  <2>3. bonded' \in SUBSET Device
    BY <1>1, <2>2 DEF Transmit, SendRequest, World
  <2>4. regs' = regs \/ regs' = [regs EXCEPT ![job.dev][job.reg] = job.val]
    BY <1>1 DEF Transmit
  <2>5. regs' \in [Device -> [Register -> Value]]
    BY <2>2, <2>4 DEF World
  <2>6. QED
    BY <2>3, <2>5 DEF World
<1>2. CASE UNCHANGED <<bonded, regs>>
  BY <1>2 DEF World
<1>3. ASSUME NEW c \in Device, DriverStep(c) \/ Write(c)
      PROVE  UNCHANGED <<bonded, regs>>
  BY <1>3 DEF DriverStep, Write, DrainTick, RetryTick, ShortFrame, FullFrame, SetEnabled,
     SetValue, Do, gattVars
<1>4. CASE Progress(Connect) \/ Progress(Complete) \/ Progress(Fail)
  BY <1>2, <1>4 DEF Progress, Connect, Complete, Fail, chargerVars
<1>5. CASE Deliver \/ Restart
  BY <1>2, <1>5 DEF Deliver, Do, Restart, GattRestart
<1>6. QED
  BY <1>1, <1>2, <1>3, <1>4, <1>5 DEF Next, Session, vars, gattVars, chargerVars

\* The types of ChargerControl: among them that at most one write of a register
\* is pending (the keys of _pending_writes), that the writer is busy exactly
\* while a session is under way, and that a pairing agent waits only for the
\* device of that session.
THEOREM TypeCorrect == Spec => []TypeOK
<1>1. Init => World
  BY DEF Init, GattInit, World, Value, Unset
<1>2. ASSUME Inv, World
      PROVE  TypeOK
  <2>1. PendingEntry \subseteq Entries
    BY DEF PendingEntry, Entries
  <2>2. Queues \subseteq Seq(Entries)
    BY <2>1 DEF Queues
  <2>3. DriverType \subseteq Driver
    BY <2>2 DEF DriverType, Driver, Shown
  <2>4. \A c \in Device : drv[c].pending \in Queues
    BY <1>2 DEF Inv, DriverType
  <2>5. QED
    BY <1>2, <2>3, <2>4 DEF Inv, World, TypeOK, Queues, RoleType, ProfileType, Writer, WriterType
<1>3. QED
  BY <1>1, <1>2, WorldInv, InductiveInvariant, PTL DEF Spec

(***************************************************************************)
(* What the services tell of their control, for ControlPaths.              *)
(***************************************************************************)
Services == [c \in Device |-> Face(drv[c], role[c])]

\* What a handler leaves behind of the service's face.
LEMMA FaceLeft ==
  ASSUME Inv, NEW c \in Device, NEW t \in Sights, Leave(c, t)
  PROVE  Services' = [Services EXCEPT ![c] = Face(t.d, t.r)]
<1>1. /\ drv' = [drv EXCEPT ![c] = t.d] /\ drv \in [Device -> DriverType]
      /\ role' = [role EXCEPT ![c] = t.r] /\ role \in [Device -> RoleType]
  BY DEF Leave, Inv
<1>2. \A d \in Device :
        Face(drv'[d], role'[d]) = IF d = c THEN Face(t.d, t.r) ELSE Face(drv[d], role[d])
  BY <1>1
<1>3. QED
  BY <1>2 DEF Services

LEMMA SteadyDo ==
  ASSUME Inv, NEW c \in Device, NEW outcomes, Do(c, outcomes),
         \A t \in outcomes : t \in Sights /\ Steady(Sight(c), t)
  PROVE  UNCHANGED Services
<1>1. PICK t \in outcomes : Leave(c, t)
  BY DEF Do
<1>2. t \in Sights /\ Steady(Sight(c), t)
  BY <1>1
<1>3. Face(t.d, t.r) = Services[c]
  BY <1>2 DEF Steady, Sight, Face, Services
<1>4. Services' = [Services EXCEPT ![c] = Services[c]]
  BY <1>1, <1>2, <1>3, FaceLeft
<1>5. QED
  BY <1>4 DEF Services

\* The setpoints of DVCC engage the charger, a switch as both of them say.
Engages(s, path, v) ==
  CASE path = "bmsPresent" -> v = 1 \/ s.r.at["networkMode"] # 0
    [] path = "networkMode" -> v # 0 \/ s.r.at["bmsPresent"] = 1
    [] path \in {"linkVoltage", "linkCurrent"} -> TRUE

LEMMA HandlerFace ==
  ASSUME NEW c \in Device, NEW s, Backed(c, s),
         NEW path \in DOMAIN Asked[c], NEW v \in Asked[c][path],
         NEW t \in Handler(c, s, path, v)
  PROVE  /\ t.r.at = s.r.at
         /\ path \in Profile => t.d.engaged = s.d.engaged
         /\ path \notin Profile => t.d.engaged = Engages(s, path, v)
<1>1. /\ path \in Setpoint \cup Switch
      /\ path \in Setpoint => v \in Level
  BY AskedAssumption DEF Setpoint, Switch
<1>2. \A reg \in Register : path \in Setpoint => Entry(reg, v, path) \in PendingEntry
  BY <1>1 DEF Entry, PendingEntry, Register, Value, Reason, Setpoint
<1>3. ASSUME NEW on \in BOOLEAN
      PROVE  LET u == Engage(s, on)
             IN  Backed(c, u) /\ u.d.engaged = on /\ u.r.at = s.r.at
  BY <1>3, EngageBacked
<1>4. CASE path = "linkCurrent"
  <2>1. t \in OnLinkCurrent(c, s, v)
    BY <1>4 DEF Handler
  <2>2. Entry("current", v, "linkCurrent") \in PendingEntry
    BY <1>2, <1>4 DEF Register, Setpoint
  <2> DEFINE u == Engage(s, TRUE)
  <2>3. Backed(c, u) /\ u.d.engaged = TRUE /\ u.r.at = s.r.at
    BY <1>3
  <2>4. t = u \/ t \in Enqueue(c, u, Entry("current", v, "linkCurrent"))
    BY <2>1 DEF OnLinkCurrent
  <2> HIDE DEF u
  <2>5. t.d.engaged = TRUE /\ t.r.at = s.r.at
    BY <2>2, <2>3, <2>4, EnqueueBacked DEF Steady
  <2>6. QED
    BY <1>4, <2>5 DEF Engages, Profile
<1>5. CASE path = "linkVoltage"
  <2>1. t \in OnLinkVoltage(c, s, v)
    BY <1>5 DEF Handler
  <2>2. Entry("voltage", v, "linkVoltage") \in PendingEntry
    BY <1>2, <1>5 DEF Register, Setpoint
  <2> DEFINE u == Engage(s, TRUE)
  <2>3. Backed(c, u) /\ u.d.engaged = TRUE /\ u.r.at = s.r.at
    BY <1>3
  <2>4. t = u \/ t \in EnqueueVoltage(c, u, Entry("voltage", v, "linkVoltage"))
    BY <2>1 DEF OnLinkVoltage
  <2> HIDE DEF u
  <2>5. t.d.engaged = TRUE /\ t.r.at = s.r.at
    BY <2>2, <2>3, <2>4, EnqueueVoltageBacked DEF Steady
  <2>6. QED
    BY <1>5, <2>5 DEF Engages, Profile
<1>6. CASE path = "limit"
  <2>1. Entry("current", v, "limit") \in PendingEntry
    BY <1>2, <1>6 DEF Register, Setpoint
  <2>2. t \in Enqueue(c, s, Entry("current", v, "limit"))
    BY <1>6 DEF Handler, OnLimit
  <2>3. QED
    BY <1>6, <2>1, <2>2, EnqueueBacked DEF Steady, Profile
<1>7. CASE path = "absorption"
  <2>1. Entry("voltage", v, "absorption") \in PendingEntry
    BY <1>2, <1>7 DEF Register, Setpoint
  <2>2. \/ t = [s EXCEPT !.p["absorption"] = v]
        \/ t \in EnqueueVoltage(c, s, Entry("voltage", v, "absorption"))
    BY <1>7 DEF Handler, OnAbsorption
  <2>3. [s EXCEPT !.p["absorption"] = v].d = s.d /\ [s EXCEPT !.p["absorption"] = v].r = s.r
    BY DEF Backed, Sights
  <2>4. QED
    BY <1>7, <2>1, <2>2, <2>3, EnqueueVoltageBacked DEF Steady, Profile
<1>8. CASE path = "floatVoltage"
  <2>1. Entry("float", v, "floatVoltage") \in PendingEntry
    BY <1>2, <1>8 DEF Register, Setpoint
  <2>2. t \in EnqueueVoltage(c, s, Entry("float", v, "floatVoltage"))
    BY <1>8 DEF Handler, OnFloat
  <2>3. QED
    BY <1>8, <2>1, <2>2, EnqueueVoltageBacked DEF Steady, Profile
<1>9. CASE path \in Switch
  <2>1. Engages(s, path, v) \in BOOLEAN
    BY <1>9 DEF Engages, Switch
  <2>2. t = Engage(s, Engages(s, path, v))
    BY <1>9 DEF Handler, OnBmsPresent, OnNetworkMode, Engages, Switch
  <2>3. QED
    BY <1>9, <1>3, <2>1, <2>2 DEF Profile, Switch
<1>10. QED
  BY <1>1, <1>4, <1>5, <1>6, <1>7, <1>8, <1>9 DEF Setpoint

\* A value that is there already changes nothing, another is stored and decides.
LEMMA StoreFace ==
  ASSUME NEW c \in Device, NEW s, Backed(c, s), Served(c, s),
         NEW path \in DOMAIN Asked[c], NEW v \in Asked[c][path],
         NEW t \in Store(c, s, path, v)
  PROVE  \/ t = s
         \/ /\ s.r.at[path] # v /\ t.r.at = [s.r.at EXCEPT ![path] = v]
            /\ path \in Profile => t.d.engaged = s.d.engaged
            /\ path \notin Profile => t.d.engaged = Engages(s, path, v)
<1>1. CASE s.r.at[path] = v
  BY <1>1 DEF Store
<1>2. CASE s.r.at[path] # v
  <2>1. PICK u \in Handler(c, s, path, v) : t = [u EXCEPT !.r.at[path] = v]
    BY <1>2 DEF Store
  <2>2. u \in Sights
    BY HandlerKept DEF Kept, Backed
  <2>3. t.d = u.d /\ t.r.at = [u.r.at EXCEPT ![path] = v]
    BY <2>1, <2>2 DEF Sights, RoleType
  <2>4. QED
    BY <1>2, <2>3, HandlerFace
<1>3. QED
  BY <1>1, <1>2

\* SetValue of a path is a change of ControlPaths or none of its concern.
LEMMA SetValueFace ==
  ASSUME Inv, NEW c \in Device, NEW path \in DOMAIN Asked[c], NEW v \in Asked[c][path],
         SetValue(c, path, v)
  PROVE  [Link!ControlNext]_Services
<1> DEFINE s == Sight(c)
<1>1. /\ s \in Sights /\ Backed(c, s) /\ Served(c, s) /\ s.r = role[c] /\ s.d = drv[c]
      /\ s.r.at \in [Setpoint \cup Switch -> Value] /\ s.d.engaged \in BOOLEAN
  BY SightBacked DEF Sight, Sights, RoleType, DriverType
<1>2. PICK t \in Store(c, s, path, v) : Leave(c, t)
  BY DEF SetValue, Do
<1> HIDE DEF s
<1>3. t \in Sights
  BY <1>1, <1>2, StoreKept DEF Kept, Backed
<1>4. Services' = [Services EXCEPT ![c] = Face(t.d, t.r)]
  BY <1>2, <1>3, FaceLeft
<1>5. Services[c] = Face(s.d, s.r)
  BY <1>1 DEF Services
<1>6. CASE t = s \/ path \in Profile
  <2>1. Face(t.d, t.r) = Services[c]
    <3>1. CASE t = s
      BY <1>5, <3>1
    <3>2. CASE t # s /\ path \in Profile
      <4>1. t.r.at = [s.r.at EXCEPT ![path] = v] /\ t.d.engaged = s.d.engaged
        BY <1>1, <1>2, <3>2, StoreFace
      <4>2. QED
        BY <1>1, <1>5, <3>2, <4>1 DEF Face, Profile, Setpoint, Switch
    <3>3. QED
      BY <1>6, <3>1, <3>2
  <2>2. QED
    BY <1>4, <2>1 DEF Services
<1>7. CASE t # s /\ path \notin Profile
  <2> DEFINE f == Services[c]
             g == [f EXCEPT ![path] = v]
  <2>1. /\ s.r.at[path] # v /\ t.r.at = [s.r.at EXCEPT ![path] = v]
        /\ t.d.engaged = Engages(s, path, v)
    BY <1>1, <1>2, <1>7, StoreFace
  <2>2. path \in {"bmsPresent", "networkMode", "linkVoltage", "linkCurrent"}
    BY <1>7, AskedAssumption DEF Setpoint, Switch, Profile
  <2>3. /\ path \in {"bmsPresent", "networkMode"} => v \in {0, 1}
        /\ path \in {"linkVoltage", "linkCurrent"} => v \in Level
    BY AskedAssumption DEF Switch
  <2>4. f = [engaged |-> s.d.engaged, bmsPresent |-> s.r.at["bmsPresent"],
             networkMode |-> s.r.at["networkMode"], linkVoltage |-> s.r.at["linkVoltage"],
             linkCurrent |-> s.r.at["linkCurrent"]]
    BY <1>5 DEF Face
  <2>5. f[path] = s.r.at[path]
    BY <2>2, <2>4
  <2>6. /\ g.engaged = s.d.engaged
        /\ g.bmsPresent = IF path = "bmsPresent" THEN v ELSE s.r.at["bmsPresent"]
        /\ g.networkMode = IF path = "networkMode" THEN v ELSE s.r.at["networkMode"]
        /\ g.linkVoltage = IF path = "linkVoltage" THEN v ELSE s.r.at["linkVoltage"]
        /\ g.linkCurrent = IF path = "linkCurrent" THEN v ELSE s.r.at["linkCurrent"]
        /\ g = [engaged |-> g.engaged, bmsPresent |-> g.bmsPresent,
                networkMode |-> g.networkMode, linkVoltage |-> g.linkVoltage,
                linkCurrent |-> g.linkCurrent]
    BY <2>2, <2>4
  <2> HIDE DEF f, g
  <2>7. t.d.engaged = Link!Decides(g, path)
    <3>1. CASE path = "bmsPresent"
      BY <2>1, <2>6, <3>1 DEF Link!Decides, Link!Setpoint, Engages
    <3>2. CASE path = "networkMode"
      BY <2>1, <2>6, <3>2 DEF Link!Decides, Link!Setpoint, Engages
    <3>3. CASE path \in {"linkVoltage", "linkCurrent"}
      <4>1. Link!Decides(g, path) = TRUE
        BY <3>3 DEF Link!Decides, Link!Setpoint
      <4>2. Engages(s, path, v) = TRUE
        BY <3>3 DEF Engages
      <4>3. QED
        BY <2>1, <4>1, <4>2
    <3>4. QED
      BY <2>2, <3>1, <3>2, <3>3
  <2>8. /\ t.r.at["bmsPresent"] = g.bmsPresent /\ t.r.at["networkMode"] = g.networkMode
        /\ t.r.at["linkVoltage"] = g.linkVoltage /\ t.r.at["linkCurrent"] = g.linkCurrent
    BY <1>1, <2>1, <2>6 DEF Setpoint, Switch
  <2>9. Face(t.d, t.r) = [g EXCEPT !.engaged = Link!Decides(g, path)]
    BY <2>6, <2>7, <2>8 DEF Face
  <2>10. Link!Change(c, path, v)
    BY <1>4, <2>1, <2>5, <2>9 DEF Link!Change, Services, f, g
  <2>11. QED
    BY <2>2, <2>3, <2>10 DEF Link!ControlNext, Link!Switch, Link!Setpoint
<1>8. QED
  BY <1>6, <1>7

\* The two sources of /State speak of the charge, not of the control.
LEMMA PublishSteady ==
  ASSUME NEW c, NEW s, Backed(c, s), NEW st \in {"off", "bulk"},
         NEW t \in Publish(s, st)
  PROVE  t \in Sights /\ Steady(s, t)
<1>1. t = s \/ t \in PublishState(s, st)
  BY DEF Publish
<1>2. QED
  BY <1>1, PublishStateBacked DEF Backed, Steady

LEMMA TimerFace ==
  ASSUME Inv, NEW c \in Device, DrainTick(c) \/ RetryTick(c)
  PROVE  UNCHANGED Services
<1>1. CASE DrainTick(c)
  <2> DEFINE s == [Sight(c) EXCEPT !.d.drain = FALSE]
  <2>1. Backed(c, s) /\ Steady(Sight(c), s)
    BY SightBacked, DrainSet
  <2>2. Do(c, Kick(c, s))
    BY <1>1 DEF DrainTick
  <2> HIDE DEF s
  <2>3. \A t \in Kick(c, s) : t \in Sights /\ Steady(Sight(c), t)
    BY <2>1, KickBacked DEF Backed, Steady
  <2>4. QED
    BY <2>2, <2>3, SteadyDo
<1>2. CASE RetryTick(c)
  <2> DEFINE s == [Sight(c) EXCEPT !.d.retry = FALSE]
  <2>1. Backed(c, s) /\ Steady(Sight(c), s)
    BY SightBacked, RetrySet
  <2>2. Do(c, MaybePoll(c, s))
    BY <1>2 DEF RetryTick
  <2> HIDE DEF s
  <2>3. \A t \in MaybePoll(c, s) : t \in Sights /\ Steady(Sight(c), t)
    BY <2>1, MaybePollBacked DEF Backed, Steady
  <2>4. QED
    BY <2>2, <2>3, SteadyDo
<1>3. QED
  BY <1>1, <1>2

LEMMA FrameFace ==
  ASSUME Inv, NEW c \in Device,
         ShortFrame(c) \/ \E st \in {"off", "bulk"} : FullFrame(c, st)
  PROVE  UNCHANGED Services
<1>1. CASE ShortFrame(c)
  <2> DEFINE s == [Sight(c) EXCEPT !.d.retry = TRUE]
             outcomes == {s} \cup IF s.d.engaged \/ s.d.polling THEN {}
                                   ELSE PublishState(s, "off")
  <2>1. Backed(c, s) /\ Steady(Sight(c), s)
    BY SightBacked, RetrySet
  <2>2. Do(c, outcomes)
    BY <1>1 DEF ShortFrame
  <2> HIDE DEF s
  <2>3. \A t \in outcomes : t \in Sights /\ Steady(Sight(c), t)
    BY <2>1, PublishStateBacked DEF Backed, Steady
  <2> HIDE DEF outcomes
  <2>4. QED
    BY <2>2, <2>3, SteadyDo
<1>2. ASSUME NEW st \in {"off", "bulk"}, FullFrame(c, st)
      PROVE  UNCHANGED Services
  <2>1. \A t \in Publish(Sight(c), st) : t \in Sights /\ Steady(Sight(c), t)
    BY SightBacked, PublishSteady
  <2>2. QED
    BY <1>2, <2>1, SteadyDo DEF FullFrame
<1>3. QED
  BY <1>1, <1>2

\* A write or a poll that ends, whatever it says and starts next.
LEMMA DeliverFace ==
  ASSUME Inv, Deliver
  PROVE  UNCHANGED Services
<1> DEFINE c == job.dev
           f == Finished(Writer)
           s == [Sight(c) EXCEPT !.w = f]
           outcomes == Told(c, s, job, stage = "good")
<1>1. stage \in {"good", "bad"} /\ job \in Requests /\ c \in Device /\ job # Free
  BY DEF Deliver, Settled, Inv, Writer, WriterType, Requests
<1>2. f \in WriterType /\ f.job = Free /\ f.stage = "idle"
  BY FinishedWriter DEF Inv
<1>3. s.d = Sight(c).d /\ s.r = Sight(c).r /\ s.w = f /\ s \in Sights
  BY <1>1, <1>2, SightBacked DEF Sights
<1>4. Do(c, outcomes)
  <2>1. s = [Sight(c) EXCEPT !.w = Finished(@)]
    BY <1>1, SightBacked DEF Sights
  <2>2. QED
    BY <2>1 DEF Deliver
<1>5. Backed(c, Sight(c)) /\ Sight(c).w.job = job /\ StateTold(s)
  BY <1>1, <1>3, SightBacked DEF Writer, Backed, StateTold
<1> HIDE DEF s, f
<1>6. ASSUME NEW t \in outcomes
      PROVE  t \in Sights /\ Steady(s, t)
  <2>1. CASE job.why = "poll"
    <3> DEFINE u == [s EXCEPT !.d.polling = FALSE]
    <3>1. /\ u \in Sights /\ u.w = f /\ u.r = s.r /\ ~u.d.polling
          /\ u.d.seen = s.d.seen /\ u.d.engaged = s.d.engaged
          /\ u.d.advertised = s.d.advertised
      BY <1>3 DEF Sights, DriverType
    <3>2. Backed(c, u) /\ Steady(s, u)
      BY <1>2, <1>5, <3>1 DEF Backed, PollBacked, StateTold, Derived, Holds, Steady
    <3>3. t \in {u} \cup UNION {Publish(u, st) : st \in Shows[c] \ {"short"}}
      BY <1>6, <2>1 DEF Told, PollDone
    <3> HIDE DEF u
    <3>4. \A st \in Shows[c] \ {"short"} : st \in {"off", "bulk"}
      BY <1>1, AskedAssumption
    <3>5. QED
      BY <3>1, <3>2, <3>3, <3>4, PublishSteady DEF Steady
  <2>2. CASE job.why # "poll"
    <3>1. EndOf(job)
      BY <1>1, <2>2 DEF Requests, EndOf
    <3>2. t \in AfterWrite(c, s, job, stage = "good")
      BY <1>6, <2>2 DEF Told
    <3>3. ~s.d.polling
      BY <1>3, <1>5, <2>2 DEF Backed, PollBacked
    <3>4. Backed(c, s)
      BY <1>2, <1>3, <1>5, <3>3 DEF Backed, PollBacked, Holds
    <3>5. (stage = "good") \in BOOLEAN
      OBVIOUS
    <3> HIDE DEF outcomes
    <3>6. QED
      BY <1>1, <3>1, <3>2, <3>4, <3>5, AfterWriteBacked DEF Backed
  <2>3. QED
    BY <2>1, <2>2
<1>7. \A t \in outcomes : t \in Sights /\ Steady(Sight(c), t)
  BY <1>3, <1>6 DEF Steady
<1> HIDE DEF outcomes
<1>8. QED
  BY <1>1, <1>4, <1>7, SteadyDo

\* Turning a charger off and on keeps its values.
LEMMA EnabledFace ==
  ASSUME Inv, NEW c \in Device, SetEnabled(c)
  PROVE  UNCHANGED Services
<1>1. /\ role' = [role EXCEPT ![c].enabled = ~@] /\ drv' = drv
      /\ role \in [Device -> RoleType]
  BY DEF SetEnabled, Inv
<1>2. \A d \in Device : role'[d].at = role[d].at
  BY <1>1 DEF RoleType
<1>3. \A d \in Device : Face(drv'[d], role'[d]) = Face(drv[d], role[d])
  BY <1>1, <1>2 DEF Face
<1>4. QED
  BY <1>3 DEF Services

\* A charger's service that has just been made.
LEMMA NewFace ==
  ASSUME NEW profile, NEW on
  PROVE  Face(NewDriver, NewRole(profile, on)) = Link!Released
BY DEF Face, NewDriver, NewRole, Link!Released, Profile, Setpoint, Switch, Unset

LEMMA FaceStep == Inv /\ [Next]_vars => [Link!ControlNext]_Services
<1> SUFFICES ASSUME Inv, [Next]_vars
             PROVE  [Link!ControlNext]_Services
  OBVIOUS
<1>1. ASSUME NEW c \in Device, DriverStep(c)
      PROVE  UNCHANGED Services
  <2>1. \A st \in Shows[c] \ {"short"} : st \in {"off", "bulk"}
    BY AskedAssumption
  <2>2. QED
    BY <1>1, <2>1, TimerFace, FrameFace, EnabledFace DEF DriverStep
<1>2. ASSUME NEW c \in Device, Write(c)
      PROVE  [Link!ControlNext]_Services
  BY <1>2, SetValueFace DEF Write
<1>3. CASE Progress(Connect) \/ Transmit \/ Progress(Complete) \/ Progress(Fail)
  BY <1>3 DEF Progress, Transmit, chargerVars, Services
<1>4. CASE Deliver
  BY <1>4, DeliverFace
<1>5. CASE Restart
  <2>1. /\ drv' = [c \in Device |-> NewDriver]
        /\ role' = [c \in Device |-> NewRole(saved[c], role[c].enabled)]
    BY <1>5 DEF Restart
  <2>2. Services' = [c \in Device |-> Link!Released]
    BY <2>1, NewFace DEF Services
  <2>3. QED
    BY <2>2 DEF Link!ControlNext, Link!Start, Services
<1>6. CASE UNCHANGED vars
  BY <1>6 DEF vars, chargerVars, Services
<1>7. QED
  BY <1>1, <1>2, <1>3, <1>4, <1>5, <1>6 DEF Next, Session

\* A pending register write has its drain timer, or a write of the same charger
\* under way whose end sets the timer (_kick_pending_writes, on_done).
THEOREM NoStrandedWriteAlways == Spec => []NoStrandedWrite
<1>1. Inv => NoStrandedWrite
  BY DEF Inv, NoStrandedWrite, Served, Sight, Writer, Holds
<1>2. QED
  BY <1>1, InductiveInvariant, PTL

\* _hex_telemetry_busy is set exactly while the writer works on the poll.
THEOREM PollFlagBackedAlways == Spec => []PollFlagBacked
<1>1. Inv => PollFlagBacked
  BY DEF Inv, PollFlagBacked, Backed, PollBacked, Sight, Writer, Holds
<1>2. QED
  BY <1>1, InductiveInvariant, PTL

\* /State and /Link/NetworkStatus agree with _dvcc_engaged, although the
\* publisher's cache is written on another path (_set_dvcc_engaged).
THEOREM StateTellsControlAlways == Spec => []StateTellsControl
<1>1. Inv => StateTellsControl
  BY DEF Inv, StateTellsControl, Backed, StateTold, Sight
<1>2. QED
  BY <1>1, InductiveInvariant, PTL

\* The writer with its drivers implements a register session: one request at a
\* time, sent at most once, answered once (AsyncGATTWriter).
THEOREM OneSessionAlways == Spec => OneSession
<1>1. Init => Promise!SessionInit
  BY DEF Init, GattInit, Promise!SessionInit
<1>2. ASSUME Inv, SessionStep
      PROVE  [Promise!SessionNext]_(Promise!sessionVars)
  BY <1>2 DEF Inv, SessionStep, WriterStep, Promise!SessionNext, Promise!sessionVars,
     Promise!Ask, Promise!Send, Promise!Succeed, Promise!Give, Promise!Answer,
     Promise!AnswerAndAsk, Promise!Abandon
<1>3. Inv /\ [Next]_vars => [Promise!SessionNext]_(Promise!sessionVars)
  BY <1>2, NextStep
<1>4. QED
  BY <1>1, <1>3, InductiveInvariant, PTL DEF Spec, OneSession, Promise!SessionSpec

\* A charger's service keeps the promise of ControlPaths, with its write queue,
\* the shared writer, the frames and the telemetry in between: each path holds
\* what was written to it last, and the last change of a control path decides
\* whether the charger is under external control (the _on_link_* handlers,
\* _on_settings_bms_present_write, BleRoleCharger.init).
THEOREM EngagedAsToldAlways == Spec => EngagedAsTold
<1>1. Init => Link!ControlInit
  <2> SUFFICES ASSUME Init
               PROVE  Link!ControlInit
    OBVIOUS
  <2>1. /\ drv = [c \in Device |-> NewDriver]
        /\ role = [c \in Device |-> NewRole(NoProfile, TRUE)]
    BY DEF Init
  <2>2. Services = [c \in Device |-> Link!Released]
    BY <2>1, NewFace DEF Services
  <2>3. QED
    BY <2>2 DEF Link!ControlInit, Services
<1>2. Inv /\ [Next]_vars => [Link!ControlNext]_Services
  BY FaceStep
<1>3. QED
  BY <1>1, <1>2, InductiveInvariant, PTL DEF Spec, EngagedAsTold, Link!ControlSpec, Services

===============================================================================
