---------------------------- MODULE EasyStartProofs ---------------------------
(***************************************************************************)
(* Proofs about EasyStart, for every set of cards and every allowlist.     *)
(*                                                                         *)
(* ActiveBacked is inductive with the type of the idle queue: a session    *)
(* settles at most once after the flag was set, what it published before   *)
(* is ahead of its outcome in the queue, and the flag falls when that      *)
(* outcome is taken off.  LinkOnOwnCard needs that the card noted from an  *)
(* advertisement is one of ours (AdapterAllowed): the session looks it up  *)
(* later, when advertisements of other cards have been heard meanwhile.    *)
(***************************************************************************)
EXTENDS EasyStart, SequenceTheorems, TLAPS

Item == {"live", "config"} \cup Outcome

\* Where the outcomes of sessions are in the idle queue.
Ends(q) == {i \in DOMAIN q : q[i] \in Outcome}

FlagBacked(on, st, q) ==
  /\ on <=> st # "none" \/ Ends(q) # {}
  /\ Ends(q) # {} => st = "none" /\ Ends(q) = {Len(q)}

AdapterAllowed == adapter \in Own \cup {Nowhere}

SessionInv ==
  /\ idle \in Seq(Item)
  /\ FlagBacked(active, stage, idle)
  /\ AdapterAllowed /\ LinkOnOwnCard

(***************************************************************************)
(* The idle queue.                                                         *)
(***************************************************************************)

\* What a session publishes leaves the outcomes where they are.
LEMMA PublishedKeepsEnds ==
  ASSUME NEW q \in Seq(Item), NEW x \in {"live", "config"}
  PROVE  Append(q, x) \in Seq(Item) /\ Ends(Append(q, x)) = Ends(q)
<1>1. Append(q, x) \in Seq(Item) /\ Len(Append(q, x)) = Len(q) + 1
  BY DEF Item
<1>2. \A i \in 1..Len(q) : Append(q, x)[i] = q[i]
  OBVIOUS
<1>3. Append(q, x)[Len(q) + 1] = x /\ x \notin Outcome
  BY DEF Outcome
<1>4. QED
  BY <1>1, <1>2, <1>3 DEF Ends

\* The outcome of a session is the last of the queue and its only one.
LEMMA SettledIsLast ==
  ASSUME NEW q \in Seq(Item), NEW x \in Outcome, Ends(q) = {}
  PROVE  Append(q, x) \in Seq(Item) /\ Ends(Append(q, x)) = {Len(Append(q, x))}
<1>1. Append(q, x) \in Seq(Item) /\ Len(Append(q, x)) = Len(q) + 1
  BY DEF Item
<1>2. \A i \in 1..Len(q) : Append(q, x)[i] = q[i] /\ q[i] \notin Outcome
  BY DEF Ends
<1>3. Append(q, x)[Len(q) + 1] = x
  OBVIOUS
<1>4. QED
  BY <1>1, <1>2, <1>3 DEF Ends

\* An entry that is no outcome is taken off: those behind it move up by one.
LEMMA TakenKeepsEnds ==
  ASSUME NEW q \in Seq(Item), q # <<>>, Head(q) \notin Outcome,
         Ends(q) \subseteq {Len(q)}
  PROVE  /\ Tail(q) \in Seq(Item) /\ Ends(Tail(q)) \subseteq {Len(Tail(q))}
         /\ Ends(Tail(q)) = {} <=> Ends(q) = {}
<1>1. Tail(q) \in Seq(Item) /\ Len(Tail(q)) = Len(q) - 1 /\ Len(q) \in Nat \ {0}
  OBVIOUS
<1>2. \A i \in 1..(Len(q) - 1) : Tail(q)[i] = q[i + 1]
  OBVIOUS
<1>3. q[1] \notin Outcome
  OBVIOUS
<1>4. \A i \in DOMAIN Tail(q) : i \in Ends(Tail(q)) <=> i + 1 \in Ends(q)
  BY <1>1, <1>2 DEF Ends
<1>5. \A i \in Ends(q) : i # 1 /\ i \in 1..Len(q)
  BY <1>3 DEF Ends
<1>6. \A i \in Ends(q) : i - 1 \in Ends(Tail(q))
  BY <1>1, <1>2, <1>5 DEF Ends
<1>7. Ends(Tail(q)) \subseteq {Len(Tail(q))}
  BY <1>1, <1>4 DEF Ends
<1>8. QED
  BY <1>1, <1>4, <1>6, <1>7 DEF Ends

\* Nothing has ended in an empty queue.
LEMMA NothingEnds ==
  ASSUME NEW q \in Seq(Item), Len(q) = 0
  PROVE  Ends(q) = {}
BY DEF Ends

\* The outcome of the last session is taken off: nothing is behind it.
LEMMA OutcomeTaken ==
  ASSUME NEW q \in Seq(Item), q # <<>>, Head(q) \in Outcome,
         Ends(q) # {} => Ends(q) = {Len(q)}
  PROVE  Tail(q) \in Seq(Item) /\ Ends(Tail(q)) = {}
<1>1. 1 \in Ends(q)
  BY DEF Ends
<1>2. Len(q) = 1
  BY <1>1
<1>3. Tail(q) \in Seq(Item) /\ Len(Tail(q)) = Len(q) - 1
  OBVIOUS
<1>4. Len(Tail(q)) = 0
  BY <1>2, <1>3
<1>5. QED
  BY <1>3, <1>4, NothingEnds

(***************************************************************************)
(* The steps.                                                              *)
(***************************************************************************)

\* A session that is under way settles.
LEMMA SettleBacked ==
  ASSUME SessionInv, stage # "none", active' = active,
         NEW x \in Outcome, Settle(x)
  PROVE  idle' \in Seq(Item) /\ FlagBacked(active', stage', idle') /\ via' = Nowhere
<1>1. Ends(idle) = {} /\ active
  BY DEF SessionInv, FlagBacked
<1>2. idle' = Append(idle, x) /\ stage' = "none" /\ via' = Nowhere
  BY DEF Settle
<1>3. idle' \in Seq(Item) /\ Ends(idle') = {Len(idle')}
  BY <1>1, <1>2, SettledIsLast DEF SessionInv
<1>4. QED
  BY <1>1, <1>2, <1>3 DEF FlagBacked

\* A session that is under way publishes, or only waits.
LEMMA PublishBacked ==
  ASSUME SessionInv, stage # "none", stage' # "none", active' = active,
         \/ idle' = idle
         \/ \E x \in {"live", "config"} : idle' = Append(idle, x)
  PROVE  idle' \in Seq(Item) /\ FlagBacked(active', stage', idle')
<1>1. Ends(idle) = {} /\ active
  BY DEF SessionInv, FlagBacked
<1>2. idle' \in Seq(Item) /\ Ends(idle') = {}
  BY <1>1, PublishedKeepsEnds DEF SessionInv
<1>3. QED
  BY <1>1, <1>2 DEF FlagBacked

LEMMA AdvertisementSession ==
  ASSUME SessionInv, NEW c \in Card, Advertisement(c)
  PROVE  SessionInv'
<1>1. idle' = idle /\ adapter' \in Own
  BY DEF Advertisement, Allowed
<1>2. CASE enabled /\ ~active /\ cooldown = 0
  <2>1. StartSession
    BY <1>2 DEF Advertisement
  <2>2. stage = "none" /\ Ends(idle) = {}
    BY <1>2 DEF SessionInv, FlagBacked
  <2>3. via' = Nowhere
    BY <2>1 DEF StartSession
  <2>4. PICK l \in {"up", "failed", loop} : StartIf(l)
    BY <2>1 DEF StartSession
  <2>5. active' <=> stage' # "none"
    BY <1>2, <2>2, <2>4 DEF StartIf
  <2>6. QED
    BY <1>1, <2>2, <2>3, <2>5 DEF SessionInv, FlagBacked, AdapterAllowed, LinkOnOwnCard
<1>3. CASE ~(enabled /\ ~active /\ cooldown = 0)
  <2>1. UNCHANGED <<session, active>>
    BY <1>3 DEF Advertisement
  <2>2. QED
    BY <1>1, <2>1 DEF SessionInv, FlagBacked, AdapterAllowed, LinkOnOwnCard, session
<1>4. QED
  BY <1>2, <1>3

LEMMA ResolveSession ==
  ASSUME SessionInv, Resolve
  PROVE  SessionInv'
<1>1. UNCHANGED <<adapter, active>> /\ stage = "resolving"
  BY DEF Resolve, driver
<1>2. CASE Settle("failed")
  BY <1>1, <1>2, SettleBacked DEF SessionInv, AdapterAllowed, LinkOnOwnCard, Outcome
<1>3. CASE stage' = "linked" /\ via' = adapter /\ UNCHANGED idle
  <2>1. FlagBacked(active', stage', idle') /\ idle' \in Seq(Item)
    BY <1>1, <1>3, PublishBacked
  <2>2. QED
    BY <1>1, <1>3, <2>1 DEF SessionInv, AdapterAllowed, LinkOnOwnCard
<1>4. QED
  BY <1>2, <1>3 DEF Resolve

LEMMA ReadConfigSession ==
  ASSUME SessionInv, ReadConfig
  PROVE  SessionInv'
<1>1. UNCHANGED <<adapter, active>> /\ stage = "linked"
  BY DEF ReadConfig, driver
<1>2. CASE \E x \in {"dropped", "failed"} : Settle(x)
  BY <1>1, <1>2, SettleBacked DEF SessionInv, AdapterAllowed, LinkOnOwnCard, Outcome
<1>3. CASE /\ stage' = "polling" /\ UNCHANGED via
           /\ idle' \in {idle} \cup
                (IF unit = "answers" THEN {Append(idle, "config")} ELSE {})
  <2>1. FlagBacked(active', stage', idle') /\ idle' \in Seq(Item)
    BY <1>1, <1>3, PublishBacked
  <2>2. QED
    BY <1>1, <1>3, <2>1 DEF SessionInv, AdapterAllowed, LinkOnOwnCard
<1>4. QED
  BY <1>2, <1>3 DEF ReadConfig

LEMMA PollSession ==
  ASSUME SessionInv, Poll
  PROVE  SessionInv'
<1>1. UNCHANGED <<adapter, active>> /\ stage = "polling"
  BY DEF Poll, driver
<1>2. CASE \E x \in {"ended", "failed"} : Settle(x)
  BY <1>1, <1>2, SettleBacked DEF SessionInv, AdapterAllowed, LinkOnOwnCard, Outcome
<1>3. CASE /\ UNCHANGED <<stage, via>>
           /\ idle' = idle \/ idle' = Append(idle, "live")
  <2>1. FlagBacked(active', stage', idle') /\ idle' \in Seq(Item)
    BY <1>1, <1>3, PublishBacked
  <2>2. QED
    BY <1>1, <1>3, <2>1 DEF SessionInv, AdapterAllowed, LinkOnOwnCard
<1>4. QED
  BY <1>2, <1>3 DEF Poll

\* The head of the idle queue is handled: the flag falls exactly when it is an
\* outcome, and then no other is left.
LEMMA IdleSession ==
  ASSUME SessionInv, Idle
  PROVE  SessionInv'
<1>1. idle # <<>> /\ idle' = Tail(idle) /\ UNCHANGED <<stage, via, adapter>>
  BY DEF Idle, session
<1>2. idle \in Seq(Item) /\ FlagBacked(active, stage, idle)
  BY DEF SessionInv
<1>3. Ends(idle) \subseteq {Len(idle)}
  BY <1>2 DEF FlagBacked
<1>4. Head(idle) \in Item
  BY <1>1, <1>2
<1>5. CASE Head(idle) \in Outcome
  <2>1. Tail(idle) \in Seq(Item) /\ Ends(Tail(idle)) = {}
    BY <1>1, <1>2, <1>5, OutcomeTaken DEF FlagBacked
  <2>2. 1 \in Ends(idle)
    BY <1>1, <1>2, <1>5 DEF Ends
  <2>3. stage = "none"
    BY <1>2, <2>2 DEF FlagBacked
  <2>4. ~active'
    <3>1. Head(idle) # "live" /\ Head(idle) # "config"
      BY <1>5 DEF Outcome
    <3>2. SessionDone(Head(idle))
      BY <3>1 DEF Idle
    <3>3. QED
      BY <3>2 DEF SessionDone
  <2>5. QED
    BY <1>1, <2>1, <2>3, <2>4 DEF SessionInv, FlagBacked, AdapterAllowed, LinkOnOwnCard
<1>6. CASE Head(idle) \notin Outcome
  <2>1. /\ Tail(idle) \in Seq(Item) /\ Ends(Tail(idle)) \subseteq {Len(Tail(idle))}
        /\ Ends(Tail(idle)) = {} <=> Ends(idle) = {}
    BY <1>1, <1>2, <1>3, <1>6, TakenKeepsEnds
  <2>2. active' = active
    BY <1>4, <1>6 DEF Idle, Item, Publish
  <2>3. FlagBacked(active', stage', idle')
    BY <1>1, <1>2, <2>1, <2>2 DEF FlagBacked
  <2>4. QED
    BY <1>1, <2>1, <2>3 DEF SessionInv, AdapterAllowed, LinkOnOwnCard
<1>7. QED
  BY <1>5, <1>6

\* What a restart leaves: no session, no flag, nothing queued.
LEMMA KilledSession ==
  ASSUME SessionInv, Killed
  PROVE  SessionInv'
<1>1. /\ adapter' = Nowhere /\ via' = Nowhere /\ active' = FALSE
      /\ stage' = "none" /\ idle' = <<>>
  BY DEF Killed
<1>2. Ends(<<>>) = {}
  BY DEF Ends
<1>3. QED
  BY <1>1, <1>2 DEF SessionInv, FlagBacked, AdapterAllowed, LinkOnOwnCard

LEMMA InitSession == Init => SessionInv
<1>1. Ends(<<>>) = {}
  BY DEF Ends
<1>2. QED
  BY <1>1 DEF Init, SessionInv, FlagBacked, AdapterAllowed, LinkOnOwnCard

LEMMA NextSession == SessionInv /\ [Next]_vars => SessionInv'
<1> SUFFICES ASSUME SessionInv, [Next]_vars
             PROVE  SessionInv'
  OBVIOUS
<1>1. ASSUME NEW c \in Card, Advertisement(c)
      PROVE  SessionInv'
  BY <1>1, AdvertisementSession
<1>2. CASE Session
  BY <1>2, ResolveSession, ReadConfigSession, PollSession DEF Session
<1>3. CASE Idle
  BY <1>3, IdleSession
<1>4. CASE Killed
  BY <1>4, KilledSession
<1>5. CASE UNCHANGED <<idle, active, stage, via, adapter>>
  BY <1>5 DEF SessionInv, FlagBacked, AdapterAllowed, LinkOnOwnCard
<1>6. CASE Tick \/ UnitChanges \/ DiscoveryChanges \/ OnEnabledChanged \/ Start
  BY <1>5, <1>6 DEF Tick, UnitChanges, DiscoveryChanges, OnEnabledChanged, Start,
     session, driver
<1>7. ASSUME NEW c \in Card, CardChanges(c)
      PROVE  SessionInv'
  BY <1>5, <1>7 DEF CardChanges, session, driver
<1>8. CASE UNCHANGED vars
  BY <1>5, <1>8 DEF vars, session, driver
<1>9. QED
  BY <1>1, <1>2, <1>3, <1>4, <1>6, <1>7, <1>8 DEF Next

\* The inductive invariant holds in every behaviour.
THEOREM SessionInvAlways == Spec => []SessionInv
  BY InitSession, NextSession, PTL DEF Spec

\* A link is only ever opened on a card of the allowlist (handle_name_advertisement
\* notes the card, _resolve_without_scanning uses it later).
THEOREM LinkOnOwnCardAlways == Spec => []LinkOnOwnCard
<1>1. SessionInv => LinkOnOwnCard
  BY DEF SessionInv
<1>2. QED
  BY <1>1, SessionInvAlways, PTL

\* _session_active stands for one coroutine or one outcome in the idle queue, with
\* nothing behind it (_start_session, _on_session_done).
THEOREM ActiveBackedAlways == Spec => []ActiveBacked
<1>1. SessionInv => ActiveBacked
  BY DEF SessionInv, FlagBacked, Ends, ActiveBacked
<1>2. QED
  BY <1>1, SessionInvAlways, PTL

(***************************************************************************)
(* Types.  The idle queue is bounded because a session finds it empty:     *)
(* what an earlier one published is ahead of that one's outcome, and no    *)
(* session begins before that outcome is taken off.                        *)
(***************************************************************************)
WorldType ==
  /\ unit \in Unit /\ cards \subseteq Card /\ orphan \in Card \cup {Nowhere}
  /\ discovery \in BOOLEAN /\ edits \in 0 .. Edits

SettingsType == stored \in BOOLEAN /\ enabled \in BOOLEAN /\ macSaved \in BOOLEAN

ServiceType ==
  /\ running \in BOOLEAN /\ known \in BOOLEAN /\ macKnown \in BOOLEAN
  /\ connected \in BOOLEAN /\ shown \in {"nothing", "load", "zero"}

FlagType ==
  /\ active \in BOOLEAN /\ stop \in BOOLEAN /\ reachable \in {"unknown", "yes", "no"}

BackoffType == streak \in 0 .. 6 /\ cooldown \in 0 .. LONG

SessionType ==
  /\ loop \in {"down", "up", "failed"} /\ stage \in Stage
  /\ adapter \in Card \cup {Nowhere} /\ via \in Card \cup {Nowhere}
  /\ failures \in 0 .. (MAX_POLL_FAILURES - 1)

QueueInv ==
  /\ active \/ idle = <<>>
  /\ stage = "resolving" => idle = <<>>
  /\ Len(idle) <= QueueBound + (IF stage = "none" THEN 1 ELSE 0)

TypeInv ==
  /\ WorldType /\ SettingsType /\ ServiceType /\ FlagType /\ BackoffType
  /\ SessionType /\ QueueInv

\* A back-off lasts at least the short cooldown and at most the long one.
LEMMA BackoffBounds == \A n \in 1 .. 7 : Backoff(n) \in SHORT .. LONG
<1>1. 2 ^ 0 = 1 /\ 2 ^ 1 = 2 /\ 2 ^ 2 = 4 /\ 2 ^ 3 = 8 /\ 2 ^ 4 = 16 /\ 2 ^ 5 = 32
  OBVIOUS
<1> SUFFICES ASSUME NEW n \in 1 .. 7
             PROVE  Backoff(n) \in SHORT .. LONG
  OBVIOUS
<1> DEFINE k == Least(n - 1, 5)
<1>2. k = 0 \/ k = 1 \/ k = 2 \/ k = 3 \/ k = 4 \/ k = 5
  BY DEF Least
<1>3. Backoff(n) = Least(SHORT * 2 ^ k, LONG)
  BY DEF Backoff
<1> HIDE DEF k
<1>4. 2 ^ k \in 1 .. 32
  <2>1. CASE k = 0
    BY <1>1, <2>1
  <2>2. CASE k = 1
    BY <1>1, <2>2
  <2>3. CASE k = 2
    BY <1>1, <2>3
  <2>4. CASE k = 3
    BY <1>1, <2>4
  <2>5. CASE k = 4
    BY <1>1, <2>5
  <2>6. CASE k = 5
    BY <1>1, <2>6
  <2>7. QED
    BY <1>2, <2>1, <2>2, <2>3, <2>4, <2>5, <2>6
<1> DEFINE b == 2 ^ k
<1>5. b \in 1 .. 32 /\ Backoff(n) = Least(SHORT * b, LONG)
  BY <1>3, <1>4
<1> HIDE DEF b
<1>6. QED
  BY <1>5 DEF Least, SHORT, LONG

LEMMA WorldTypes == WorldType /\ SessionType /\ [Next]_vars => WorldType'
<1> SUFFICES ASSUME WorldType, SessionType, [Next]_vars
             PROVE  WorldType'
  OBVIOUS
<1>1. Edit => edits' \in 0 .. Edits
  BY EasyStartAssumption DEF Edit, WorldType
<1>2. CASE UnitChanges
  BY <1>1, <1>2 DEF UnitChanges, LinkKept, WorldType
<1>3. ASSUME NEW c \in Card, CardChanges(c)
      PROVE  WorldType'
  BY <1>1, <1>3 DEF CardChanges, LinkKept, WorldType
<1>4. CASE DiscoveryChanges
  BY <1>1, <1>4 DEF DiscoveryChanges, WorldType
<1>5. CASE OnEnabledChanged
  BY <1>1, <1>5 DEF OnEnabledChanged, world, WorldType
<1>6. CASE Killed
  BY <1>1, <1>6 DEF Killed, WorldType, SessionType
<1>7. CASE Start
  BY <1>7 DEF Start, Swept, WorldType
<1>8. CASE UNCHANGED <<world, edits>>
  BY <1>8 DEF world, WorldType
<1>9. QED
  BY <1>2, <1>3, <1>4, <1>5, <1>6, <1>7, <1>8
     DEF Next, Advertisement, Session, Resolve, ReadConfig, Poll, Idle, Tick, vars

LEMMA SettingsTypes == SettingsType /\ [Next]_vars => SettingsType'
<1> SUFFICES ASSUME SettingsType, [Next]_vars
             PROVE  SettingsType'
  OBVIOUS
<1>1. ASSUME NEW c \in Card, Advertisement(c)
      PROVE  SettingsType'
  BY <1>1 DEF Advertisement, CacheAddress, SettingsType
<1>2. CASE OnEnabledChanged
  BY <1>2 DEF OnEnabledChanged, SettingsType
<1>3. CASE UNCHANGED settings
  BY <1>3 DEF settings, SettingsType
<1>4. QED
  BY <1>1, <1>2, <1>3
     DEF Next, Session, Resolve, ReadConfig, Poll, Idle, Tick, UnitChanges, DiscoveryChanges,
         CardChanges, Killed, Start, vars

LEMMA ServiceTypes ==
  SessionInv /\ SettingsType /\ ServiceType /\ [Next]_vars => ServiceType'
<1> SUFFICES ASSUME SessionInv, SettingsType, ServiceType, [Next]_vars
             PROVE  ServiceType'
  OBVIOUS
<1>1. ASSUME NEW c \in Card, Advertisement(c)
      PROVE  ServiceType'
  BY <1>1 DEF Advertisement, CacheAddress, SettingsType, ServiceType
<1>2. CASE OnEnabledChanged
  BY <1>2 DEF OnEnabledChanged, SettingsType, ServiceType
<1>3. CASE Idle
  <2>1. shown' \in {shown, "load", "zero"}
    BY <1>3 DEF Idle, Publish, SessionDone, Offline
  <2>2. UNCHANGED <<running, known, macKnown, connected>>
    BY <1>3 DEF Idle
  <2>3. QED
    BY <2>1, <2>2 DEF ServiceType
<1>4. CASE Killed
  BY <1>4 DEF Killed, ServiceType
<1>5. CASE Start
  BY <1>5 DEF Start, Loaded, SettingsType, ServiceType
<1>6. CASE UNCHANGED service
  BY <1>6 DEF service, ServiceType
<1>7. QED
  BY <1>1, <1>2, <1>3, <1>4, <1>5, <1>6
     DEF Next, Session, Resolve, ReadConfig, Poll, Tick, UnitChanges, DiscoveryChanges,
         CardChanges, vars

LEMMA FlagTypes == FlagType /\ [Next]_vars => FlagType'
<1> SUFFICES ASSUME FlagType, [Next]_vars
             PROVE  FlagType'
  OBVIOUS
<1>1. ASSUME NEW c \in Card, Advertisement(c)
      PROVE  FlagType'
  BY <1>1 DEF Advertisement, StartSession, StartIf, FlagType
<1>2. CASE Idle
  BY <1>2 DEF Idle, Publish, SessionDone, Offline, FlagType
<1>3. CASE Killed
  BY <1>3 DEF Killed, FlagType
<1>4. CASE Start
  BY <1>4 DEF Start, FlagType
<1>5. CASE UNCHANGED <<active, stop, reachable>>
  BY <1>5 DEF FlagType
<1>6. QED
  BY <1>1, <1>2, <1>3, <1>4, <1>5
     DEF Next, Session, Resolve, ReadConfig, Poll, Tick, UnitChanges, DiscoveryChanges,
         OnEnabledChanged, CardChanges, driver, vars

LEMMA BackoffTypes == BackoffType /\ [Next]_vars => BackoffType'
<1> SUFFICES ASSUME BackoffType, [Next]_vars
             PROVE  BackoffType'
  OBVIOUS
<1>1. ASSUME NEW outcome, SessionDone(outcome)
      PROVE  BackoffType'
  <2>1. streak + 1 \in 1 .. 7 /\ Least(streak + 1, 6) \in 0 .. 6
    BY DEF BackoffType, Least
  <2>2. Backoff(streak + 1) \in 0 .. LONG
    BY <2>1, BackoffBounds DEF SHORT, LONG
  <2>3. SHORT \in 0 .. LONG
    BY DEF SHORT, LONG
  <2>4. QED
    BY <1>1, <2>1, <2>2, <2>3 DEF SessionDone, BackoffType
<1>2. CASE UNCHANGED <<streak, cooldown>>
  BY <1>2 DEF BackoffType
<1>3. CASE Idle
  BY <1>1, <1>2, <1>3 DEF Idle, Publish
<1>4. CASE Tick
  BY <1>4 DEF Tick, BackoffType, LONG
<1>5. CASE Killed
  BY <1>5 DEF Killed, BackoffType, LONG
<1>6. QED
  BY <1>2, <1>3, <1>4, <1>5
     DEF Next, Advertisement, Session, Resolve, ReadConfig, Poll, UnitChanges,
         DiscoveryChanges, OnEnabledChanged, CardChanges, Start, driver, vars

LEMMA SessionTypes == SessionType /\ [Next]_vars => SessionType'
<1> SUFFICES ASSUME SessionType, [Next]_vars
             PROVE  SessionType'
  OBVIOUS
<1>1. ASSUME NEW c \in Card, Advertisement(c)
      PROVE  SessionType'
  <2>1. adapter' = c
    BY <1>1 DEF Advertisement
  <2>2. CASE StartSession
    <3>1. PICK l \in {"up", "failed", loop} : StartIf(l)
      BY <2>2 DEF StartSession
    <3>2. loop' \in {"down", "up", "failed"} /\ stage' \in Stage
      BY <3>1 DEF StartIf, SessionType, Stage
    <3>3. via' = Nowhere /\ failures' = 0
      BY <2>2 DEF StartSession
    <3>4. QED
      BY <2>1, <3>2, <3>3 DEF SessionType, MAX_POLL_FAILURES
  <2>3. CASE UNCHANGED session
    BY <2>1, <2>3 DEF session, SessionType
  <2>4. QED
    BY <1>1, <2>2, <2>3 DEF Advertisement
<1>2. CASE Resolve
  BY <1>2 DEF Resolve, Settle, driver, SessionType, Stage
<1>3. CASE ReadConfig
  BY <1>3 DEF ReadConfig, Settle, driver, SessionType, Stage
<1>4. CASE Poll
  <2>1. stage' \in {"none", stage} /\ via' \in {Nowhere, via} /\ UNCHANGED <<loop, adapter>>
    BY <1>4 DEF Poll, Settle, driver
  <2>2. failures' \in 0 .. (MAX_POLL_FAILURES - 1)
    <3>1. \/ failures' = failures \/ failures' = 0
          \/ failures' = failures + 1 /\ failures + 1 # MAX_POLL_FAILURES
      BY <1>4 DEF Poll
    <3>2. QED
      BY <3>1 DEF SessionType, MAX_POLL_FAILURES
  <2>3. QED
    BY <2>1, <2>2 DEF SessionType, Stage
<1>5. CASE Killed
  BY <1>5 DEF Killed, SessionType, Stage, MAX_POLL_FAILURES
<1>6. CASE UNCHANGED <<session, adapter>>
  BY <1>6 DEF session, SessionType
<1>7. QED
  BY <1>1, <1>2, <1>3, <1>4, <1>5, <1>6
     DEF Next, Session, Idle, Tick, UnitChanges, DiscoveryChanges, OnEnabledChanged,
         CardChanges, Start, driver, vars

LEMMA EmptyQueue ==
  /\ <<>> \in Seq(Item) /\ Len(<<>>) = 0
  /\ \A q \in Seq(Item) : Len(q) = 0 => q = <<>>
BY EmptySeq

LEMMA QueueNext == SessionInv /\ QueueInv /\ [Next]_vars => QueueInv'
<1> SUFFICES ASSUME SessionInv, QueueInv, [Next]_vars
             PROVE  QueueInv'
  OBVIOUS
<1>1. /\ idle \in Seq(Item) /\ Len(idle) \in Nat /\ QueueBound \in Nat
      /\ stage # "none" => active
  BY EasyStartAssumption DEF SessionInv, FlagBacked
<1>2. ASSUME NEW c \in Card, Advertisement(c)
      PROVE  QueueInv'
  <2>1. UNCHANGED idle
    BY <1>2 DEF Advertisement
  <2>2. CASE ~active /\ StartSession
    <3>1. idle = <<>> /\ stage = "none"
      BY <1>1, <2>2 DEF QueueInv
    <3>2. QED
      BY <1>1, <2>1, <3>1, EmptyQueue DEF QueueInv
  <2>3. CASE UNCHANGED <<session, active>>
    BY <2>1, <2>3 DEF session, QueueInv
  <2>4. QED
    BY <1>2, <2>2, <2>3 DEF Advertisement
<1>3. ASSUME NEW x \in Outcome, stage # "none", active' = active, Settle(x)
      PROVE  QueueInv'
  <2>1. active /\ Len(idle) <= QueueBound
    BY <1>1, <1>3 DEF QueueInv
  <2>2. idle' = Append(idle, x) /\ stage' = "none" /\ Len(Append(idle, x)) = Len(idle) + 1
    BY <1>1, <1>3 DEF Settle
  <2>3. QED
    BY <1>1, <1>3, <2>1, <2>2 DEF QueueInv
<1>4. ASSUME stage \in {"resolving", "linked", "polling"}, stage' \in {"linked", "polling"},
             active' = active,
             \/ idle' = idle
             \/ Len(idle) < QueueBound /\ \E x \in {"live", "config"} : idle' = Append(idle, x)
      PROVE  QueueInv'
  <2>1. active /\ Len(idle) <= QueueBound
    BY <1>1, <1>4 DEF QueueInv
  <2>2. Len(idle') <= QueueBound
    <3>1. CASE idle' = idle
      BY <2>1, <3>1
    <3>2. ASSUME NEW x \in {"live", "config"}, idle' = Append(idle, x), Len(idle) < QueueBound
          PROVE  Len(idle') <= QueueBound
      <4>1. Len(Append(idle, x)) = Len(idle) + 1
        BY <1>1 DEF Item
      <4>2. QED
        BY <1>1, <3>2, <4>1
    <3>3. QED
      BY <1>4, <3>1, <3>2
  <2>3. QED
    BY <1>1, <1>4, <2>1, <2>2 DEF QueueInv
<1>5. CASE Resolve
  <2>1. Settle("failed") \/ (stage' = "linked" /\ UNCHANGED idle)
    BY <1>5 DEF Resolve
  <2>2. stage = "resolving" /\ active' = active
    BY <1>5 DEF Resolve, driver
  <2>3. QED
    BY <1>3, <1>4, <2>1, <2>2 DEF Outcome
<1>6. CASE ReadConfig
  <2>1. stage = "linked" /\ active' = active /\ Len(idle) < QueueBound
    BY <1>6 DEF ReadConfig, driver
  <2>2. \/ \E x \in {"dropped", "failed"} : Settle(x)
        \/ stage' = "polling" /\ (idle' = idle \/ idle' = Append(idle, "config"))
    BY <1>6 DEF ReadConfig
  <2>3. QED
    BY <1>3, <1>4, <2>1, <2>2 DEF Outcome
<1>7. CASE Poll
  <2>1. stage = "polling" /\ active' = active /\ Len(idle) < QueueBound
    BY <1>7 DEF Poll, driver
  <2>2. \/ Settle("ended") \/ Settle("failed")
        \/ UNCHANGED stage /\ (idle' = idle \/ idle' = Append(idle, "live"))
    BY <1>7 DEF Poll
  <2>3. QED
    BY <1>3, <1>4, <2>1, <2>2 DEF Outcome
<1>8. CASE Idle
  <2>1. idle # <<>> /\ idle' = Tail(idle) /\ UNCHANGED stage
    BY <1>8 DEF Idle, session
  <2>2. Len(Tail(idle)) = Len(idle) - 1 /\ Head(idle) \in Item
    BY <1>1, <2>1
  <2>3. active
    BY <2>1 DEF QueueInv
  <2>4. active' \/ Tail(idle) = <<>>
    <3>1. CASE Head(idle) \in Outcome
      <4>1. Ends(idle) # {} => Ends(idle) = {Len(idle)}
        BY DEF SessionInv, FlagBacked
      <4>2. 1 \in Ends(idle)
        BY <1>1, <2>1, <3>1 DEF Ends
      <4>3. Len(Tail(idle)) = 0 /\ Tail(idle) \in Seq(Item)
        BY <1>1, <2>1, <2>2, <4>1, <4>2
      <4>4. QED
        BY <4>3, EmptyQueue
    <3>2. CASE Head(idle) \notin Outcome
      BY <1>8, <2>2, <2>3, <3>2 DEF Idle, Item, Publish
    <3>3. QED
      BY <3>1, <3>2
  <2>5. stage = "resolving" => FALSE
    BY <2>1 DEF QueueInv
  <2>6. QED
    BY <1>1, <2>1, <2>2, <2>4, <2>5 DEF QueueInv
<1>9. CASE Killed
  BY <1>1, <1>9, EmptyQueue DEF Killed, QueueInv
<1>10. CASE UNCHANGED <<idle, active, stage>>
  BY <1>10 DEF QueueInv
<1>11. QED
  BY <1>2, <1>5, <1>6, <1>7, <1>8, <1>9, <1>10
     DEF Next, Session, Tick, UnitChanges, DiscoveryChanges, OnEnabledChanged, CardChanges,
         Start, driver, session, vars

LEMMA InitTypes == Init => TypeInv
<1> SUFFICES ASSUME Init
             PROVE  TypeInv
  OBVIOUS
<1>1. WorldType
  <2>1. edits \in 0 .. Edits
    BY EasyStartAssumption DEF Init
  <2>2. QED
    BY <2>1 DEF Init, WorldType
<1>2. SettingsType /\ ServiceType /\ FlagType
  BY DEF Init, SettingsType, ServiceType, FlagType
<1>3. streak = 0 /\ cooldown = 0 /\ failures = 0
  BY DEF Init
<1>4. BackoffType
  BY <1>3 DEF BackoffType, LONG
<1>5. failures \in 0 .. (MAX_POLL_FAILURES - 1)
  BY <1>3 DEF MAX_POLL_FAILURES
<1>6. SessionType
  BY <1>5 DEF Init, SessionType, Stage
<1>7. idle = <<>> /\ stage = "none"
  BY DEF Init
<1>8. QueueInv
  BY <1>7, EmptyQueue, EasyStartAssumption DEF QueueInv
<1>9. QED
  BY <1>1, <1>2, <1>4, <1>6, <1>8 DEF TypeInv

\* The types of EasyStart: among them that back-offs stay between the short and
\* the long cooldown, that a session gives up before MAX_POLL_FAILURES reads have
\* failed in a row, and that the idle queue never outgrows what one session may
\* publish, because every session begins with an empty one.
THEOREM TypeCorrect == Spec => []TypeOK
<1>1. SessionInv /\ TypeInv /\ [Next]_vars => TypeInv'
  BY WorldTypes, SettingsTypes, ServiceTypes, FlagTypes, BackoffTypes, SessionTypes, QueueNext
     DEF TypeInv
<1>2. SessionInv /\ TypeInv => TypeOK
  <2> SUFFICES ASSUME SessionInv, TypeInv
               PROVE  TypeOK
    OBVIOUS
  <2>1. idle \in Seq({"live", "config"} \cup Outcome)
    BY DEF SessionInv, Item
  <2>2. Len(idle) <= QueueBound + 1
    BY <2>1, EasyStartAssumption DEF TypeInv, QueueInv
  <2>3. QED
    BY <2>1, <2>2 DEF TypeInv, WorldType, SettingsType, ServiceType, FlagType, BackoffType,
       SessionType, TypeOK
<1>3. QED
  BY InitTypes, <1>1, <1>2, SessionInvAlways, PTL DEF Spec
===============================================================================
