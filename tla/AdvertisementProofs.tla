---------------------------- MODULE AdvertisementProofs -------------------------
(***************************************************************************)
(* Proofs about the way of an advertisement: who gets it (Router) and what *)
(* is read of it (SensorFrames).                                           *)
(*                                                                         *)
(* Router, for every set of services, paths, manufacturers, addresses and  *)
(* products.  NoneMissed is inductive together with the type invariant:    *)
(* every action that takes a service out of one of the places where the    *)
(* router still has to look puts it into another, or has found what it     *)
(* exports, or gives it an excuse.  The part that needs care is the        *)
(* message queue, hence the two lemmas on what waits in it.                *)
(* MakersReachRouter needs that the tap's sets are a function of the       *)
(* registrations (FiltersInStep).                                          *)
(*                                                                         *)
(* SensorFrames, for every unit within MopekaAssumption.  Its invariants   *)
(* are facts about what is decoded, so the work is in the frames: a field  *)
(* is a sum of its bits, found where they were put, and the walk over the  *)
(* table of a Mopeka Standard keeps WalkInv.  The recursive functions are  *)
(* unfolded one step at a time (RunningSum, Walk), by Induction on a set   *)
(* of numbers.                                                             *)
(***************************************************************************)
EXTENDS Router, SensorFrames, SequenceTheorems, FiniteSetTheorems, WellFoundedInduction, TLAPS

\* Whether a message waits in the queue.
Has(q, m) == \E n \in DOMAIN q : q[n] = m

(***************************************************************************)
(* The message queue                                                       *)
(***************************************************************************)

\* Appending a message keeps those that wait and adds the new one.
LEMMA AppendKeeps ==
  ASSUME NEW q \in Seq(Message), NEW x \in Message
  PROVE  /\ Append(q, x) \in Seq(Message)
         /\ Has(Append(q, x), x)
         /\ \A m : Has(q, m) => Has(Append(q, x), m)
<1>1. Append(q, x) \in Seq(Message)
  OBVIOUS
<1>2. Has(Append(q, x), x)
  <2>1. Len(q) + 1 \in DOMAIN Append(q, x) /\ Append(q, x)[Len(q) + 1] = x
    OBVIOUS
  <2>2. QED
    BY <2>1 DEF Has
<1>3. ASSUME NEW m, Has(q, m) PROVE Has(Append(q, x), m)
  <2>1. PICK n \in DOMAIN q : q[n] = m
    BY <1>3 DEF Has
  <2>2. n \in DOMAIN Append(q, x) /\ Append(q, x)[n] = m
    BY <2>1
  <2>3. QED
    BY <2>2 DEF Has
<1>4. QED
  BY <1>1, <1>2, <1>3

\* Taking the first message leaves every other one that waits.
LEMMA TailKeeps ==
  ASSUME NEW q \in Seq(Message), q # <<>>
  PROVE  /\ Head(q) \in Message /\ Tail(q) \in Seq(Message)
         /\ \A m : Has(q, m) /\ m # Head(q) => Has(Tail(q), m)
<1>1. Head(q) \in Message /\ Tail(q) \in Seq(Message)
  OBVIOUS
<1>2. ASSUME NEW m, Has(q, m), m # Head(q) PROVE Has(Tail(q), m)
  <2>1. PICK n \in DOMAIN q : q[n] = m
    BY <1>2 DEF Has
  <2>2. n # 1 /\ n \in 1..Len(q)
    BY <1>2, <2>1
  <2>3. n - 1 \in DOMAIN Tail(q) /\ Tail(q)[n - 1] = m
    BY <2>1, <2>2
  <2>4. QED
    BY <2>3 DEF Has
<1>3. QED
  BY <1>1, <1>2

\* Messages are told apart by kind and sender.
LEMMA MsgType ==
  ASSUME NEW s \in Service
  PROVE  \A kind \in {"arrived", "left", "root", "bare"} :
           Msg(kind, s) \in Message /\ Msg(kind, s).kind = kind /\ Msg(kind, s).of = s
BY DEF Msg, Message

(***************************************************************************)
(* The tap's sets                                                          *)
(***************************************************************************)

\* What is collected from a set of registrations has the right type.
LEMMA CollectedType ==
  ASSUME NEW R \in SUBSET Path
  PROVE  /\ RegisteredMakers(R) \subseteq Maker
         /\ RegisteredMacs(R) \subseteq Address
         /\ RegisteredPrefixes(R) \subseteq Prefix
         /\ Gate(R) \subseteq Address
<1>1. ASSUME NEW p \in R
      PROVE  /\ p.kind \in MakerKinds => p.maker \in Maker
             /\ p.kind = "addr" => p.addr \in Address
             /\ p.kind = "name_prefix" => p.prefix \in Prefix
  BY <1>1, PathAssumption DEF PathType, MakerKinds
<1>2. RegisteredMakers(R) \subseteq Maker
  BY <1>1 DEF RegisteredMakers, OfKind
<1>3. RegisteredMacs(R) \subseteq Address
  BY <1>1 DEF RegisteredMacs, OfKind
<1>4. RegisteredPrefixes(R) \subseteq Prefix
  BY <1>1 DEF RegisteredPrefixes, OfKind
<1>5. QED
  BY <1>2, <1>3, <1>4, TapAssumption DEF Gate

\* The tap's sets follow from the registrations whenever the process runs.
FiltersInStep ==
  phase # "down" => filter = Internal \cup RegisteredMakers(reg) /\ gate = Gate(reg)

\* The router's inductive invariant.
RouterInv == TypeOK /\ NoneMissed /\ FiltersInStep

\* Register sets the tap's sets as FiltersInStep says, and keeps their types.
LEMMA RegisterStep ==
  ASSUME NEW R \in SUBSET Path, Register(R)
  PROVE  /\ reg' = R /\ filter' \in SUBSET Maker
         /\ prefixes' \in SUBSET Prefix /\ gate' \in SUBSET Address
         /\ FiltersInStep'
BY CollectedType, TapAssumption DEF Register, FiltersInStep

(***************************************************************************)
(* The steps                                                               *)
(***************************************************************************)

\* Services that come, go, answer and pass their names on.
LEMMA OthersStep ==
  ASSUME RouterInv, NEW s \in Service,
         \/ \E paths \in SUBSET Own(s) : Arrive(s, paths) \/ Reexport(s, paths)
         \/ Leave(s)
         \/ \E p \in Own(s) : Withdraw(s, p)
         \/ Answer(s) \/ AnswerTimesOut(s)
  PROVE  RouterInv'
<1> USE DEF RouterInv
<1>0. \A t \in Service : Own(t) \subseteq Path
  BY DEF Own
<1>1. UNCHANGED <<phase, pending, reg, tapSets>>
  BY DEF Arrive, Reexport, Leave, Withdraw, Answer, AnswerTimesOut, search
<1>2. FiltersInStep'
  BY <1>1 DEF FiltersInStep, tapSets
<1>3. CASE \E paths \in SUBSET Own(s) : Arrive(s, paths)
  <2>1. PICK paths \in SUBSET Own(s) : Arrive(s, paths)
    BY <1>3
  <2>2. /\ inbox' \in Seq(Message)
        /\ phase = "scanned" => Has(inbox', Msg("arrived", s))
        /\ \A m : phase = "scanned" /\ Has(inbox, m) => Has(inbox', m)
    BY <2>1, MsgType, AppendKeeps DEF Arrive, Delivered, TypeOK
  <2>3. TypeOK'
    BY <1>0, <1>1, <2>1, <2>2 DEF Arrive, TypeOK, tapSets, search
  <2>4. NoneMissed'
    BY <1>1, <2>1, <2>2 DEF Arrive, TypeOK, NoneMissed, Underway, Waiting, Has, search
  <2>5. QED
    BY <1>2, <2>3, <2>4
<1>4. CASE \E paths \in SUBSET Own(s) : Reexport(s, paths)
  BY <1>0, <1>1, <1>2, <1>4
  DEF Reexport, TypeOK, NoneMissed, Underway, Waiting, tapSets, search
<1>5. CASE Leave(s)
  <2>1. /\ inbox' \in Seq(Message)
        /\ \A m : phase = "scanned" /\ Has(inbox, m) => Has(inbox', m)
    BY <1>5, MsgType, AppendKeeps DEF Leave, Delivered, TypeOK
  <2>2. TypeOK'
    BY <1>1, <1>5, <2>1 DEF Leave, TypeOK, tapSets
  <2>3. NoneMissed'
    BY <1>1, <1>5, <2>1 DEF Leave, TypeOK, NoneMissed, Underway, Waiting, Has
  <2>4. QED
    BY <1>2, <2>2, <2>3
<1>6. CASE \E p \in Own(s) : Withdraw(s, p)
  BY <1>1, <1>2, <1>6
  DEF Withdraw, TypeOK, NoneMissed, Underway, Waiting, tapSets, search
<1>7. CASE Answer(s)
  <2>1. PICK m \in Message :
          /\ inbox' = Append(inbox, m)
          /\ exports[s] # {} => m = Msg("root", s)
    BY <1>7, MsgType DEF Answer
  <2>2. /\ inbox' \in Seq(Message)
        /\ Has(inbox', m)
        /\ \A x : Has(inbox, x) => Has(inbox', x)
    BY <2>1, AppendKeeps DEF TypeOK
  <2>3. TypeOK'
    BY <1>1, <1>7, <2>2 DEF Answer, TypeOK, tapSets, world
  <2>4. NoneMissed'
    BY <1>1, <1>7, <2>1, <2>2 DEF Answer, TypeOK, NoneMissed, Underway, Waiting, Has, world
  <2>5. QED
    BY <1>2, <2>3, <2>4
<1>8. CASE AnswerTimesOut(s)
  BY <1>1, <1>2, <1>8
  DEF AnswerTimesOut, TypeOK, NoneMissed, Underway, Waiting, tapSets, world
<1>9. QED
  BY <1>3, <1>4, <1>5, <1>6, <1>7, <1>8

\* The router starts and stops.
LEMMA ProcessLifeStep ==
  ASSUME RouterInv, Create \/ StartScan \/ Exit
  PROVE  RouterInv'
<1> USE DEF RouterInv
<1>1. CASE Create
  <2>1. /\ reg' = {} /\ filter' \in SUBSET Maker
        /\ prefixes' \in SUBSET Prefix /\ gate' \in SUBSET Address
        /\ FiltersInStep'
    BY <1>1, RegisterStep DEF Create
  <2>2. QED
    BY <1>1, <2>1 DEF Create, TypeOK, NoneMissed, world, search
<1>2. CASE StartScan
  <2>1. pending' = onBus
    BY <1>2, NameAssumption DEF StartScan, Scannable, TypeOK
  <2>2. QED
    BY <1>2, <2>1
    DEF StartScan, TypeOK, NoneMissed, Underway, FiltersInStep, world, tapSets
<1>3. CASE Exit
  BY <1>3 DEF Exit, TypeOK, NoneMissed, FiltersInStep, world
<1>4. QED
  BY <1>1, <1>2, <1>3

\* The initial scan.
LEMMA ScanStep ==
  ASSUME RouterInv, NEW s \in Service, ScanNextService(s)
  PROVE  RouterInv'
<1> USE DEF RouterInv
<1>1. TypeOK'
  BY DEF ScanNextService, Remaining, AskedAfterCheck, TypeOK, world, tapSets
<1>2. NoneMissed'
  BY DEF ScanNextService, Remaining, AskedAfterCheck, TypeOK, NoneMissed, Underway, Waiting, world
<1>3. QED
  BY <1>1, <1>2 DEF ScanNextService, FiltersInStep, tapSets

\* The answer to the introspection of the root.
LEMMA RootReplyStep ==
  ASSUME RouterInv, RootReply
  PROVE  RouterInv'
<1> USE DEF RouterInv
<1> DEFINE s == Head(inbox).of
<1>1. /\ phase = "scanned" /\ inbox # <<>> /\ Head(inbox).kind = "root"
      /\ UNCHANGED <<phase, pending>>
  BY DEF RootReply, IsNext
<1>2. /\ Head(inbox) \in Message /\ s \in Service /\ Tail(inbox) \in Seq(Message)
      /\ \A m : Has(inbox, m) /\ m # Head(inbox) => Has(Tail(inbox), m)
  BY <1>1, TailKeeps DEF TypeOK, Message
<1>3. PICK found \in SUBSET exports[s] :
        /\ Register(reg \cup found)
        /\ \/ /\ found = exports[s]
              /\ inbox' = Tail(inbox)
              /\ UNCHANGED <<world, asked, excused>>
           \/ /\ s \in onBus
              /\ inbox' = Tail(inbox)
              /\ excused' = excused \cup {s}
              /\ UNCHANGED <<world, asked>>
           \/ /\ s \in onBus
              /\ inbox' = Append(Tail(inbox), Msg("left", s))
              /\ onBus' = onBus \ {s}
              /\ exports' = [exports EXCEPT ![s] = {}]
              /\ asked' = asked \ {s}
              /\ excused' = excused \ {s}
  BY DEF RootReply
<1>4. /\ reg' = reg \cup found /\ filter' \in SUBSET Maker
      /\ prefixes' \in SUBSET Prefix /\ gate' \in SUBSET Address
      /\ FiltersInStep' /\ reg' \in SUBSET Path
  <2>1. reg \cup found \in SUBSET Path
    BY <1>2 DEF TypeOK
  <2>2. QED
    BY <1>3, <2>1, RegisterStep
<1>5. \A m : Has(Tail(inbox), m) => Has(inbox', m)
  <2>1. CASE inbox' = Tail(inbox)
    BY <2>1
  <2>2. CASE inbox' = Append(Tail(inbox), Msg("left", s))
    <3>1. Msg("left", s) \in Message
      BY <1>2, MsgType
    <3>2. \A m : Has(Tail(inbox), m) => Has(Append(Tail(inbox), Msg("left", s)), m)
      BY <1>2, <3>1, AppendKeeps
    <3>3. QED
      BY <2>2, <3>2
  <2>3. QED
    BY <1>3, <2>1, <2>2
<1>6. ASSUME NEW m, m # Head(inbox), Waiting(m) PROVE Waiting(m)'
  <2>1. Has(inbox', m)
    BY <1>2, <1>5, <1>6 DEF Waiting, Has
  <2>2. QED
    BY <2>1 DEF Waiting, Has
<1>7. ASSUME NEW t \in Service, t # s
      PROVE  /\ Waiting(Msg("arrived", t)) => Waiting(Msg("arrived", t))'
             /\ Waiting(Msg("root", t)) => Waiting(Msg("root", t))'
  <2>1. Msg("arrived", t) # Head(inbox) /\ Msg("root", t) # Head(inbox)
    BY <1>7, MsgType
  <2>2. QED
    BY <2>1, <1>6
<1>8. inbox' \in Seq(Message)
  BY <1>2, <1>3, MsgType, AppendKeeps
<1>9. TypeOK'
  <2>1. /\ onBus' \in SUBSET Service /\ exports' \in [Service -> SUBSET Path]
        /\ \A t \in Service :
             exports'[t] \subseteq Own(t) /\ (t \notin onBus' => exports'[t] = {})
        /\ asked' \in SUBSET onBus' /\ excused' \in SUBSET onBus'
    BY <1>2, <1>3 DEF TypeOK, world
  <2>2. QED
    BY <1>1, <1>4, <1>8, <2>1 DEF TypeOK
<1>10. NoneMissed'
  <2>1. SUFFICES ASSUME NEW t \in onBus' \ excused'
                 PROVE  exports'[t] \subseteq reg' \/ Underway(t)'
    BY DEF NoneMissed
  <2>2. CASE t = s
    <3>1. found = exports[s] /\ UNCHANGED <<world, asked, excused>>
      BY <1>3, <2>1, <2>2
    <3>2. QED
      BY <1>4, <2>2, <3>1 DEF world
  <2>3. CASE t # s
    <3>1. t \in onBus \ excused /\ exports'[t] = exports[t] /\ t \in Service
      BY <1>2, <1>3, <2>1, <2>3 DEF TypeOK, world
    <3>2. t \in asked => t \in asked'
      BY <1>3, <2>3
    <3>3. QED
      BY <1>1, <1>4, <1>7, <2>3, <3>1, <3>2 DEF NoneMissed, Underway
  <2>4. QED
    BY <2>2, <2>3
<1>11. QED
  BY <1>4, <1>9, <1>10

\* A message of the queue.
LEMMA DispatchStep ==
  ASSUME RouterInv, Dispatch
  PROVE  RouterInv'
<1> USE DEF RouterInv
<1>1. CASE RootReply
  BY <1>1, RootReplyStep
<1>2. CASE NameArrived \/ NameLeft \/ BareReply
  <2>1. /\ phase = "scanned" /\ inbox # <<>> /\ inbox' = Tail(inbox)
        /\ Head(inbox).kind \in {"arrived", "left", "bare"}
        /\ UNCHANGED <<world, phase, pending, excused, reg, tapSets>>
    BY <1>2 DEF NameArrived, NameLeft, BareReply, Received, IsNext, PathsNaming, search
  <2>2. /\ Head(inbox) \in Message /\ Head(inbox).of \in Service
        /\ Tail(inbox) \in Seq(Message)
        /\ \A m : Has(inbox, m) /\ m # Head(inbox) => Has(Tail(inbox), m)
    BY <2>1, TailKeeps DEF TypeOK, Message
  <2>3. /\ asked \subseteq asked' /\ asked' \subseteq onBus
        /\ Head(inbox).kind = "arrived" /\ Head(inbox).of \in onBus => Head(inbox).of \in asked'
    BY <1>2, <2>1
    DEF NameArrived, NameLeft, BareReply, Received, IsNext, Checks, AskedAfterCheck, TypeOK, search
  <2>4. TypeOK'
    BY <2>1, <2>2, <2>3 DEF TypeOK, world, tapSets
  <2>5. NoneMissed'
    <3>1. SUFFICES ASSUME NEW t \in onBus \ excused, t \in Service,
                          ~(exports[t] \subseteq reg), Underway(t)
                   PROVE  Underway(t)'
      BY <2>1 DEF NoneMissed, TypeOK, world
    <3>2. CASE t \in pending \/ t \in asked
      BY <2>1, <2>3, <3>2 DEF Underway
    <3>3. CASE Waiting(Msg("root", t))
      <4>1. Msg("root", t) # Head(inbox)
        BY <2>1, <3>1, MsgType
      <4>2. QED
        BY <2>1, <2>2, <3>3, <4>1 DEF Underway, Waiting, Has
    <3>4. CASE Waiting(Msg("arrived", t))
      <4>1. CASE Msg("arrived", t) = Head(inbox)
        <5>1. Head(inbox).kind = "arrived" /\ Head(inbox).of = t
          BY <3>1, <4>1, MsgType
        <5>2. QED
          BY <2>3, <5>1 DEF Underway
      <4>2. CASE Msg("arrived", t) # Head(inbox)
        BY <2>1, <2>2, <3>4, <4>2 DEF Underway, Waiting, Has
      <4>3. QED
        BY <4>1, <4>2
    <3>5. QED
      BY <3>1, <3>2, <3>3, <3>4 DEF Underway
  <2>6. QED
    BY <2>1, <2>4, <2>5 DEF FiltersInStep, tapSets
<1>3. QED
  BY <1>1, <1>2 DEF Dispatch

(***************************************************************************)
(* Theorems                                                                *)
(***************************************************************************)

\* Types, the search for registrations and the tap's sets stay right together,
\* whatever services come, go, answer late or not at all.
THEOREM InductiveInvariant == Spec => []RouterInv
<1>1. Init => RouterInv
  BY DEF Init, RouterInv, TypeOK, NoneMissed, FiltersInStep, Own, Message
<1>2. RouterInv /\ [Next]_vars => RouterInv'
  <2>1. SUFFICES ASSUME RouterInv, [Next]_vars PROVE RouterInv'
    OBVIOUS
  <2>2. CASE Others
    BY <2>1, <2>2, OthersStep DEF Others
  <2>3. CASE Create \/ StartScan \/ Exit
    BY <2>1, <2>3, ProcessLifeStep
  <2>4. CASE \E s \in Service : ScanNextService(s)
    BY <2>1, <2>4, ScanStep
  <2>5. CASE Dispatch
    BY <2>1, <2>5, DispatchStep
  <2>6. CASE UNCHANGED vars
    BY <2>1, <2>6
    DEF vars, world, search, tapSets, RouterInv, TypeOK, NoneMissed, Underway, Waiting, FiltersInStep
  <2>7. QED
    BY <2>1, <2>2, <2>3, <2>4, <2>5, <2>6 DEF Next
<1>3. QED
  BY <1>1, <1>2, PTL DEF Spec

\* Type correctness of the router.
THEOREM TypeCorrect == Spec => []TypeOK
BY InductiveInvariant, PTL DEF RouterInv

\* No service slips between subscription, initial scan and asynchronous answers.
THEOREM NoneMissedAlways == Spec => []NoneMissed
BY InductiveInvariant, PTL DEF RouterInv

\* The three steps of matching lose no consumer and add none, for any
\* registrations and any advertisement.
LEMMA MatchingIsExact ==
  ASSUME TypeOK, NEW a \in Advert
  PROVE  ProcessAdvertisement(a) = {p \in reg : Wants(p, a)}
<1>1. ASSUME NEW p \in reg
      PROVE  p \in EmittedTo(reg, a) <=> Wants(p, a)
  BY <1>1 DEF EmittedTo, Wants, OfKind
<1>2. EmittedTo(reg, a) = {p \in reg : Wants(p, a)}
  BY <1>1 DEF EmittedTo, OfKind
<1>3. ASSUME NEW p \in reg, Wants(p, a)
      PROVE  ShouldProcess(reg, a) /\ HasRegistration(reg, a)
  <2>1. p \in PathType
    BY <1>3, PathAssumption DEF TypeOK
  <2>2. p.kind \in MakerKinds \cup {"addr"}
    BY <1>3, <2>1 DEF Wants, PathType, MakerKinds
  <2>3. ShouldProcess(reg, a)
    BY <1>3, <2>2 DEF Wants, ShouldProcess, MakerKinds
  <2>4. CASE p.kind = "mfgr"
    BY <1>3, <2>3, <2>4 DEF Wants, HasRegistration, OfKind
  <2>5. CASE p.kind = "mfgr_product"
    <3>1. p.product \in Product
      BY <2>1, <2>5 DEF PathType
    <3>2. a.product # NoProduct /\ p.maker = a.maker /\ p.product = a.product
      BY <1>3, <2>5, <3>1, NameAssumption DEF Wants
    <3>3. QED
      BY <2>3, <2>5, <3>2 DEF HasRegistration, OfKind
  <2>6. CASE p.kind = "mfgr_product_range"
    <3>1. p.maker = a.maker /\ InRange(p, a) /\ a.product # NoProduct
      BY <1>3, <2>6 DEF Wants, InRange
    <3>2. QED
      BY <2>3, <2>6, <3>1 DEF HasRegistration, OfKind
  <2>7. CASE p.kind = "addr"
    BY <1>3, <2>3, <2>7 DEF Wants, HasRegistration, OfKind
  <2>8. QED
    BY <2>2, <2>4, <2>5, <2>6, <2>7 DEF MakerKinds
<1>4. QED
  BY <1>2, <1>3 DEF ProcessAdvertisement

\* The signal goes to exactly the paths that want the advertisement.
THEOREM EveryConsumerServedAlways == Spec => []EveryConsumerServed
<1>1. TypeOK => EveryConsumerServed
  BY MatchingIsExact DEF EveryConsumerServed
<1>2. QED
  BY <1>1, TypeCorrect, PTL

\* What is wanted by manufacturer or product passes the tap.
THEOREM MakersReachRouterAlways == Spec => []MakersReachRouter
<1>1. RouterInv => MakersReachRouter
  <2>1. SUFFICES ASSUME RouterInv, phase # "down",
                        NEW a \in Advert, NEW p \in OfKind(reg, MakerKinds), Wants(p, a)
                 PROVE  TapPasses(a)
    BY DEF MakersReachRouter
  <2>2. p.kind \in MakerKinds /\ p.maker = a.maker
    BY <2>1 DEF OfKind, MakerKinds, Wants
  <2>3. a.maker \in RegisteredMakers(reg)
    BY <2>1, <2>2 DEF RegisteredMakers
  <2>4. QED
    BY <2>1, <2>3 DEF RouterInv, FiltersInStep, Gate, TapPasses
<1>2. QED
  BY <1>1, InductiveInvariant, PTL

(***************************************************************************)
(* Sums and bits                                                           *)
(***************************************************************************)

\* Induction over the natural numbers, for a set.
LEMMA Induction ==
  ASSUME NEW S, 0 \in S, \A n \in Nat : n \in S => n + 1 \in S
  PROVE  Nat \subseteq S
<1>1. SUFFICES ASSUME Nat \ S # {} PROVE FALSE
  OBVIOUS
<1>2. IsWellFoundedOn(OpToRel(<, Nat), Nat)
  BY NatLessThanWellFounded
<1>3. PICK n \in Nat \ S : \A m \in Nat \ S : ~ (<<m, n>> \in OpToRel(<, Nat))
  BY <1>1, <1>2, WFMin
<1>4. \A m \in Nat \ S : ~ (m < n)
  BY <1>3 DEF OpToRel
<1>5. n # 0 /\ n - 1 \in Nat /\ n - 1 \in S
  BY <1>4
<1>6. QED
  BY <1>5

\* f is the running sum of the terms.
IsRunningSum(f, term, width) ==
  f = [k \in 0..width |-> IF k = 0 THEN 0 ELSE f[k - 1] + term[k]]

\* A sum that runs over a table.
LEMMA RunningSum ==
  ASSUME NEW term, NEW width \in Nat
  PROVE  \E f : IsRunningSum(f, term, width)
<1> DEFINE Sum(f, k) == IF k = 0 THEN 0 ELSE f[k - 1] + term[k]
           IsSum(f, n) == f = [k \in 0..n |-> Sum(f, k)]
           Known == {n \in Nat : \E f : IsSum(f, n)}
<1>1. 0 \in Known
  <2>1. IsSum([k \in 0..0 |-> 0], 0)
    OBVIOUS
  <2>2. QED
    BY <2>1
<1>2. ASSUME NEW n \in Nat, n \in Known PROVE n + 1 \in Known
  <2>1. PICK f : IsSum(f, n)
    BY <1>2
  <2> DEFINE g == [k \in 0..n + 1 |-> Sum(f, k)]
  <2>2. \A k \in 0..n : g[k] = f[k]
    BY <2>1
  <2>3. \A k \in 0..n + 1 : Sum(g, k) = Sum(f, k)
    <3> HIDE DEF g
    <3> QED BY <2>2
  <2>4. IsSum(g, n + 1)
    BY <2>3
  <2>5. QED
    <3> HIDE DEF g, IsSum
    <3> QED BY <2>4
<1>3. Nat \subseteq Known
  <2> HIDE DEF Known
  <2> QED BY <1>1, <1>2, Induction
<1>4. \E f : IsSum(f, width)
  <2> HIDE DEF IsSum
  <2> QED BY <1>3
<1>5. QED
  BY <1>4 DEF IsRunningSum

\* The sums of the first bits, up to FromBits.
PartialSums(low, bit, width) ==
  /\ low[0] = 0
  /\ \A k \in 1..width : low[k] = low[k - 1] + 2^(k - 1) * bit[k - 1]
  /\ FromBits(bit, width) = low[width]

\* FromBits is its sum, bit by bit.
LEMMA BitsAdd ==
  ASSUME NEW bit, NEW width \in Nat
  PROVE  \E low : PartialSums(low, bit, width)
<1> DEFINE Term(k) == 2^(k - 1) * bit[k - 1]
           term == [k \in 1..width |-> Term(k)]
           Sum(f, k) == IF k = 0 THEN 0 ELSE f[k - 1] + Term(k)
           IsSum(f) == f = [k \in 0..width |-> Sum(f, k)]
           Low == CHOOSE low : IsSum(low)
<1>1. IsSum(Low)
  <2>1. PICK f : IsRunningSum(f, term, width)
    <3> HIDE DEF term
    <3> QED BY RunningSum
  <2>2. \A k \in 1..width : term[k] = Term(k)
    <3> HIDE DEF Term
    <3> QED OBVIOUS
  <2>3. IsSum(f)
    <3> HIDE DEF term, Term
    <3> QED BY <2>1, <2>2 DEF IsRunningSum
  <2>4. QED
    <3> HIDE DEF IsSum
    <3> QED BY <2>3
<1>2. FromBits(bit, width) = Low[width]
  BY DEF FromBits
<1>3. \A k \in 0..width : Low[k] = Sum(Low, k)
  <2> HIDE DEF Low, Sum
  <2> QED BY <1>1
<1>4. QED
  <2> HIDE DEF Low
  <2> QED BY <1>2, <1>3 DEF PartialSums

\* What a bit can be.
Bits == 0..1

\* A bit is 0 or 1.
LEMMA BitOfBit == \A n \in Int, i \in Nat : BitOf(n, i) \in Bits
BY DEF BitOf, Bits

\* A byte is the weighted sum of its bits.
LEMMA Byte ==
  ASSUME NEW b \in [0..7 -> Bits]
  PROVE  FromBits(b, 8) = b[0] + 2 * b[1] + 4 * b[2] + 8 * b[3] + 16 * b[4] + 32 * b[5]
                          + 64 * b[6] + 128 * b[7]
<1>1. 2^0 = 1 /\ 2^1 = 2 /\ 2^2 = 4 /\ 2^3 = 8 /\ 2^4 = 16 /\ 2^5 = 32 /\ 2^6 = 64 /\ 2^7 = 128
  OBVIOUS
<1>2. PICK low : PartialSums(low, b, 8)
  BY BitsAdd
<1>3. \A k \in 0..7 : b[k] \in Bits
  OBVIOUS
<1>4. low[1] = b[0] /\ low[2] = low[1] + 2 * b[1] /\ low[3] = low[2] + 4 * b[2]
      /\ low[4] = low[3] + 8 * b[3] /\ low[5] = low[4] + 16 * b[4]
  BY <1>1, <1>2, <1>3 DEF Bits, PartialSums
<1>5. low[6] = low[5] + 32 * b[5] /\ low[7] = low[6] + 64 * b[6] /\ low[8] = low[7] + 128 * b[7]
  BY <1>1, <1>2, <1>3 DEF Bits, PartialSums
<1>6. QED
  BY <1>2, <1>4, <1>5 DEF PartialSums

\* Shifting by one more bit is halving once more.
LEMMA Halves ==
  \A n \in Int : /\ n \div 4 = (n \div 2) \div 2 /\ n \div 8 = (n \div 4) \div 2
               /\ n \div 16 = (n \div 8) \div 2 /\ n \div 32 = (n \div 16) \div 2
               /\ n \div 64 = (n \div 32) \div 2 /\ n \div 128 = (n \div 64) \div 2
<1>1. \A n \in Int : n \div 4 = (n \div 2) \div 2
  OBVIOUS
<1>2. \A n \in Int : n \div 8 = (n \div 4) \div 2
  OBVIOUS
<1>3. \A n \in Int : n \div 16 = (n \div 8) \div 2
  OBVIOUS
<1>4. \A n \in Int : n \div 32 = (n \div 16) \div 2
  OBVIOUS
<1>5. \A n \in Int : n \div 64 = (n \div 32) \div 2
  OBVIOUS
<1>6. \A n \in Int : n \div 128 = (n \div 64) \div 2
  OBVIOUS
<1>7. QED
  BY <1>1, <1>2, <1>3, <1>4, <1>5, <1>6

\* Taking the lowest bit off.
LEMMA LowestBit ==
  /\ \A n \in Int : n % 2 \in Bits /\ n = (n % 2) + 2 * (n \div 2) /\ n \div 2 \in Int
  /\ \A b \in Bits, m \in Int :
       b + 2 * m \in Int /\ (b + 2 * m) % 2 = b /\ (b + 2 * m) \div 2 = m
BY DEF Bits

\* Each bit of a byte is found where it was put.
LEMMA BitsOfByte ==
  ASSUME NEW b \in [0..7 -> Bits], NEW i \in 0..7
  PROVE  BitOf(FromBits(b, 8), i) = b[i]
<1> DEFINE m7 == b[7]
           m6 == b[6] + 2 * m7
           m5 == b[5] + 2 * m6
           m4 == b[4] + 2 * m5
           m3 == b[3] + 2 * m4
           m2 == b[2] + 2 * m3
           m1 == b[1] + 2 * m2
           n == b[0] + 2 * m1
<1>1. /\ b[0] \in Bits /\ b[1] \in Bits /\ b[2] \in Bits /\ b[3] \in Bits
      /\ b[4] \in Bits /\ b[5] \in Bits /\ b[6] \in Bits /\ b[7] \in Bits
  OBVIOUS
<1>2. /\ m7 \in Int /\ m6 \in Int /\ m5 \in Int /\ m4 \in Int
      /\ m3 \in Int /\ m2 \in Int /\ m1 \in Int /\ n \in Int
  BY <1>1 DEF Bits
<1>3. FromBits(b, 8) = n
  BY <1>1, Byte DEF Bits
<1>4. n % 2 = b[0] /\ n \div 2 = m1 /\ m1 % 2 = b[1] /\ m1 \div 2 = m2
      /\ m2 % 2 = b[2] /\ m2 \div 2 = m3 /\ m3 % 2 = b[3] /\ m3 \div 2 = m4
      /\ m4 % 2 = b[4] /\ m4 \div 2 = m5 /\ m5 % 2 = b[5] /\ m5 \div 2 = m6
      /\ m6 % 2 = b[6] /\ m6 \div 2 = m7
  <2> HIDE DEF m7
  <2>1. m6 % 2 = b[6] /\ m6 \div 2 = m7
    BY <1>1, <1>2, LowestBit
  <2> HIDE DEF m6
  <2>2. m5 % 2 = b[5] /\ m5 \div 2 = m6
    BY <1>1, <1>2, LowestBit
  <2> HIDE DEF m5
  <2>3. m4 % 2 = b[4] /\ m4 \div 2 = m5
    BY <1>1, <1>2, LowestBit
  <2> HIDE DEF m4
  <2>4. m3 % 2 = b[3] /\ m3 \div 2 = m4
    BY <1>1, <1>2, LowestBit
  <2> HIDE DEF m3
  <2>5. m2 % 2 = b[2] /\ m2 \div 2 = m3
    BY <1>1, <1>2, LowestBit
  <2> HIDE DEF m2
  <2>6. m1 % 2 = b[1] /\ m1 \div 2 = m2
    BY <1>1, <1>2, LowestBit
  <2> HIDE DEF m1
  <2>7. n % 2 = b[0] /\ n \div 2 = m1
    BY <1>1, <1>2, LowestBit
  <2> HIDE DEF n
  <2>8. QED
    BY <2>1, <2>2, <2>3, <2>4, <2>5, <2>6, <2>7
<1>5. m7 % 2 = b[7]
  BY <1>1 DEF Bits
<1> HIDE DEF n, m1, m2, m3, m4, m5, m6, m7
<1>6. n \div 4 = m2 /\ n \div 8 = m3 /\ n \div 16 = m4 /\ n \div 32 = m5
      /\ n \div 64 = m6 /\ n \div 128 = m7
  BY <1>2, <1>4, Halves
<1>7. 2^0 = 1 /\ 2^1 = 2 /\ 2^2 = 4 /\ 2^3 = 8 /\ 2^4 = 16 /\ 2^5 = 32 /\ 2^6 = 64 /\ 2^7 = 128
  OBVIOUS
<1>8. n \div 1 = n
  BY <1>2
<1>9. i = 0 \/ i = 1 \/ i = 2 \/ i = 3 \/ i = 4 \/ i = 5 \/ i = 6 \/ i = 7
  OBVIOUS
<1>10. BitOf(n, i) = b[i]
  <2>1. /\ BitOf(n, 0) = b[0] /\ BitOf(n, 1) = b[1] /\ BitOf(n, 2) = b[2] /\ BitOf(n, 3) = b[3]
    BY <1>4, <1>6, <1>7, <1>8 DEF BitOf
  <2>2. /\ BitOf(n, 4) = b[4] /\ BitOf(n, 5) = b[5] /\ BitOf(n, 6) = b[6] /\ BitOf(n, 7) = b[7]
    BY <1>4, <1>5, <1>6, <1>7 DEF BitOf
  <2>3. QED
    BY <1>9, <2>1, <2>2
<1>11. QED
  BY <1>3, <1>10

\* A five-bit number is made of its bits.
LEMMA FiveOfBits ==
  ASSUME NEW n \in 0..31
  PROVE  FromBits([k \in 0..4 |-> BitOf(n, k)], 5) = n
<1> DEFINE b == [k \in 0..4 |-> BitOf(n, k)]
<1>1. 2^0 = 1 /\ 2^1 = 2 /\ 2^2 = 4 /\ 2^3 = 8 /\ 2^4 = 16
  OBVIOUS
<1>2. b[0] = n % 2 /\ b[1] = (n \div 2) % 2 /\ b[2] = (n \div 4) % 2
      /\ b[3] = (n \div 8) % 2 /\ b[4] = (n \div 16) % 2
  BY <1>1 DEF BitOf
<1> HIDE DEF b
<1>3. PICK low : PartialSums(low, b, 5)
  BY BitsAdd
<1>4. low[1] = b[0] /\ low[2] = low[1] + 2 * b[1] /\ low[3] = low[2] + 4 * b[2]
      /\ low[4] = low[3] + 8 * b[3] /\ low[5] = low[4] + 16 * b[4]
  <2>1. b[0] \in Int /\ b[1] \in Int /\ b[2] \in Int /\ b[3] \in Int /\ b[4] \in Int
    BY <1>2
  <2>2. QED
    BY <1>1, <1>3, <2>1 DEF PartialSums
<1>5. n = (n % 2) + 2 * (n \div 2) /\ n \div 2 = b[1] + 2 * (n \div 4)
      /\ n \div 4 = b[2] + 2 * (n \div 8) /\ n \div 8 = b[3] + 2 * (n \div 16)
      /\ n \div 16 = b[4]
  <2>1. n \div 16 \in 0..1
    OBVIOUS
  <2>2. \A m \in Int : m = (m % 2) + 2 * (m \div 2)
    BY LowestBit
  <2>3. n = (n % 2) + 2 * (n \div 2)
    BY <2>2
  <2>4. n \div 2 = b[1] + 2 * (n \div 4) /\ n \div 4 = b[2] + 2 * (n \div 8)
    BY <1>2, <2>2, Halves
  <2>5. n \div 8 = b[3] + 2 * (n \div 16) /\ n \div 16 = b[4]
    BY <1>2, <2>1, <2>2, Halves
  <2>6. QED
    BY <2>3, <2>4, <2>5
<1>6. FromBits(b, 5) = low[5]
  BY <1>3 DEF PartialSums
<1>7. low[5] = n
  BY <1>2, <1>4, <1>5
<1>8. QED
  BY <1>6, <1>7 DEF b

\* The tables a Mopeka Standard can hear.
EchoTable == [1..12 -> (1..32) \X (0..31)]

\* A field fits its five bits.
LEMMA FieldFits ==
  ASSUME NEW table \in EchoTable, NEW i \in 0..23
  PROVE  FieldOf(table, i) \in 0..31
<1>1. i \div 2 + 1 \in 1..12
  OBVIOUS
<1>2. table[i \div 2 + 1] \in (1..32) \X (0..31)
  BY <1>1 DEF EchoTable
<1>3. QED
  BY <1>2 DEF FieldOf

(***************************************************************************)
(* The table of a Mopeka Standard                                          *)
(***************************************************************************)

\* The bits that Packed writes come back from DataBit.
LEMMA BitsComeBack ==
  ASSUME NEW table \in EchoTable, NEW data,
         \A j \in 0..14 : data[5 + j] = Packed(table)[j + 1],
         NEW n \in 0..119
  PROVE  DataBit(data, n) = TableBit(table, n)
<1> DEFINE j == n \div 8
           i == n % 8
           b == [k \in 0..7 |-> TableBit(table, 8 * j + k)]
<1>1. j \in 0..14 /\ i \in 0..7 /\ n = 8 * j + i
  OBVIOUS
<1>2. b \in [0..7 -> Bits]
  <2>1. SUFFICES ASSUME NEW k \in 0..7 PROVE TableBit(table, 8 * j + k) \in Bits
    OBVIOUS
  <2>2. (8 * j + k) \div 5 \in 0..23 /\ (8 * j + k) % 5 \in Nat
    BY <1>1
  <2>3. FieldOf(table, (8 * j + k) \div 5) \in Int
    BY <2>2, FieldFits
  <2>4. QED
    BY <2>2, <2>3, BitOfBit DEF TableBit
<1>3. Packed(table)[j + 1] = FromBits(b, 8)
  <2>1. 8 * ((j + 1) - 1) = 8 * j /\ j + 1 \in 1..15
    BY <1>1
  <2>2. QED
    BY <2>1 DEF Packed
<1>4. data[4 + j + 1] = FromBits(b, 8)
  <2>1. 5 + j = 4 + j + 1
    BY <1>1
  <2>2. QED
    BY <1>1, <1>3, <2>1
<1>5. BitOf(FromBits(b, 8), i) = b[i]
  <2> HIDE DEF b, i
  <2> QED BY <1>1, <1>2, BitsOfByte
<1>6. DataBit(data, n) = BitOf(FromBits(b, 8), i)
  BY <1>4 DEF DataBit
<1>7. b[i] = TableBit(table, n)
  BY <1>1
<1>8. QED
  BY <1>5, <1>6, <1>7

\* The fields a Mopeka Standard packs are those its driver unpacks.
LEMMA FieldsComeBack ==
  ASSUME NEW table \in EchoTable, NEW data,
         \A j \in 0..14 : data[5 + j] = Packed(table)[j + 1]
  PROVE  \A i \in 1..24 : Fives(data)[i] = FieldOf(table, i - 1)
<1>1. SUFFICES ASSUME NEW i \in 1..24
               PROVE  Fives(data)[i] = FieldOf(table, i - 1)
  OBVIOUS
<1> DEFINE f == FieldOf(table, i - 1)
<1>2. f \in 0..31
  BY FieldFits
<1>3. \A k \in 0..4 : DataBit(data, 5 * (i - 1) + k) = BitOf(f, k)
  <2>1. SUFFICES ASSUME NEW k \in 0..4
                 PROVE  DataBit(data, 5 * (i - 1) + k) = BitOf(f, k)
    OBVIOUS
  <2> DEFINE n == 5 * (i - 1) + k
  <2>2. n \in 0..119 /\ n \div 5 = i - 1 /\ n % 5 = k
    OBVIOUS
  <2>3. DataBit(data, n) = TableBit(table, n)
    BY <2>2, BitsComeBack
  <2>4. QED
    BY <2>2, <2>3 DEF TableBit
<1>4. Fives(data)[i] = FromBits([k \in 0..4 |-> DataBit(data, 5 * (i - 1) + k)], 5)
  BY DEF Fives
<1>5. [k \in 0..4 |-> DataBit(data, 5 * (i - 1) + k)] = [k \in 0..4 |-> BitOf(f, k)]
  BY <1>3
<1>6. QED
  BY <1>2, <1>4, <1>5, FiveOfBits

\* Pair by pair.
LEMMA PairsComeBack ==
  ASSUME NEW table \in EchoTable, NEW data,
         \A j \in 0..14 : data[5 + j] = Packed(table)[j + 1],
         NEW i \in 1..12
  PROVE  /\ Fives(data)[2 * i - 1] + 1 = table[i][1]
         /\ Fives(data)[2 * i] = table[i][2]
<1>1. table[i] \in (1..32) \X (0..31)
  BY DEF EchoTable
<1>2. /\ (2 * i - 1) - 1 = 2 * (i - 1) /\ (2 * (i - 1)) % 2 = 0 /\ (2 * (i - 1)) \div 2 + 1 = i
      /\ (2 * i - 1) % 2 = 1 /\ (2 * i - 1) \div 2 + 1 = i
      /\ 2 * i - 1 \in 1..24 /\ 2 * i \in 1..24
  OBVIOUS
<1>3. Fives(data)[2 * i - 1] = FieldOf(table, 2 * (i - 1))
  BY <1>2, FieldsComeBack
<1>4. Fives(data)[2 * i] = FieldOf(table, 2 * i - 1)
  BY <1>2, FieldsComeBack
<1>5. QED
  BY <1>1, <1>2, <1>3, <1>4 DEF FieldOf

(***************************************************************************)
(* The walk over the table                                                 *)
(***************************************************************************)

\* The driver's walk over the pairs, up to FindBestTime.
Walk(walk, fives) ==
  /\ walk[0] = Start
  /\ \A i \in 1..12 :
       walk[i] = Taken(walk[i - 1], fives[2 * i - 1] + 1, fives[2 * i],
                       fives[2 * i] > walk[i - 1].value)
  /\ FindBestTime(fives) = walk[12]

\* There is such a walk: FindBestTime picks it.
LEMMA WalkExists ==
  ASSUME NEW fives
  PROVE  \E walk : Walk(walk, fives)
<1> DEFINE More(acc, i) == Taken(acc, fives[2 * i - 1] + 1, fives[2 * i], fives[2 * i] > acc.value)
           Pair(f, i) == IF i = 0 THEN Start ELSE More(f[i - 1], i)
           IsWalk(f, n) == f = [i \in 0..n |-> Pair(f, i)]
           Known == {n \in Nat : \E f : IsWalk(f, n)}
           w == CHOOSE walk : IsWalk(walk, 12)
<1>1. 0 \in Known
  <2>1. IsWalk([k \in 0..0 |-> Start], 0)
    OBVIOUS
  <2>2. QED
    BY <2>1
<1>2. ASSUME NEW n \in Nat, n \in Known PROVE n + 1 \in Known
  <2>1. PICK f : IsWalk(f, n)
    BY <1>2
  <2> DEFINE g == [i \in 0..n + 1 |-> Pair(f, i)]
  <2> HIDE DEF More
  <2>2. \A i \in 0..n : g[i] = f[i]
    BY <2>1
  <2>3. \A i \in 0..n + 1 : Pair(g, i) = Pair(f, i)
    <3> HIDE DEF g
    <3> QED BY <2>2
  <2>4. IsWalk(g, n + 1)
    BY <2>3
  <2>5. QED
    <3> HIDE DEF g, IsWalk
    <3> QED BY <2>4
<1>3. IsWalk(w, 12)
  <2>1. Nat \subseteq Known
    <3> HIDE DEF Known
    <3> QED BY <1>1, <1>2, Induction
  <2>2. \E f : IsWalk(f, 12)
    <3> HIDE DEF IsWalk
    <3> QED BY <2>1
  <2>3. QED
    <3> HIDE DEF IsWalk
    <3> QED BY <2>2
<1>4. FindBestTime(fives) = w[12]
  BY DEF FindBestTime
<1>5. \A i \in 0..12 : w[i] = Pair(w, i)
  <2> HIDE DEF w, Pair
  <2> QED BY <1>3
<1>6. QED
  <2> HIDE DEF w
  <2> QED BY <1>4, <1>5 DEF Walk

\* sum[i] is the time of the first i pairs.
Elapsed(sum, table) ==
  sum[0] = 0 /\ \A i \in 1..12 : sum[i] \in Nat /\ sum[i] = sum[i - 1] + table[i][1]

\* There are such sums: TotalTime picks them.
LEMMA ElapsedExists ==
  ASSUME NEW table \in EchoTable
  PROVE  \E sum : Elapsed(sum, table)
<1> DEFINE term == [i \in 1..12 |-> table[i][1]]
<1>1. \A i \in 1..12 : table[i][1] \in 1..32
  BY DEF EchoTable
<1>2. PICK f : IsRunningSum(f, term, 12)
  <2> HIDE DEF term
  <2> QED BY RunningSum
<1>3. f[0] = 0 /\ \A i \in 1..12 : f[i] = f[i - 1] + table[i][1]
  <2>1. \A i \in 1..12 : term[i] = table[i][1]
    OBVIOUS
  <2>2. \A i \in 0..12 : f[i] = IF i = 0 THEN 0 ELSE f[i - 1] + term[i]
    <3> HIDE DEF term
    <3> QED BY <1>2 DEF IsRunningSum
  <2>3. QED
    <3> HIDE DEF term
    <3> QED BY <2>1, <2>2
<1>4. \A i \in 0..12 : f[i] \in Nat
  <2> DEFINE Good == {i \in Nat : i <= 12 => f[i] \in Nat}
  <2>1. 0 \in Good
    BY <1>3
  <2>2. ASSUME NEW i \in Nat, i \in Good PROVE i + 1 \in Good
    <3>1. CASE i + 1 <= 12
      <4>1. i + 1 \in 1..12 /\ i = (i + 1) - 1 /\ f[i] \in Nat
        BY <2>2, <3>1
      <4>2. f[i + 1] = f[i] + table[i + 1][1]
        BY <1>3, <4>1
      <4>3. QED
        BY <1>1, <4>1, <4>2
    <3>2. QED
      BY <3>1
  <2>3. Nat \subseteq Good
    <3> HIDE DEF Good
    <3> QED BY <2>1, <2>2, Induction
  <2>4. QED
    BY <2>3
<1>5. QED
  BY <1>3, <1>4 DEF Elapsed

\* The pairs among the first i that heard something.
Echoes(table, i) == {j \in 1..i : table[j][2] # 0}

\* l is the last echo of the first i pairs, 0 if they have none.
LastEcho(table, l, i) ==
  /\ l \in 0..i
  /\ l # 0 => table[l][2] # 0
  /\ \A j \in l + 1..i : table[j][2] = 0

\* b is the first of the strongest echoes of the first i pairs.
Strongest(table, b, i) ==
  /\ b \in Echoes(table, i)
  /\ \A j \in 1..i : table[j][2] < table[b][2] \/ (table[j][2] = table[b][2] /\ b <= j)

\* What the walk knows after i pairs.
WalkInv(acc, table, sum, i) ==
  /\ acc \in [gap : Nat, usable : Nat, time : Nat, value : 0..31]
  /\ acc.usable = Cardinality(Echoes(table, i))
  /\ \E l \in 0..i : LastEcho(table, l, i) /\ acc.gap = sum[i] - sum[l]
  /\ \/ Echoes(table, i) = {} /\ acc.value = 0
     \/ \E b \in 1..i : \E l \in 0..b - 1 :
          /\ Strongest(table, b, i) /\ acc.value = table[b][2]
          /\ LastEcho(table, l, b - 1) /\ acc.time = sum[b] - sum[l]

\* One pair more is one echo more, or none.
LEMMA EchoesMore ==
  ASSUME NEW table \in EchoTable, NEW i \in 1..12
  PROVE  /\ IsFiniteSet(Echoes(table, i))
         /\ Echoes(table, i) = IF table[i][2] = 0 THEN Echoes(table, i - 1)
                               ELSE Echoes(table, i - 1) \cup {i}
         /\ Cardinality(Echoes(table, i)) =
              Cardinality(Echoes(table, i - 1)) + IF table[i][2] = 0 THEN 0 ELSE 1
         /\ Cardinality(Echoes(table, i)) \in Nat
<1>1. Echoes(table, i) = IF table[i][2] = 0 THEN Echoes(table, i - 1)
                         ELSE Echoes(table, i - 1) \cup {i}
  BY DEF Echoes
<1>2. IsFiniteSet(1..(i - 1))
  BY FS_Interval
<1>3. IsFiniteSet(Echoes(table, i - 1)) /\ i \notin Echoes(table, i - 1)
  BY <1>2, FS_Subset DEF Echoes
<1>4. Cardinality(Echoes(table, i - 1)) \in Nat
  BY <1>3, FS_CardinalityType
<1>5. /\ IsFiniteSet(Echoes(table, i - 1) \cup {i})
      /\ Cardinality(Echoes(table, i - 1) \cup {i}) = Cardinality(Echoes(table, i - 1)) + 1
  BY <1>3, FS_AddElement
<1>6. QED
  BY <1>1, <1>3, <1>4, <1>5

\* One pair more.
LEMMA WalkStep ==
  ASSUME NEW table \in EchoTable, NEW sum, Elapsed(sum, table), NEW i \in 1..12,
         NEW acc, WalkInv(acc, table, sum, i - 1)
  PROVE  WalkInv(Taken(acc, table[i][1], table[i][2], table[i][2] > acc.value), table, sum, i)
<1> DEFINE t == table[i][1]
           v == table[i][2]
           next == Taken(acc, t, v, v > acc.value)
<1>1. t \in 1..32 /\ v \in 0..31 /\ \A j \in 1..12 : table[j][2] \in 0..31
  BY DEF EchoTable
<1>2. \A j \in 0..12 : sum[j] \in Nat
  BY DEF Elapsed
<1>3. sum[i] = sum[i - 1] + t
  BY DEF Elapsed
<1>4. acc \in [gap : Nat, usable : Nat, time : Nat, value : 0..31]
  BY DEF WalkInv
<1>5. PICK l \in 0..i - 1 : LastEcho(table, l, i - 1) /\ acc.gap = sum[i - 1] - sum[l]
  BY DEF WalkInv
<1> HIDE DEF t, v
<1>6. acc.gap + t = sum[i] - sum[l]
  BY <1>1, <1>2, <1>3, <1>5
<1>7. next = [gap |-> IF v = 0 THEN acc.gap + t ELSE 0,
              usable |-> acc.usable + (IF v = 0 THEN 0 ELSE 1),
              time |-> IF v > acc.value THEN acc.gap + t ELSE acc.time,
              value |-> IF v > acc.value THEN v ELSE acc.value]
  BY DEF Taken
<1>8. next \in [gap : Nat, usable : Nat, time : Nat, value : 0..31]
  BY <1>1, <1>4, <1>7
<1> HIDE DEF next
<1>9. next.usable = Cardinality(Echoes(table, i))
  <2>1. acc.usable = Cardinality(Echoes(table, i - 1))
    BY DEF WalkInv
  <2>2. QED
    BY <1>7, <2>1, EchoesMore DEF v
<1>10. \E m \in 0..i : LastEcho(table, m, i) /\ next.gap = sum[i] - sum[m]
  <2>1. CASE v = 0
    <3>1. LastEcho(table, l, i)
      BY <1>5, <2>1 DEF LastEcho, v
    <3>2. next.gap = sum[i] - sum[l]
      BY <1>6, <1>7, <2>1
    <3>3. QED
      BY <3>1, <3>2
  <2>2. CASE v # 0
    <3>1. LastEcho(table, i, i)
      BY <2>2 DEF LastEcho, v
    <3>2. next.gap = sum[i] - sum[i]
      BY <1>2, <1>7, <2>2
    <3>3. QED
      BY <3>1, <3>2
  <2>3. QED
    BY <2>1, <2>2
<1>11. \/ Echoes(table, i) = {} /\ next.value = 0
       \/ \E b \in 1..i : \E m \in 0..b - 1 :
            /\ Strongest(table, b, i) /\ next.value = table[b][2]
            /\ LastEcho(table, m, b - 1) /\ next.time = sum[b] - sum[m]
  <2>1. CASE v > acc.value
    <3>1. \A j \in 1..i - 1 : table[j][2] <= acc.value
      <4>1. CASE Echoes(table, i - 1) = {}
        BY <1>1, <1>4, <4>1 DEF Echoes
      <4>2. CASE \E b \in 1..i - 1 : Strongest(table, b, i - 1) /\ acc.value = table[b][2]
        BY <1>1, <4>2 DEF Strongest
      <4>3. QED
        BY <4>1, <4>2 DEF WalkInv
    <3>2. Strongest(table, i, i)
      <4>1. i \in Echoes(table, i)
        BY <1>1, <1>4, <2>1 DEF Echoes, v
      <4>2. ASSUME NEW j \in 1..i
            PROVE  table[j][2] < table[i][2] \/ (table[j][2] = table[i][2] /\ i <= j)
        <5>1. CASE j = i
          BY <5>1
        <5>2. CASE j \in 1..i - 1
          <6>1. table[j][2] <= acc.value /\ acc.value < table[i][2]
            BY <2>1, <3>1, <5>2 DEF v
          <6>2. table[j][2] \in Int /\ acc.value \in Int /\ table[i][2] \in Int
            BY <1>1, <1>4, <5>2
          <6>3. QED
            BY <6>1, <6>2
        <5>3. QED
          BY <5>1, <5>2
      <4>3. QED
        BY <4>1, <4>2 DEF Strongest
    <3>3. next.value = table[i][2] /\ next.time = sum[i] - sum[l]
      BY <1>6, <1>7, <2>1 DEF v
    <3>4. i \in 1..i /\ l \in 0..i - 1
      BY <1>5
    <3>5. QED
      BY <1>5, <3>2, <3>3, <3>4
  <2>2. CASE ~(v > acc.value)
    <3>1. next.value = acc.value /\ next.time = acc.time
      BY <1>7, <2>2
    <3>2. CASE Echoes(table, i - 1) = {} /\ acc.value = 0
      <4>1. v = 0
        BY <1>1, <2>2, <3>2
      <4>2. Echoes(table, i) = {}
        BY <3>2, <4>1, EchoesMore DEF v
      <4>3. QED
        BY <3>1, <3>2, <4>2
    <3>3. CASE \E b \in 1..i - 1 : \E m \in 0..b - 1 :
                 /\ Strongest(table, b, i - 1) /\ acc.value = table[b][2]
                 /\ LastEcho(table, m, b - 1) /\ acc.time = sum[b] - sum[m]
      <4>1. PICK b \in 1..i - 1 : \E m \in 0..b - 1 :
                 /\ Strongest(table, b, i - 1) /\ acc.value = table[b][2]
                 /\ LastEcho(table, m, b - 1) /\ acc.time = sum[b] - sum[m]
        BY <3>3
      <4>2. Strongest(table, b, i)
        BY <1>1, <2>2, <4>1 DEF Strongest, Echoes, v
      <4>3. b \in 1..i
        OBVIOUS
      <4>4. QED
        BY <3>1, <4>1, <4>2, <4>3
    <3>4. QED
      BY <3>2, <3>3 DEF WalkInv
  <2>3. QED
    BY <2>1, <2>2
<1>12. QED
  BY <1>8, <1>9, <1>10, <1>11 DEF WalkInv, next, t, v

\* What the driver knows of the frame of a table.
LEMMA WalkOverTable ==
  ASSUME NEW table \in EchoTable, NEW sum, Elapsed(sum, table), NEW fives,
         \A i \in 1..12 : fives[2 * i - 1] + 1 = table[i][1] /\ fives[2 * i] = table[i][2]
  PROVE  WalkInv(FindBestTime(fives), table, sum, 12)
<1>1. PICK walk : Walk(walk, fives)
  BY WalkExists
<1> DEFINE Right == {i \in Nat : i <= 12 => WalkInv(walk[i], table, sum, i)}
<1>2. 0 \in Right
  <2>1. walk[0] = [gap |-> 0, usable |-> 0, time |-> 0, value |-> 0]
    BY <1>1 DEF Walk, Start
  <2>2. Echoes(table, 0) = {} /\ Cardinality(Echoes(table, 0)) = 0
    <3>1. Echoes(table, 0) = {}
      BY DEF Echoes
    <3>2. QED
      BY <3>1, FS_EmptySet
  <2>3. LastEcho(table, 0, 0) /\ sum[0] = 0
    BY DEF LastEcho, Elapsed
  <2>4. WalkInv(walk[0], table, sum, 0)
    BY <2>1, <2>2, <2>3 DEF WalkInv
  <2>5. QED
    BY <2>4
<1>3. ASSUME NEW i \in Nat, i \in Right PROVE i + 1 \in Right
  <2>1. CASE i + 1 <= 12
    <3> DEFINE n == i + 1
    <3>1. n \in 1..12 /\ n - 1 = i /\ WalkInv(walk[n - 1], table, sum, n - 1)
      BY <1>3, <2>1
    <3>2. walk[n] = Taken(walk[n - 1], table[n][1], table[n][2], table[n][2] > walk[n - 1].value)
      BY <1>1, <3>1 DEF Walk
    <3>3. WalkInv(walk[n], table, sum, n)
      <4> HIDE DEF n
      <4> QED BY <3>1, <3>2, WalkStep
    <3>4. QED
      BY <3>3
  <2>2. QED
    BY <2>1
<1>4. Nat \subseteq Right
  <2> HIDE DEF Right
  <2> QED BY <1>2, <1>3, Induction
<1>5. WalkInv(walk[12], table, sum, 12)
  BY <1>4
<1>6. QED
  BY <1>1, <1>5 DEF Walk

\* The time of the pairs from one echo to the next.
LEMMA TotalOfInterval ==
  ASSUME NEW table \in EchoTable, NEW sum, Elapsed(sum, table),
         NEW b \in 1..12, NEW l \in 0..b - 1
  PROVE  TotalTime(table, l + 1..b) = sum[b] - sum[l]
<1> DEFINE Term(i) == IF i \in l + 1..b THEN table[i][1] ELSE 0
           term == [i \in 1..12 |-> Term(i)]
           Sum(f, i) == IF i = 0 THEN 0 ELSE f[i - 1] + Term(i)
           IsSum(f) == f = [i \in 0..12 |-> Sum(f, i)]
           up == CHOOSE upTo : IsSum(upTo)
<1>1. IsSum(up)
  <2>1. PICK f : IsRunningSum(f, term, 12)
    <3> HIDE DEF term
    <3> QED BY RunningSum
  <2>2. \A i \in 1..12 : term[i] = Term(i)
    <3> HIDE DEF Term
    <3> QED OBVIOUS
  <2>3. IsSum(f)
    <3> HIDE DEF term, Term
    <3> QED BY <2>1, <2>2 DEF IsRunningSum
  <2>4. QED
    <3> HIDE DEF IsSum
    <3> QED BY <2>3
<1>2. TotalTime(table, l + 1..b) = up[12]
  BY DEF TotalTime
<1>3. up[0] = 0 /\ \A i \in 1..12 : up[i] = up[i - 1] + Term(i)
  <2> HIDE DEF up, Term
  <2> QED BY <1>1
<1> HIDE DEF up
<1>4. /\ sum[0] = 0
      /\ \A i \in 0..12 : sum[i] \in Nat
      /\ \A i \in 1..12 : sum[i] = sum[i - 1] + table[i][1] /\ table[i][1] \in Nat
  BY DEF Elapsed, EchoTable
<1> DEFINE Part(i) == IF i <= l THEN 0 ELSE IF i <= b THEN sum[i] - sum[l] ELSE sum[b] - sum[l]
           Right == {i \in Nat : i <= 12 => up[i] = Part(i)}
<1>5. 0 \in Right
  BY <1>3
<1>6. ASSUME NEW i \in Nat, i \in Right PROVE i + 1 \in Right
  <2>1. CASE i + 1 <= 12
    <3>1. i + 1 \in 1..12 /\ (i + 1) - 1 = i /\ up[i] = Part(i)
      BY <1>6, <2>1
    <3>2. up[i + 1] = up[i] + Term(i + 1)
      BY <1>3, <3>1
    <3>3. sum[i + 1] = sum[i] + table[i + 1][1]
      BY <1>4, <3>1
    <3>4. /\ sum[i] \in Nat /\ sum[i + 1] \in Nat /\ sum[l] \in Nat /\ sum[b] \in Nat
          /\ table[i + 1][1] \in Nat
      <4>1. i \in 0..12 /\ i + 1 \in 0..12 /\ l \in 0..12 /\ b \in 0..12
        BY <3>1
      <4>2. QED
        BY <1>4, <3>1, <4>1
    <3>5. up[i + 1] = Part(i + 1)
      <4>1. CASE i + 1 <= l
        BY <3>1, <3>2, <4>1
      <4>2. CASE i + 1 = l + 1
        <5>1. i = l
          BY <4>2
        <5>2. QED
          BY <3>1, <3>2, <3>3, <3>4, <5>1
      <4>3. CASE i + 1 > l + 1 /\ i + 1 <= b
        BY <3>1, <3>2, <3>3, <3>4, <4>3
      <4>4. CASE i + 1 = b + 1
        <5>1. i = b /\ i > l
          BY <4>4
        <5>2. QED
          BY <3>1, <3>2, <3>4, <5>1
      <4>5. CASE i + 1 > b + 1
        BY <3>1, <3>2, <3>4, <4>5
      <4>6. QED
        BY <4>1, <4>2, <4>3, <4>4, <4>5
    <3>6. QED
      BY <3>5
  <2>2. QED
    BY <2>1
<1>7. Nat \subseteq Right
  <2> HIDE DEF Right
  <2> QED BY <1>5, <1>6, Induction
<1>8. up[12] = Part(12)
  BY <1>7
<1>9. CASE b = 12
  BY <1>2, <1>8, <1>9
<1>10. CASE b < 12
  BY <1>2, <1>8, <1>10
<1>11. QED
  BY <1>9, <1>10

(***************************************************************************)
(* What is decoded                                                         *)
(***************************************************************************)

\* A table is the function it is made of.
LEMMA TableIs == \A f : Table(f) = f
BY DEF Table

\* What is read of a unit is what is parsed of its frame.
LEMMA DecodedIs ==
  ASSUME NEW m \in DOMAIN Unit \ SeeLevel, NEW u \in Unit[m], NEW role \in RolesOf(m)
  PROVE  Decoded[m][u][role] = Parsed(m, role, FrameOf(m, u))
<1> DEFINE ofUnit(n, w) == [r \in RolesOf(n) |-> Parsed(n, r, FrameOf(n, w))]
           ofModel(n) == [w \in Unit[n] |-> Table(ofUnit(n, w))]
           all == [n \in DOMAIN Unit \ SeeLevel |-> Table(ofModel(n))]
<1>1. Table(ofUnit(m, u))[role] = Parsed(m, role, FrameOf(m, u))
  BY TableIs
<1>2. Table(ofModel(m))[u] = Table(ofUnit(m, u))
  <2> HIDE DEF ofUnit
  <2> QED BY TableIs
<1>3. Table(all)[m] = Table(ofModel(m))
  <2> HIDE DEF ofModel
  <2> QED BY TableIs
<1>4. Decoded = Table(all)
  BY DEF Decoded
<1>5. QED
  BY <1>1, <1>2, <1>3, <1>4

\* The unit is one of those the model is used for.
UnitType == model \in DOMAIN Unit /\ unit \in Unit[model]

\* A unit is replaced by one of its kind, or kept.
LEMMA UnitTypeAlways == FrameSpec => []UnitType
<1>1. FrameInit => UnitType
  BY DEF FrameInit, UnitType
<1>2. UnitType /\ [FrameNext]_frameVars => UnitType'
  <2>1. SUFFICES ASSUME UnitType, [FrameNext]_frameVars PROVE UnitType'
    OBVIOUS
  <2>2. CASE UnitChanges
    BY <2>1, <2>2 DEF UnitChanges, UnitType
  <2>3. CASE UNCHANGED <<model, unit>>
    BY <2>1, <2>3 DEF UnitType
  <2>4. QED
    BY <2>1, <2>2, <2>3
    DEF FrameNext, frameVars, Hear, HearBtp7, HearBtp3, HearSeeLevel, HeartbeatDue, OffsetChanges,
        InputSettingsChange, Toggle, Restart
<1>3. QED
  BY <1>1, <1>2, PTL DEF FrameSpec

(***************************************************************************)
(* Pieces of a frame                                                       *)
(***************************************************************************)

\* Where the parts of a frame lie in it.
Join(s1, s2) == s1 \o s2
Piece(s, n, S) == s \in Seq(S) /\ Len(s) = n

\* The pieces joined are a piece.
LEMMA JoinPart ==
  ASSUME NEW S, NEW s1, NEW s2, NEW m, NEW n, Piece(s1, m, S), Piece(s2, n, S)
  PROVE  Piece(Join(s1, s2), m + n, S)
<1>1. s1 \in Seq(S) /\ s2 \in Seq(S) /\ Len(s1) = m /\ Len(s2) = n
  BY DEF Piece
<1>2. Join(s1, s2) \in Seq(S) /\ Len(Join(s1, s2)) = Len(s1) + Len(s2)
  BY <1>1, ConcatProperties, Zenon DEF Join
<1>3. QED
  BY <1>1, <1>2, Zenon DEF Piece

\* Each place of the whole is one of the first piece or of the second.
LEMMA JoinAt ==
  ASSUME NEW S, NEW s1, NEW s2, NEW m, NEW n, Piece(s1, m, S), Piece(s2, n, S), NEW i \in 1..m + n
  PROVE  Join(s1, s2)[i] = IF i <= m THEN s1[i] ELSE s2[i - m]
<1>1. ASSUME NEW a \in Seq(S), NEW b \in Seq(S), NEW k \in 1..Len(a) + Len(b)
      PROVE  Join(a, b)[k] = IF k <= Len(a) THEN a[k] ELSE b[k - Len(a)]
  BY ConcatProperties DEF Join
<1>2. s1 \in Seq(S) /\ s2 \in Seq(S) /\ Len(s1) = m /\ Len(s2) = n
  BY DEF Piece
<1>3. i \in 1..Len(s1) + Len(s2)
  BY <1>2
<1>4. Join(s1, s2)[i] = IF i <= Len(s1) THEN s1[i] ELSE s2[i - Len(s1)]
  BY <1>1, <1>2, <1>3, Zenon
<1>5. QED
  BY <1>2, <1>4, Zenon

\* The 15 bytes between two pieces of four.
LEMMA MiddleAt ==
  ASSUME NEW S, NEW s1, NEW s2, NEW s3, Piece(s1, 4, S), Piece(s2, 15, S), Piece(s3, 4, S),
         NEW j \in 0..14
  PROVE  Join(Join(s1, s2), s3)[5 + j] = s2[j + 1]
<1>0. /\ 5 + j \in 1..4 + 15 /\ 5 + j \in 1..19 + 4 /\ 5 + j <= 19 /\ ~(5 + j <= 4)
      /\ (5 + j) - 4 = j + 1 /\ 4 + 15 = 19
  OBVIOUS
<1>1. Piece(Join(s1, s2), 19, S)
  BY <1>0, JoinPart
<1>2. Join(s1, s2)[5 + j] = s2[(5 + j) - 4]
  BY <1>0, JoinAt
<1>3. Join(Join(s1, s2), s3)[5 + j] = Join(s1, s2)[5 + j]
  BY <1>0, <1>1, JoinAt
<1>6. QED
  BY <1>0, <1>2, <1>3

\* Where the table lies in a Mopeka Standard's frame.
LEMMA TableInFrame ==
  ASSUME NEW u \in StdUnit
  PROVE  /\ u.table \in EchoTable
         /\ \A j \in 0..14 : MopekaStdFrame(u)[5 + j] = Packed(u.table)[j + 1]
<1> DEFINE p == Packed(u.table)
           T == {0, 2, u.batt, 128 + u.temp} \cup {p[j] : j \in 1..15}
<1>1. Piece(p, 15, T)
  <2>1. p = [j \in 1..15 |-> p[j]]
    BY DEF Packed
  <2>2. \A j \in 1..15 : p[j] \in T
    OBVIOUS
  <2> HIDE DEF p, T
  <2>3. [j \in 1..15 |-> p[j]] \in Seq(T) /\ Len([j \in 1..15 |-> p[j]]) = 15
    BY <2>2
  <2>4. p \in Seq(T) /\ Len(p) = 15
    BY <2>1, <2>3
  <2>5. QED
    BY <2>4 DEF Piece
<1>2. Piece(<<0, 2, u.batt, 128 + u.temp>>, 4, T)
  <2> DEFINE h == <<0, 2, u.batt, 128 + u.temp>>
  <2>1. {0, 2, u.batt, 128 + u.temp} \subseteq T
    BY DEF T
  <2> HIDE DEF T
  <2>2. h \in Seq(T) /\ Len(h) = 4
    BY <2>1
  <2>3. QED
    BY <2>2 DEF Piece
<1>3. Piece(Zeros(4), 4, T)
  <2>1. 0 \in T
    BY DEF T
  <2> HIDE DEF T
  <2>2. Zeros(4) \in Seq(T) /\ Len(Zeros(4)) = 4
    BY <2>1 DEF Zeros
  <2>3. QED
    BY <2>2 DEF Piece
<1>4. u.table \in EchoTable
  BY DEF StdUnit, EchoTable
<1> HIDE DEF p, T
<1>5. \A j \in 0..14 : (<<0, 2, u.batt, 128 + u.temp>> \o p \o Zeros(4))[5 + j] = p[j + 1]
  <2> DEFINE h == <<0, 2, u.batt, 128 + u.temp>>
             z == Zeros(4)
  <2>1. Piece(h, 4, T) /\ Piece(z, 4, T)
    BY <1>2, <1>3
  <2> HIDE DEF h, z
  <2>2. ASSUME NEW j \in 0..14 PROVE Join(Join(h, p), z)[5 + j] = p[j + 1]
    BY <1>1, <2>1, MiddleAt
  <2>3. QED
    BY <2>2 DEF h, z, Join
<1>6. QED
  BY <1>4, <1>5 DEF MopekaStdFrame, p

\* A Mopeka Standard has a tank service.
LEMMA StdTank == "tank" \in RolesOf("mopeka_std")
<1>1. Reg("BatteryRaw", 2, 8, Tank) \in RegsOf("mopeka_std")
  BY DEF RegsOf, MopekaStdRegs
<1>2. "tank" \in Reg("BatteryRaw", 2, 8, Tank).roles
  BY DEF Reg, Tank
<1>3. RolesOf("mopeka_std") = UNION {field.roles : field \in RegsOf("mopeka_std")}
  BY DEF RolesOf
<1>4. QED
  BY <1>1, <1>2, <1>3

\* The distance of a Mopeka Standard is that of its strongest echo, whatever it hears.
THEOREM EchoIsTheStrongestAlways == FrameSpec => []EchoIsTheStrongest
<1>1. UnitType => EchoIsTheStrongest
  <2>1. SUFFICES ASSUME UnitType, model = "mopeka_std"
                 PROVE  EchoIsTheStrongest
    BY DEF EchoIsTheStrongest
  <2> DEFINE table == unit.table
             fives == Fives(MopekaStdFrame(unit))
             found == Decoded["mopeka_std"][unit]["tank"]
             chosen == FindBestTime(fives)
             best == CHOOSE i \in Echoes(table, 12) : \A j \in Echoes(table, 12) :
                       table[j][2] < table[i][2] \/ (table[j][2] = table[i][2] /\ i <= j)
             since == {i \in 1..best : \A j \in i..(best - 1) : table[j][2] = 0}
  <2>2. unit \in StdUnit /\ unit \in Unit["mopeka_std"] /\ "mopeka_std" \in DOMAIN Unit
    BY <2>1, MopekaAssumption DEF UnitType
  <2>3. /\ table \in EchoTable
        /\ \A i \in 1..12 : fives[2 * i - 1] + 1 = table[i][1] /\ fives[2 * i] = table[i][2]
    BY <2>2, TableInFrame, PairsComeBack
  <2>4. PICK sum : Elapsed(sum, table)
    BY <2>3, ElapsedExists
  <2>5. WalkInv(chosen, table, sum, 12)
    <3> HIDE DEF table, fives
    <3> QED BY <2>3, <2>4, WalkOverTable
  <2>6. found["UsableMeasurements"] = <<chosen.usable>> /\ found["BestTime"] = <<chosen.time>>
    <3>1. "mopeka_std" \in DOMAIN Unit \ SeeLevel
      BY <2>2 DEF SeeLevel
    <3>2. found = Parsed("mopeka_std", "tank", FrameOf("mopeka_std", unit))
      BY <2>2, <3>1, StdTank, DecodedIs
    <3>3. FrameOf("mopeka_std", unit) = MopekaStdFrame(unit)
      BY DEF FrameOf
    <3> HIDE DEF found
    <3>4. QED
      BY <3>2, <3>3 DEF Parsed, With, Echo
  <2>7. found["UsableMeasurements"] = <<Cardinality(Echoes(table, 12))>>
    BY <2>5, <2>6 DEF WalkInv
  <2>8. ASSUME Echoes(table, 12) # {}
        PROVE  found["BestTime"] = <<TotalTime(table, since)>>
    <3> HIDE DEF table, fives, found, chosen
    <3>1. PICK b \in 1..12 : \E l \in 0..b - 1 :
            /\ Strongest(table, b, 12) /\ chosen.value = table[b][2]
            /\ LastEcho(table, l, b - 1) /\ chosen.time = sum[b] - sum[l]
      BY <2>5, <2>8 DEF WalkInv
    <3>2. PICK l \in 0..b - 1 : LastEcho(table, l, b - 1) /\ chosen.time = sum[b] - sum[l]
      BY <3>1
    <3>3. \A j \in 1..12 : table[j][2] \in 0..31
      BY <2>3 DEF EchoTable
    <3>4. best = b
      <4>1. b \in Echoes(table, 12) /\ \A j \in Echoes(table, 12) :
              table[j][2] < table[b][2] \/ (table[j][2] = table[b][2] /\ b <= j)
        BY <3>1 DEF Strongest, Echoes
      <4>2. ASSUME NEW i \in Echoes(table, 12), \A j \in Echoes(table, 12) :
                     table[j][2] < table[i][2] \/ (table[j][2] = table[i][2] /\ i <= j)
            PROVE  i = b
        <5>1. i \in 1..12 /\ table[i][2] \in Int /\ table[b][2] \in Int
          BY <3>3 DEF Echoes
        <5>2. table[b][2] < table[i][2] \/ (table[b][2] = table[i][2] /\ i <= b)
          BY <4>1, <4>2
        <5>3. table[i][2] < table[b][2] \/ (table[i][2] = table[b][2] /\ b <= i)
          BY <4>1
        <5>4. QED
          BY <5>1, <5>2, <5>3
      <4>3. QED
        BY <4>1, <4>2
    <3>5. since = l + 1..b
      <4>1. since = {i \in 1..b : \A j \in i..(b - 1) : table[j][2] = 0}
        BY <3>4
      <4> HIDE DEF since
      <4>2. l \in Int /\ b \in Int /\ l >= 0 /\ l < b /\ (l # 0 => table[l][2] # 0)
        BY <3>2 DEF LastEcho
      <4>3. \A j \in l + 1..b - 1 : table[j][2] = 0
        BY <3>2 DEF LastEcho
      <4>4. ASSUME NEW i \in since PROVE i \in l + 1..b
        BY <4>1, <4>2
      <4>5. ASSUME NEW i \in l + 1..b PROVE i \in since
        BY <4>1, <4>2, <4>3
      <4>6. QED
        BY <4>4, <4>5
    <3>6. TotalTime(table, since) = sum[b] - sum[l]
      <4> HIDE DEF since
      <4> QED BY <2>3, <2>4, <3>5, TotalOfInterval
    <3>7. QED
      BY <2>6, <3>2, <3>6
  <2>9. Echoes(table, 12) = {i \in 1..12 : table[i][2] # 0}
    BY DEF Echoes
  <2>10. QED
    BY <2>7, <2>8, <2>9 DEF EchoIsTheStrongest
<1>2. QED
  BY <1>1, UnitTypeAlways, PTL

(***************************************************************************)
(* Registers                                                               *)
(***************************************************************************)

\* The sums of the first bytes, up to Number.
IsNumber(first, size, bytes, big) ==
  first = [n \in 0..size |->
             IF n = 0 THEN 0 ELSE 256 * first[n - 1] + bytes[IF big THEN n ELSE size + 1 - n]]

\* There are such sums: Number picks them.
LEMMA NumberIs ==
  ASSUME NEW bytes, NEW big, NEW size, Len(bytes) = size,
         \E first : IsNumber(first, size, bytes, big)
  PROVE  \E first : IsNumber(first, size, bytes, big) /\ Number(bytes, big) = first[size]
<1> DEFINE first == CHOOSE f : IsNumber(f, size, bytes, big)
<1>1. IsNumber(first, size, bytes, big)
  OBVIOUS
<1>2. Number(bytes, big) = first[size]
  BY DEF Number, IsNumber
<1>3. QED
  BY <1>1, <1>2

\* A byte is its number.
LEMMA OneByte ==
  ASSUME NEW bytes, NEW big, Len(bytes) = 1, bytes[1] \in Int
  PROVE  Number(bytes, big) = bytes[1]
<1> DEFINE f == [n \in 0..1 |-> IF n = 0 THEN 0 ELSE bytes[1]]
<1>1. IsNumber(f, 1, bytes, big)
  BY DEF IsNumber
<1>2. PICK g : IsNumber(g, 1, bytes, big) /\ Number(bytes, big) = g[1]
  <2> HIDE DEF f
  <2> QED BY <1>1, NumberIs
<1>3. g[0] = 0 /\ g[1] = 256 * g[0] + bytes[1]
  BY <1>2 DEF IsNumber
<1>4. QED
  BY <1>2, <1>3

\* Two bytes, the lower first.
LEMMA TwoBytes ==
  ASSUME NEW bytes, Len(bytes) = 2, bytes[1] \in Int, bytes[2] \in Int
  PROVE  Number(bytes, FALSE) = bytes[1] + 256 * bytes[2]
<1> DEFINE f == [n \in 0..2 |-> IF n = 0 THEN 0 ELSE IF n = 1 THEN bytes[2]
                                ELSE 256 * bytes[2] + bytes[1]]
<1>1. IsNumber(f, 2, bytes, FALSE)
  <2>1. ASSUME NEW n \in 0..2
        PROVE  f[n] = IF n = 0 THEN 0 ELSE 256 * f[n - 1] + bytes[IF FALSE THEN n ELSE 2 + 1 - n]
    <3>1. CASE n = 0
      BY <3>1
    <3>2. CASE n = 1
      BY <3>2
    <3>3. CASE n = 2
      BY <3>3
    <3>4. QED
      BY <3>1, <3>2, <3>3
  <2>2. f = [n \in 0..2 |-> f[n]]
    OBVIOUS
  <2> HIDE DEF f
  <2>3. QED
    BY <2>1, <2>2 DEF IsNumber
<1>2. PICK g : IsNumber(g, 2, bytes, FALSE) /\ Number(bytes, FALSE) = g[2]
  <2> HIDE DEF f
  <2> QED BY <1>1, NumberIs
<1>3. g[0] = 0
  BY <1>2 DEF IsNumber
<1>4. g[1] = 256 * g[0] + bytes[2]
  BY <1>2 DEF IsNumber
<1>5. g[2] = 256 * g[1] + bytes[1]
  <2>1. \A n \in 0..2 : g[n] = IF n = 0 THEN 0 ELSE 256 * g[n - 1] + bytes[2 + 1 - n]
    BY <1>2, Zenon DEF IsNumber
  <2>2. 2 \in 0..2 /\ 2 # 0 /\ 2 - 1 = 1 /\ 2 + 1 - 2 = 1
    OBVIOUS
  <2>3. g[2] = 256 * g[2 - 1] + bytes[2 + 1 - 2]
    BY <2>1, <2>2, Zenon
  <2>4. QED
    BY <2>2, <2>3
<1>6. g[2] = bytes[1] + 256 * bytes[2]
  BY <1>3, <1>4, <1>5
<1>7. QED
  BY <1>2, <1>6, Zenon

\* Part of the bytes.
LEMMA BytesAt ==
  ASSUME NEW data, NEW len, Piece(data, len, Int), NEW k \in Nat, NEW n \in Nat, k + n <= len
  PROVE  /\ Len(SubSeq(data, k + 1, k + n)) = n
         /\ \A i \in 1..n : SubSeq(data, k + 1, k + n)[i] = data[k + i] /\ data[k + i] \in Int
<1> DEFINE S == Int
<1>1. data \in Seq(S) /\ Len(data) = len
  BY DEF Piece
<1>2. \A i \in k + 1..k + n : data[i] \in S
  BY <1>1
<1>3. k + 1 \in Int /\ k + n \in Int /\ (k + n) - (k + 1) + 1 = n
  OBVIOUS
<1>4. /\ Len(SubSeq(data, k + 1, k + n)) = IF k + 1 <= k + n THEN (k + n) - (k + 1) + 1 ELSE 0
      /\ \A i \in 1..(k + n) - (k + 1) + 1 : SubSeq(data, k + 1, k + n)[i] = data[k + 1 + i - 1]
  <2> DEFINE a == k + 1
             b == k + n
  <2>1. a \in Int /\ b \in Int /\ \A i \in a..b : data[i] \in S
    BY <1>2, <1>3
  <2> HIDE DEF a, b, S
  <2>2. /\ Len(SubSeq(data, a, b)) = IF a <= b THEN b - a + 1 ELSE 0
        /\ \A i \in 1..b - a + 1 : SubSeq(data, a, b)[i] = data[a + i - 1]
    BY <2>1, SubSeqProperties
  <2>3. QED
    BY <2>2 DEF a, b
<1>5. QED
  BY <1>2, <1>3, <1>4

\* A register with neither sign nor marker nor translation.
Plain(field) ==
  /\ field.xlate = "none" /\ field.signed = FALSE /\ field.times = 1 /\ field.inval = NoMark
  /\ field.big = FALSE

\* It ends before the frame does; the powers of two cut it out of the number there.
Span(field) == (field.bits + field.shift + 7) \div 8

\* The frame holds number where the field lies, and the parameters are the field's.
Within(field, data, number, scaled, modulus, bias) ==
  /\ Plain(field)
  /\ scaled \in Nat \ {0} /\ modulus \in Nat \ {0} /\ number \in Int /\ bias \in Int
  /\ scaled = 2^field.shift /\ modulus = 2^field.bits /\ bias = field.bias
  /\ ~ (Span(field) > Len(data) - field.offset)
  /\ Number(SubSeq(data, field.offset + 1, field.offset + Span(field)), FALSE) = number

\* What is cut out of a number is a number.
LEMMA FieldIsInt == \A n \in Int : \A s, m \in Nat \ {0} : (n \div s) % m \in Int
OBVIOUS

\* Such a register is read as what is cut out, plus its bias.
LEMMA PlainIsRead ==
  ASSUME NEW data, NEW field, NEW number, NEW scaled, NEW modulus, NEW bias,
         Within(field, data, number, scaled, modulus, bias)
  PROVE  LoadNumber(field, data) = <<((number \div scaled) % modulus) + bias>>
<1> DEFINE size == Span(field)
           raw == (Number(SubSeq(data, field.offset + 1, field.offset + size), field.big)
                     \div 2^field.shift) % 2^field.bits
           value == Translated(field.xlate, SignOf(field, raw) * field.times + field.bias)
           cut == (number \div scaled) % modulus
<1>1. raw = cut
  BY Zenon DEF Within, Plain
<1>2. cut \in Int
  BY FieldIsInt, Zenon DEF Within
<1>3. ~ (size > Len(data) - field.offset)
  BY Zenon DEF Within
<1>4. ~ (field.inval # NoMark)
  BY Zenon DEF Within, Plain
<1> HIDE DEF raw, cut
<1>5. SignOf(field, raw) = raw
  BY Zenon DEF SignOf, Within, Plain
<1>6. value = cut + bias
  <2>1. value = Translated("none", cut * 1 + bias)
    BY <1>1, <1>5, Zenon DEF Within, Plain
  <2>2. Translated("none", cut * 1 + bias) = cut * 1 + bias
    BY DEF Translated
  <2>3. bias \in Int
    BY Zenon DEF Within
  <2>4. QED
    BY <1>2, <2>1, <2>2, <2>3
<1> HIDE DEF value, size
<1>7. LoadNumber(field, data) = <<value>>
  BY <1>3, <1>4, Zenon DEF LoadNumber, raw, value, size, Span
<1>8. QED
  BY <1>6, <1>7, Zenon DEF cut

\* What a role reads of a register that no other has the name of.
LEMMA RegisterIs ==
  ASSUME NEW m, NEW role, NEW data, NEW field \in RegsOf(m), role \in field.roles,
         LoadNumber(field, data) # None, \A r \in RegsOf(m) : r.name = field.name => r = field
  PROVE  /\ Registers(m, role, data)[field.name] = LoadNumber(field, data)
         /\ field.name \in DOMAIN Registers(m, role, data)
<1> DEFINE wanted == {r \in RegsOf(m) : role \in r.roles}
           plain == [r \in wanted |-> LoadNumber(r, data)]
           value == Table(plain)
           found == {r \in DOMAIN value : value[r] # None}
           names == {r.name : r \in found}
           named == [name \in names |-> value[CHOOSE r \in found : r.name = name]]
<1>1. Registers(m, role, data) = named
  <2>1. Registers(m, role, data) = Table(named)
    BY DEF Registers
  <2> HIDE DEF named
  <2>2. QED
    BY <2>1, TableIs
<1>2. value = plain
  <2> HIDE DEF plain
  <2> QED BY TableIs
<1>3. field \in found /\ value[field] = LoadNumber(field, data)
  <2>1. field \in wanted
    OBVIOUS
  <2> HIDE DEF wanted, value
  <2>2. QED
    BY <1>2, <2>1
<1>4. \A r \in found : r.name = field.name => r = field
  <2>1. found \subseteq wanted
    <3> HIDE DEF value, wanted
    <3> QED BY <1>2
  <2> HIDE DEF found
  <2>2. QED
    BY <2>1
<1> HIDE DEF found, value
<1>5. (CHOOSE r \in found : r.name = field.name) = field
  BY <1>3, <1>4
<1>6. field.name \in names
  BY <1>3
<1>7. named[field.name] = value[field]
  BY <1>5, <1>6
<1>8. QED
  BY <1>1, <1>3, <1>6, <1>7

(***************************************************************************)
(* A Mopeka's levels                                                       *)
(***************************************************************************)

\* Whether an echo time is past 14 bits, and the number sent for it.
Far(echo) == echo >= 16384
Sent(echo) == IF Far(echo) THEN (echo - 16384) \div 4 ELSE echo

\* The numbers of 14 bits.
Raws == 0..16383

\* The number sent fits its 14 bits, and is undone by the extension.
LEMMA SentFits ==
  ASSUME NEW echo, echo \in MopekaEcho
  PROVE  Sent(echo) \in Raws /\ Extended(IF Far(echo) THEN 1 ELSE 0, Sent(echo)) = echo
<1> DEFINE IsFar == \E n \in Raws : echo = 16384 + 4 * n
<1>1. echo \in Raws \/ IsFar
  <2> DEFINE far == {16384 + 4 * n : n \in Raws}
  <2>1. echo \in Raws \/ echo \in far
    <3>1. MopekaEcho = Raws \cup far
      BY DEF MopekaEcho, Raws
    <3> HIDE DEF far
    <3>2. QED
      BY <3>1
  <2>2. echo \in far => IsFar
    OBVIOUS
  <2> HIDE DEF far, IsFar
  <2>3. QED
    BY <2>1, <2>2
<1>2. CASE echo \in Raws
  BY <1>2 DEF Sent, Far, Raws, Extended
<1>3. CASE IsFar
  <2>1. PICK n \in Raws : echo = 16384 + 4 * n
    BY <1>3
  <2>2. Far(echo) /\ Sent(echo) = n
    BY <2>1 DEF Far, Sent, Raws
  <2>3. QED
    BY <2>1, <2>2 DEF Extended
<1> HIDE DEF IsFar
<1>4. QED
  BY <1>1, <1>2, <1>3, Zenon

\* The bytes of a Mopeka's frame.
LEMMA MopekaBytes ==
  ASSUME NEW u \in MopekaUnit
  PROVE  /\ Piece(MopekaFrame(u), 10, Int)
         /\ MopekaFrame(u)[1] = u.hw + (IF Far(u.echo) THEN 128 ELSE 0)
         /\ MopekaFrame(u)[2] = u.batt
         /\ MopekaFrame(u)[3] = 128 + u.temp
         /\ MopekaFrame(u)[4] = Sent(u.echo) % 256
         /\ MopekaFrame(u)[5] = Sent(u.echo) \div 256 + 192
<1> DEFINE a == u.hw + (IF Far(u.echo) THEN 128 ELSE 0)
           c == 128 + u.temp
           d == Sent(u.echo) % 256
           e == Sent(u.echo) \div 256 + 192
           head == <<a, u.batt, c, d, e>>
           tail == <<10, 250>>
           zeros == Zeros(3)
           frame == Join(Join(head, zeros), tail)
<1>1. frame = MopekaFrame(u)
  BY DEF MopekaFrame, Join, Far, Sent
<1>2. /\ u.hw \in Int /\ u.batt \in Int /\ u.temp \in Int
      /\ u.echo \in MopekaEcho
  BY DEF MopekaUnit
<1>3. Piece(head, 5, Int)
  <2>0. \A n \in Raws : n \in Int /\ n % 256 \in Int /\ n \div 256 + 192 \in Int
    BY DEF Raws
  <2>1. Sent(u.echo) \in Raws
    BY <1>2, SentFits, Zenon
  <2>2. a \in Int /\ c \in Int
    BY <1>2
  <2>3. d \in Int /\ e \in Int
    BY <2>0, <2>1, Zenon
  <2> HIDE DEF a, c, d, e
  <2>4. QED
    BY <1>2, <2>2, <2>3 DEF Piece
<1>4. Piece(zeros, 3, Int)
  <2>1. Zeros(3) \in Seq(Int) /\ Len(Zeros(3)) = 3
    BY DEF Zeros
  <2>2. QED
    BY <2>1 DEF Piece
<1>5. Piece(tail, 2, Int)
  BY DEF Piece
<1>6. head[1] = a /\ head[2] = u.batt /\ head[3] = c /\ head[4] = d /\ head[5] = e
  <2> HIDE DEF a, c, d, e
  <2> QED OBVIOUS
<1> HIDE DEF head, zeros, tail
<1>7. Piece(Join(head, zeros), 8, Int) /\ Piece(frame, 10, Int)
  <2>1. 5 + 3 = 8 /\ 8 + 2 = 10
    OBVIOUS
  <2>2. Piece(Join(head, zeros), 8, Int)
    BY <1>3, <1>4, <2>1, JoinPart
  <2>3. QED
    BY <1>5, <2>1, <2>2, JoinPart
<1>8. ASSUME NEW i \in 1..5 PROVE frame[i] = head[i]
  <2>1. i \in 1..5 + 3 /\ i \in 1..8 + 2 /\ i <= 5 /\ i <= 8
    OBVIOUS
  <2>2. Join(head, zeros)[i] = head[i]
    BY <1>3, <1>4, <2>1, JoinAt
  <2>3. Join(Join(head, zeros), tail)[i] = Join(head, zeros)[i]
    BY <1>5, <1>7, <2>1, JoinAt
  <2>4. QED
    BY <2>2, <2>3
<1>9. /\ frame[1] = head[1] /\ frame[2] = head[2] /\ frame[3] = head[3]
      /\ frame[4] = head[4] /\ frame[5] = head[5]
  BY <1>8
<1> HIDE DEF a, c, d, e, frame
<1>10. /\ Piece(frame, 10, Int) /\ frame[1] = a /\ frame[2] = u.batt /\ frame[3] = c
       /\ frame[4] = d /\ frame[5] = e
  BY <1>6, <1>7, <1>9
<1>11. QED
  BY <1>1, <1>10 DEF a, c, d, e

\* The registers of MopekaRegs that a tank is shown from.
HardwareReg == Reg("HardwareID", 0, 7, Tank)
ExtensionReg == Shifted(Reg("TankLevelExtension", 0, 1, Tank), 7)
BatteryReg == Scaled(Reg("BatteryVoltage", 1, 7, Tank), 32)
TemperatureReg == Biased(Reg("Temperature", 2, 7, Tank), -40)
RawReg == Reg("RawValue", 3, 14, Tank)
LevelReg == {HardwareReg, ExtensionReg, BatteryReg, TemperatureReg, RawReg}

\* The registers a Mopeka's tank is shown from, each the only one of its name.
LEMMA LevelRegs ==
  ASSUME NEW field \in LevelReg
  PROVE  /\ field \in RegsOf("mopeka") /\ "tank" \in field.roles
         /\ \A r \in RegsOf("mopeka") : r.name = field.name => r = field
<1> DEFINE button == Shifted(Reg("SyncButton", 2, 1, {}), 7)
           quality == Shifted(Reg("Quality", 4, 2, {}), 6)
<1>1. RegsOf("mopeka") = {HardwareReg, ExtensionReg, BatteryReg, TemperatureReg, button, RawReg,
                          quality}
  BY Zenon DEF RegsOf, MopekaRegs, HardwareReg, ExtensionReg, BatteryReg, TemperatureReg, RawReg
<1>2. /\ HardwareReg.name = "HardwareID" /\ ExtensionReg.name = "TankLevelExtension"
      /\ BatteryReg.name = "BatteryVoltage" /\ TemperatureReg.name = "Temperature"
      /\ RawReg.name = "RawValue" /\ button.name = "SyncButton" /\ quality.name = "Quality"
  BY DEF Reg, Scaled, Shifted, Biased, HardwareReg, ExtensionReg, BatteryReg, TemperatureReg, RawReg
<1>3. \A r \in LevelReg : "tank" \in r.roles
  BY DEF Reg, Scaled, Shifted, Biased, Tank,
         LevelReg, HardwareReg, ExtensionReg, BatteryReg, TemperatureReg, RawReg
<1> HIDE DEF button, quality
<1>4. \A r \in RegsOf("mopeka") : r.name = field.name => r = field
  BY <1>1, <1>2 DEF LevelReg
<1>5. QED
  BY <1>1, <1>3, <1>4 DEF LevelReg

\* The number in one byte of a frame.
LEMMA FirstByteIs ==
  ASSUME NEW data, NEW len \in Nat, Piece(data, len, Int), NEW k \in Nat, k + 1 <= len
  PROVE  Number(SubSeq(data, k + 1, k + 1), FALSE) = data[k + 1] /\ data[k + 1] \in Int
<1> DEFINE bytes == SubSeq(data, k + 1, k + 1)
<1>1. Len(bytes) = 1 /\ \A i \in 1..1 : bytes[i] = data[k + i] /\ data[k + i] \in Int
  BY BytesAt
<1> HIDE DEF bytes
<1>2. Len(bytes) = 1 /\ bytes[1] = data[k + 1] /\ data[k + 1] \in Int
  BY <1>1
<1>3. Number(bytes, FALSE) = bytes[1]
  BY <1>2, OneByte
<1>4. QED
  BY <1>2, <1>3 DEF bytes

\* The number in two bytes of a frame.
LEMMA TwoBytesAre ==
  ASSUME NEW data, NEW len \in Nat, Piece(data, len, Int), NEW k \in Nat, k + 2 <= len
  PROVE  /\ Number(SubSeq(data, k + 1, k + 2), FALSE) = data[k + 1] + 256 * data[k + 2]
         /\ data[k + 1] \in Int /\ data[k + 2] \in Int
<1> DEFINE bytes == SubSeq(data, k + 1, k + 2)
<1>1. Len(bytes) = 2 /\ \A i \in 1..2 : bytes[i] = data[k + i] /\ data[k + i] \in Int
  BY BytesAt
<1> HIDE DEF bytes
<1>2. /\ Len(bytes) = 2 /\ bytes[1] = data[k + 1] /\ data[k + 1] \in Int
      /\ bytes[2] = data[k + 2] /\ data[k + 2] \in Int
  BY <1>1
<1>3. Number(bytes, FALSE) = bytes[1] + 256 * bytes[2]
  BY <1>2, TwoBytes
<1>4. QED
  BY <1>2, <1>3 DEF bytes

\* A register within one byte of the frame, the number there, and how it is cut out.
OfByte(field, data, offs, number, scaled, modulus, bias) ==
  /\ Plain(field) /\ Span(field) = 1 /\ field.offset = offs /\ offs \in Nat
  /\ \E len \in Nat : Piece(data, len, Int) /\ offs + 1 <= len
  /\ data[offs + 1] = number
  /\ scaled \in Nat \ {0} /\ modulus \in Nat \ {0} /\ bias \in Int
  /\ scaled = 2^field.shift /\ modulus = 2^field.bits /\ bias = field.bias

\* It is read as what is cut out of that byte.
LEMMA ByteIsRead ==
  ASSUME NEW field, NEW data, NEW offs, NEW number, NEW scaled, NEW modulus, NEW bias,
         OfByte(field, data, offs, number, scaled, modulus, bias)
  PROVE  LoadNumber(field, data) = <<((number \div scaled) % modulus) + bias>>
<1>1. PICK len \in Nat : Piece(data, len, Int) /\ offs + 1 <= len
  BY Zenon DEF OfByte
<1>2. offs \in Nat /\ Span(field) = 1 /\ field.offset = offs /\ data[offs + 1] = number
  BY Zenon DEF OfByte
<1>3. Number(SubSeq(data, offs + 1, offs + 1), FALSE) = number /\ number \in Int
  BY <1>1, <1>2, FirstByteIs, Zenon
<1>4. ~ (Span(field) > Len(data) - field.offset)
  <2>1. Len(data) = len
    BY <1>1 DEF Piece
  <2>2. ~ (1 > len - offs)
    BY <1>1, <1>2
  <2>3. QED
    BY <1>2, <2>1, <2>2, Zenon
<1>5. Number(SubSeq(data, field.offset + 1, field.offset + Span(field)), FALSE) = number
  BY <1>2, <1>3, Zenon
<1>6. Within(field, data, number, scaled, modulus, bias)
  BY <1>3, <1>4, <1>5, Zenon DEF Within, OfByte
<1>7. QED
  BY <1>6, PlainIsRead

\* The kind of sensor, in seven bits.
LEMMA HardwareIsRead ==
  ASSUME NEW u \in MopekaUnit
  PROVE  LoadNumber(HardwareReg, MopekaFrame(u)) = <<u.hw>>
<1> DEFINE data == MopekaFrame(u)
           offs == 0
           bias == 0
           scaled == 1
           modulus == 128
           number == u.hw + (IF Far(u.echo) THEN 128 ELSE 0)
<1>1. Plain(HardwareReg) /\ HardwareReg.bits = 7 /\ HardwareReg.shift = 0
  BY DEF Plain, HardwareReg, Reg, NoMark
<1>2. offs = HardwareReg.offset /\ bias = HardwareReg.bias
  BY DEF HardwareReg, Reg
<1>3. Span(HardwareReg) = 1
  BY <1>1 DEF Span
<1>4. 2^0 = 1 /\ 2^7 = 128
  OBVIOUS
<1>5. scaled = 2^HardwareReg.shift /\ modulus = 2^HardwareReg.bits
  BY <1>1, <1>4, Zenon
<1>6. Piece(data, 10, Int) /\ data[offs + 1] = number
  BY MopekaBytes
<1>7. /\ 10 \in Nat /\ offs \in Nat /\ offs + 1 <= 10 /\ bias \in Int
      /\ scaled \in Nat \ {0} /\ modulus \in Nat \ {0}
  OBVIOUS
<1>8. ((number \div scaled) % modulus) + bias = u.hw
  BY DEF MopekaUnit
<1> HIDE DEF data, offs, bias, scaled, modulus, number
<1>9. OfByte(HardwareReg, data, offs, number, scaled, modulus, bias)
  BY <1>1, <1>2, <1>3, <1>5, <1>6, <1>7, Zenon DEF OfByte
<1>10. LoadNumber(HardwareReg, data) = <<((number \div scaled) % modulus) + bias>>
  BY <1>9, ByteIsRead
<1>11. QED
  BY <1>8, <1>10 DEF data

\* The bit above it.
LEMMA ExtensionIsRead ==
  ASSUME NEW u \in MopekaUnit
  PROVE  LoadNumber(ExtensionReg, MopekaFrame(u)) = <<IF Far(u.echo) THEN 1 ELSE 0>>
<1> DEFINE data == MopekaFrame(u)
           offs == 0
           bias == 0
           scaled == 128
           modulus == 2
           number == u.hw + (IF Far(u.echo) THEN 128 ELSE 0)
<1>1. Plain(ExtensionReg) /\ ExtensionReg.bits = 1 /\ ExtensionReg.shift = 7
  BY DEF Plain, ExtensionReg, Shifted, Reg, NoMark
<1>2. offs = ExtensionReg.offset /\ bias = ExtensionReg.bias
  BY DEF ExtensionReg, Shifted, Reg
<1>3. Span(ExtensionReg) = 1
  BY <1>1 DEF Span
<1>4. 2^7 = 128 /\ 2^1 = 2
  OBVIOUS
<1>5. scaled = 2^ExtensionReg.shift /\ modulus = 2^ExtensionReg.bits
  BY <1>1, <1>4, Zenon
<1>6. Piece(data, 10, Int) /\ data[offs + 1] = number
  BY MopekaBytes
<1>7. /\ 10 \in Nat /\ offs \in Nat /\ offs + 1 <= 10 /\ bias \in Int
      /\ scaled \in Nat \ {0} /\ modulus \in Nat \ {0}
  OBVIOUS
<1>8. ((number \div scaled) % modulus) + bias = IF Far(u.echo) THEN 1 ELSE 0
  BY DEF MopekaUnit
<1> HIDE DEF data, offs, bias, scaled, modulus, number
<1>9. OfByte(ExtensionReg, data, offs, number, scaled, modulus, bias)
  BY <1>1, <1>2, <1>3, <1>5, <1>6, <1>7, Zenon DEF OfByte
<1>10. LoadNumber(ExtensionReg, data) = <<((number \div scaled) % modulus) + bias>>
  BY <1>9, ByteIsRead
<1>11. QED
  BY <1>8, <1>10 DEF data

\* The charge.
LEMMA BatteryIsRead ==
  ASSUME NEW u \in MopekaUnit
  PROVE  LoadNumber(BatteryReg, MopekaFrame(u)) = <<u.batt>>
<1> DEFINE data == MopekaFrame(u)
           offs == 1
           bias == 0
           scaled == 1
           modulus == 128
           number == u.batt
<1>1. Plain(BatteryReg) /\ BatteryReg.bits = 7 /\ BatteryReg.shift = 0
  BY DEF Plain, BatteryReg, Scaled, Reg, NoMark
<1>2. offs = BatteryReg.offset /\ bias = BatteryReg.bias
  BY DEF BatteryReg, Scaled, Reg
<1>3. Span(BatteryReg) = 1
  BY <1>1 DEF Span
<1>4. 2^0 = 1 /\ 2^7 = 128
  OBVIOUS
<1>5. scaled = 2^BatteryReg.shift /\ modulus = 2^BatteryReg.bits
  BY <1>1, <1>4, Zenon
<1>6. Piece(data, 10, Int) /\ data[offs + 1] = number
  BY MopekaBytes
<1>7. /\ 10 \in Nat /\ offs \in Nat /\ offs + 1 <= 10 /\ bias \in Int
      /\ scaled \in Nat \ {0} /\ modulus \in Nat \ {0}
  OBVIOUS
<1>8. ((number \div scaled) % modulus) + bias = u.batt
  BY DEF MopekaUnit
<1> HIDE DEF data, offs, bias, scaled, modulus, number
<1>9. OfByte(BatteryReg, data, offs, number, scaled, modulus, bias)
  BY <1>1, <1>2, <1>3, <1>5, <1>6, <1>7, Zenon DEF OfByte
<1>10. LoadNumber(BatteryReg, data) = <<((number \div scaled) % modulus) + bias>>
  BY <1>9, ByteIsRead
<1>11. QED
  BY <1>8, <1>10 DEF data

\* The temperature.
LEMMA TemperatureIsRead ==
  ASSUME NEW u \in MopekaUnit
  PROVE  LoadNumber(TemperatureReg, MopekaFrame(u)) = <<u.temp - 40>>
<1> DEFINE data == MopekaFrame(u)
           offs == 2
           bias == -40
           scaled == 1
           modulus == 128
           number == 128 + u.temp
<1>1. Plain(TemperatureReg) /\ TemperatureReg.bits = 7 /\ TemperatureReg.shift = 0
  BY DEF Plain, TemperatureReg, Biased, Reg, NoMark
<1>2. offs = TemperatureReg.offset /\ bias = TemperatureReg.bias
  BY DEF TemperatureReg, Biased, Reg
<1>3. Span(TemperatureReg) = 1
  BY <1>1 DEF Span
<1>4. 2^0 = 1 /\ 2^7 = 128
  OBVIOUS
<1>5. scaled = 2^TemperatureReg.shift /\ modulus = 2^TemperatureReg.bits
  BY <1>1, <1>4, Zenon
<1>6. Piece(data, 10, Int) /\ data[offs + 1] = number
  BY MopekaBytes
<1>7. /\ 10 \in Nat /\ offs \in Nat /\ offs + 1 <= 10 /\ bias \in Int
      /\ scaled \in Nat \ {0} /\ modulus \in Nat \ {0}
  OBVIOUS
<1>8. ((number \div scaled) % modulus) + bias = u.temp - 40
  BY DEF MopekaUnit
<1> HIDE DEF data, offs, bias, scaled, modulus, number
<1>9. OfByte(TemperatureReg, data, offs, number, scaled, modulus, bias)
  BY <1>1, <1>2, <1>3, <1>5, <1>6, <1>7, Zenon DEF OfByte
<1>10. LoadNumber(TemperatureReg, data) = <<((number \div scaled) % modulus) + bias>>
  BY <1>9, ByteIsRead
<1>11. QED
  BY <1>8, <1>10 DEF data

\* The echo time, in 14 bits of two bytes.
LEMMA RawIsRead ==
  ASSUME NEW u \in MopekaUnit
  PROVE  LoadNumber(RawReg, MopekaFrame(u)) = <<Sent(u.echo)>>
<1> DEFINE data == MopekaFrame(u)
           sent == Sent(u.echo)
           number == (sent % 256) + 256 * (sent \div 256 + 192)
<1>1. u.echo \in MopekaEcho
  BY DEF MopekaUnit
<1>2. sent \in Raws
  BY <1>1, SentFits, Zenon
<1>3. Piece(data, 10, Int) /\ data[4] = sent % 256 /\ data[5] = sent \div 256 + 192
  BY MopekaBytes, Zenon
<1> HIDE DEF data, sent
<1>4. ((number \div 1) % 16384) + 0 = sent /\ number \in Int
  BY <1>2 DEF Raws
<1>5. Number(SubSeq(data, 3 + 1, 3 + 2), FALSE) = data[4] + 256 * data[5]
  <2> DEFINE k == 3
             len == 10
  <2>1. len \in Nat /\ k \in Nat /\ k + 2 <= len /\ k + 1 = 4 /\ k + 2 = 5 /\ Piece(data, len, Int)
    BY <1>3
  <2> HIDE DEF k, len
  <2>2. Number(SubSeq(data, k + 1, k + 2), FALSE) = data[k + 1] + 256 * data[k + 2]
    BY <2>1, TwoBytesAre
  <2>3. QED
    BY <2>1, <2>2 DEF k
<1>6. Number(SubSeq(data, 3 + 1, 3 + 2), FALSE) = number
  BY <1>3, <1>5, Zenon
<1> HIDE DEF number
<1>7. Within(RawReg, data, number, 1, 2^14, 0)
  <2>1. Plain(RawReg)
    BY DEF Plain, RawReg, Shifted, Biased, Reg, NoMark
  <2>2. /\ RawReg.offset = 3 /\ RawReg.bits = 14 /\ RawReg.shift = 0
        /\ RawReg.bias = 0
    BY DEF RawReg, Shifted, Biased, Reg
  <2>3. Span(RawReg) = 2
    BY <2>2 DEF Span
  <2>4. 2^RawReg.shift = 1 /\ 2^RawReg.bits = 2^14
    <3>1. 2^0 = 1
      OBVIOUS
    <3>2. QED
      BY <2>2, <3>1, Zenon
  <2>5. ~ (Span(RawReg) > Len(data) - RawReg.offset)
    BY <1>3, <2>2, <2>3 DEF Piece
  <2>6. RawReg.offset + 1 = 3 + 1 /\ RawReg.offset + Span(RawReg) = 3 + 2
    BY <2>2, <2>3
  <2>7. Number(SubSeq(data, RawReg.offset + 1, RawReg.offset + Span(RawReg)), FALSE) = number
    BY <1>6, <2>6, Zenon
  <2>8. 1 \in Nat \ {0} /\ 2^14 \in Nat \ {0} /\ 0 \in Int /\ number \in Int
    BY <1>4
  <2> HIDE DEF Plain
  <2>9. QED
    BY <1>6, <2>1, <2>2, <2>4, <2>5, <2>7, <2>8, Zenon DEF Within
<1>8. LoadNumber(RawReg, data) = <<((number \div 1) % 2^14) + 0>>
  BY <1>7, PlainIsRead
<1>9. QED
  <2>1. 2^14 = 16384
    OBVIOUS
  <2>2. QED
    BY <1>4, <1>8, <2>1 DEF data, sent

\* A managed Mopeka's levels grow with its echo, at whatever temperature.
LEMMA ScaleIsPositive ==
  ASSUME NEW u \in MopekaUnit, NEW t \in 0..127, MopekaScale(u, t) # None
  PROVE  MopekaScale(u, t)[1] > 0
<1>1. u.butane \in 0..100
  BY DEF MopekaUnit
<1>2. t * t \in 0..16129
  OBVIOUS
<1>3. Water(t) > 0
  BY <1>2 DEF Water, Poly
<1>4. Gasoline(t) > 0
  BY <1>2 DEF Gasoline, Poly
<1>5. Vapour(t) > 0
  BY <1>2 DEF Vapour, Poly
<1>6. Propane(t, u.butane) > 0
  <2> DEFINE dry == Poly(57304500, -282200, -535, t)
             wet == u.butane * (36150 + 815 * t)
  <2>1. wet \in Int /\ wet >= 0
    BY <1>1, SMT
  <2>2. dry \in Int /\ dry > 0
    BY <1>2, SMT DEF Poly
  <2>3. Propane(t, u.butane) = dry + wet
    BY SMT DEF Propane, Poly
  <2> HIDE DEF dry, wet
  <2>4. QED
    BY <2>1, <2>2, <2>3
<1>7. MopekaScale(u, t) \in {<<Vapour(t)>>, <<Propane(t, u.butane)>>, <<Water(t)>>, <<Gasoline(t)>>, None}
  BY DEF MopekaScale
<1>8. QED
  BY <1>3, <1>4, <1>5, <1>6, <1>7

\* A Mopeka has a tank service.
LEMMA MopekaTank == "tank" \in RolesOf("mopeka")
<1>1. RawReg \in RegsOf("mopeka") /\ "tank" \in RawReg.roles
  BY LevelRegs DEF LevelReg
<1>2. RolesOf("mopeka") = UNION {field.roles : field \in RegsOf("mopeka")}
  BY DEF RolesOf
<1>3. QED
  BY <1>1, <1>2

\* What is read of a Mopeka is what it measures, for every unit it can be.
THEOREM MopekaIsRead ==
  ASSUME "mopeka" \in DOMAIN Unit, NEW u \in Unit["mopeka"]
  PROVE  LET vals == Decoded["mopeka"][u]["tank"]
         IN /\ vals["HardwareID"] = <<u.hw>>
            /\ vals["BatteryVoltage"] = <<u.batt>>
            /\ vals["TankLevelExtension"] = <<IF Far(u.echo) THEN 1 ELSE 0>>
            /\ vals["RawValue"] = <<Sent(u.echo)>> /\ "RawValue" \in DOMAIN vals
            /\ vals["Temperature"] = <<u.temp - 40>>
<1> DEFINE vals == Decoded["mopeka"][u]["tank"]
           data == MopekaFrame(u)
<1>1. u \in MopekaUnit
  BY MopekaAssumption
<1>2. vals = Registers("mopeka", "tank", data)
  <2>1. "mopeka" \in DOMAIN Unit \ SeeLevel
    BY DEF SeeLevel
  <2>2. vals = Parsed("mopeka", "tank", FrameOf("mopeka", u))
    BY <2>1, MopekaTank, DecodedIs
  <2>3. FrameOf("mopeka", u) = data
    BY DEF FrameOf
  <2> HIDE DEF vals, data
  <2>4. QED
    BY <2>2, <2>3 DEF Parsed
<1> HIDE DEF vals
<1>3. ASSUME NEW field \in LevelReg, LoadNumber(field, data) # None
      PROVE  vals[field.name] = LoadNumber(field, data) /\ field.name \in DOMAIN vals
  <2> HIDE DEF data
  <2>1. field \in RegsOf("mopeka") /\ "tank" \in field.roles
        /\ \A r \in RegsOf("mopeka") : r.name = field.name => r = field
    BY LevelRegs
  <2>2. QED
    BY <1>2, <1>3, <2>1, RegisterIs
<1>4. /\ LoadNumber(HardwareReg, data) = <<u.hw>>
      /\ LoadNumber(BatteryReg, data) = <<u.batt>>
      /\ LoadNumber(ExtensionReg, data) = <<IF Far(u.echo) THEN 1 ELSE 0>>
      /\ LoadNumber(RawReg, data) = <<Sent(u.echo)>>
      /\ LoadNumber(TemperatureReg, data) = <<u.temp - 40>>
  BY <1>1, HardwareIsRead, BatteryIsRead, ExtensionIsRead, RawIsRead, TemperatureIsRead
<1>5. /\ ExtensionReg.name = "TankLevelExtension" /\ RawReg.name = "RawValue"
      /\ TemperatureReg.name = "Temperature" /\ HardwareReg.name = "HardwareID"
      /\ BatteryReg.name = "BatteryVoltage"
  BY DEF Reg, Scaled, Shifted, Biased, HardwareReg, ExtensionReg, BatteryReg, TemperatureReg, RawReg
<1> HIDE DEF data
<1>6. /\ LoadNumber(ExtensionReg, data) # None /\ LoadNumber(RawReg, data) # None
      /\ LoadNumber(TemperatureReg, data) # None /\ LoadNumber(HardwareReg, data) # None
      /\ LoadNumber(BatteryReg, data) # None
  BY <1>4 DEF None
<1>7. /\ vals["HardwareID"] = LoadNumber(HardwareReg, data)
      /\ vals["BatteryVoltage"] = LoadNumber(BatteryReg, data)
      /\ vals["TankLevelExtension"] = LoadNumber(ExtensionReg, data)
      /\ vals["RawValue"] = LoadNumber(RawReg, data) /\ "RawValue" \in DOMAIN vals
      /\ vals["Temperature"] = LoadNumber(TemperatureReg, data)
  BY <1>3, <1>5, <1>6 DEF LevelReg
<1>8. QED
  BY <1>4, <1>7, Zenon DEF vals

\* What is managed has a scale.
LEMMA ManagedScale ==
  ASSUME NEW u, NEW t, Managed(u)
  PROVE  MopekaScale(u, t) # None
BY DEF Managed, MopekaScale, None

\* What the driver publishes of a managed Mopeka: its echo time and its scale.
LEMMA DistanceIs ==
  ASSUME "mopeka" \in DOMAIN Unit, NEW u \in Unit["mopeka"], Managed(u)
  PROVE  Distance(u) = <<u.echo, MopekaScale(u, u.temp)[1]>>
<1> DEFINE vals == Decoded["mopeka"][u]["tank"]
           scale == MopekaScale(u, vals["Temperature"][1] + 40)
<1>1. /\ vals["TankLevelExtension"] = <<IF Far(u.echo) THEN 1 ELSE 0>>
      /\ vals["RawValue"] = <<Sent(u.echo)>> /\ "RawValue" \in DOMAIN vals
      /\ vals["Temperature"] = <<u.temp - 40>>
  BY MopekaIsRead
<1>2. u.echo \in MopekaEcho /\ u.temp \in 0..127
  BY MopekaAssumption DEF MopekaUnit
<1> HIDE DEF vals
<1>3. vals["Temperature"][1] + 40 = u.temp
  BY <1>1, <1>2
<1>4. scale # None /\ scale = MopekaScale(u, u.temp)
  BY <1>3, ManagedScale, Zenon
<1>5. Extended(vals["TankLevelExtension"][1], vals["RawValue"][1]) = u.echo
  <2>1. vals["TankLevelExtension"][1] = (IF Far(u.echo) THEN 1 ELSE 0)
        /\ vals["RawValue"][1] = Sent(u.echo)
    BY <1>1
  <2>2. QED
    BY <1>2, <2>1, SentFits, Zenon
<1> HIDE DEF scale
<1>6. MopekaUpdate(u, vals) =
        [vals EXCEPT !["RawValue"] =
           <<Extended(vals["TankLevelExtension"][1], vals["RawValue"][1]), scale[1]>>]
  BY <1>4 DEF MopekaUpdate, scale
<1>7. MopekaUpdate(u, vals)["RawValue"] = <<u.echo, scale[1]>>
  BY <1>1, <1>5, <1>6
<1>8. QED
  BY <1>4, <1>7, Zenon DEF Distance, vals

\* For a fluid the driver manages, a longer echo of a Mopeka is published as a longer
\* distance, whatever its temperature, its mixture and the side of the extension bit.
THEOREM LevelsInOrderAlways == FrameSpec => []LevelsInOrder
<1>1. UnitType => LevelsInOrder
  <2> DEFINE setup(u) == <<u.hw, u.fluid, u.butane, u.temp>>
  <2>1. SUFFICES ASSUME UnitType, model = "mopeka", Managed(unit), NEW other \in Unit["mopeka"],
                        setup(other) = setup(unit), unit.echo < other.echo
                 PROVE  Longer(Distance(other), Distance(unit))
    BY DEF LevelsInOrder
  <2>2. "mopeka" \in DOMAIN Unit /\ unit \in Unit["mopeka"] /\ Unit["mopeka"] \subseteq MopekaUnit
    BY <2>1, MopekaAssumption DEF UnitType
  <2>3. /\ other.hw = unit.hw /\ other.fluid = unit.fluid
        /\ other.butane = unit.butane /\ other.temp = unit.temp
    BY <2>1
  <2>4. Managed(other)
    BY <2>1, <2>3, Zenon DEF Managed
  <2> DEFINE scale == MopekaScale(unit, unit.temp)[1]
  <2>5. MopekaScale(other, other.temp) = MopekaScale(unit, unit.temp)
    BY <2>3, Zenon DEF MopekaScale
  <2>6. Distance(unit) = <<unit.echo, scale>> /\ Distance(other) = <<other.echo, scale>>
    BY <2>1, <2>2, <2>4, <2>5, DistanceIs, Zenon
  <2>7. scale > 0
    <3>1. unit \in MopekaUnit /\ unit.temp \in 0..127
      BY <2>2 DEF MopekaUnit
    <3>2. QED
      BY <2>1, <3>1, ManagedScale, ScaleIsPositive
  <2> HIDE DEF scale
  <2>8. QED
    BY <2>1, <2>6, <2>7 DEF Longer
<1>2. QED
  BY <1>1, UnitTypeAlways, PTL

(***************************************************************************)
(* Words                                                                   *)
(***************************************************************************)

\* Two bytes, the higher first.
LEMMA TwoBytesBig ==
  ASSUME NEW bytes, Len(bytes) = 2, bytes[1] \in Int, bytes[2] \in Int
  PROVE  Number(bytes, TRUE) = 256 * bytes[1] + bytes[2]
<1> DEFINE f == [n \in 0..2 |-> IF n = 0 THEN 0 ELSE IF n = 1 THEN bytes[1]
                                ELSE 256 * bytes[1] + bytes[2]]
<1>1. IsNumber(f, 2, bytes, TRUE)
  <2>1. ASSUME NEW n \in 0..2
        PROVE  f[n] = IF n = 0 THEN 0 ELSE 256 * f[n - 1] + bytes[IF TRUE THEN n ELSE 2 + 1 - n]
    <3>1. CASE n = 0
      BY <3>1
    <3>2. CASE n = 1
      BY <3>2
    <3>3. CASE n = 2
      BY <3>3
    <3>4. QED
      BY <3>1, <3>2, <3>3
  <2>2. f = [n \in 0..2 |-> f[n]]
    OBVIOUS
  <2> HIDE DEF f
  <2>3. QED
    BY <2>1, <2>2 DEF IsNumber
<1>2. PICK g : IsNumber(g, 2, bytes, TRUE) /\ Number(bytes, TRUE) = g[2]
  <2> HIDE DEF f
  <2> QED BY <1>1, NumberIs
<1>3. g[0] = 0
  BY <1>2 DEF IsNumber
<1>4. \A n \in 1..2 : g[n] = 256 * g[n - 1] + bytes[n]
  BY <1>2 DEF IsNumber
<1>5. g[1] = 256 * g[0] + bytes[1] /\ g[2] = 256 * g[1] + bytes[2]
  BY <1>4
<1>6. g[2] = 256 * bytes[1] + bytes[2]
  BY <1>3, <1>5
<1>7. QED
  BY <1>2, <1>6, Zenon

\* A register of two whole bytes, which hold n in two's complement.
WordAt(field, data, n) ==
  /\ field.bits = 16 /\ field.shift = 0 /\ field.xlate = "none"
  /\ field.big \in BOOLEAN /\ field.signed \in BOOLEAN
  /\ field.offset \in Nat /\ field.times \in Int /\ field.bias \in Int
  /\ \E len \in Nat : Piece(data, len, Int) /\ field.offset + 2 <= len
  /\ data[field.offset + 1] = (IF field.big THEN BE(n) ELSE LE(n))[1]
  /\ data[field.offset + 2] = (IF field.big THEN BE(n) ELSE LE(n))[2]

\* The numbers of 16 bits, with or without sign.
WordRange(n, signed) == IF signed THEN -32768 <= n /\ n < 32768 ELSE 0 <= n /\ n < 65536

\* The remainder modulo 2^16.
LEMMA WordBounds ==
  ASSUME NEW n \in Int
  PROVE  0 <= n % 65536 /\ n % 65536 < 65536 /\ n % 65536 \in Int
OBVIOUS

\* A number of 16 bits is its own remainder.
LEMMA WordSame ==
  ASSUME NEW n \in Int, 0 <= n, n < 65536
  PROVE  n % 65536 = n
OBVIOUS

\* A negative one is its two's complement.
LEMMA WordWrapped ==
  ASSUME NEW n \in Int, -32768 <= n, n < 0
  PROVE  n % 65536 = n + 65536
OBVIOUS

\* The lower byte is that of the remainder.
LEMMA LowByte ==
  ASSUME NEW n \in Int, NEW w, w = n % 65536
  PROVE  w % 256 = n % 256
OBVIOUS

\* A word is its two bytes.
LEMMA TwoHalves ==
  ASSUME NEW w \in Int
  PROVE  256 * (w \div 256) + (w % 256) = w /\ w \div 256 \in Int /\ w % 256 \in Int
OBVIOUS

\* The bytes of a number make its two's complement.
LEMMA WordParts ==
  ASSUME NEW n \in Int
  PROVE  /\ U16(n) \div 256 \in Int /\ n % 256 \in Int
         /\ 256 * (U16(n) \div 256) + (n % 256) = U16(n)
<1>1. U16(n) = n % 65536
  BY DEF U16
<1>2. U16(n) \in Int
  BY <1>1, WordBounds
<1>3. U16(n) % 256 = n % 256
  BY <1>1, LowByte
<1>4. 256 * (U16(n) \div 256) + (U16(n) % 256) = U16(n)
      /\ U16(n) \div 256 \in Int /\ U16(n) % 256 \in Int
  BY <1>2, TwoHalves
<1>5. QED
  BY <1>2, <1>3, <1>4

\* The sign is put back.
LEMMA SignIs ==
  ASSUME NEW n \in Int, NEW field, field.bits = 16, field.signed \in BOOLEAN,
         WordRange(n, field.signed)
  PROVE  SignOf(field, U16(n)) = n
<1>1. 16 - 1 = 15 /\ 2^15 = 32768 /\ 2^16 = 65536
  BY SMT
<1>2. CASE field.signed = FALSE
  <2>1. U16(n) = n
    BY <1>2, WordSame DEF WordRange, U16
  <2>2. QED
    BY <1>2, <2>1 DEF SignOf
<1>3. CASE field.signed = TRUE /\ 0 <= n
  <2>1. n < 32768
    BY <1>3 DEF WordRange
  <2>2. U16(n) = n
    BY <1>3, <2>1, WordSame DEF U16
  <2>3. 2^(field.bits - 1) = 32768
    BY <1>1
  <2>4. ~ (n >= 2^(field.bits - 1))
    BY <2>1, <2>3
  <2>5. QED
    BY <2>2, <2>4 DEF SignOf
<1>4. CASE field.signed = TRUE /\ n < 0
  <2>1. -32768 <= n
    BY <1>4 DEF WordRange
  <2>2. U16(n) = n + 65536
    BY <1>4, <2>1, WordWrapped DEF U16
  <2>3. 2^(field.bits - 1) = 32768 /\ 2^field.bits = 65536
    BY <1>1
  <2>4. U16(n) >= 2^(field.bits - 1) /\ U16(n) - 2^field.bits = n
    BY <2>1, <2>2, <2>3
  <2>5. QED
    BY <1>4, <2>4 DEF SignOf
<1>5. field.signed = FALSE \/ field.signed = TRUE
  BY Zenon
<1>6. 0 <= n \/ n < 0
  OBVIOUS
<1>7. QED
  BY <1>2, <1>3, <1>4, <1>5, <1>6, Zenon

\* The two bytes are the number, whichever comes first.
LEMMA WordIsNumber ==
  ASSUME NEW field, NEW data, NEW n \in Int, WordAt(field, data, n)
  PROVE  /\ Number(SubSeq(data, field.offset + 1, field.offset + 2), field.big) = U16(n)
         /\ ~ (2 > Len(data) - field.offset)
<1> DEFINE k == field.offset
           bytes == SubSeq(data, k + 1, k + 2)
<1>1. PICK len \in Nat : Piece(data, len, Int) /\ k + 2 <= len
  BY DEF WordAt
<1>2. k \in Nat /\ 2 \in Nat
  BY DEF WordAt
<1>3. Len(bytes) = 2 /\ \A i \in 1..2 : bytes[i] = data[k + i] /\ data[k + i] \in Int
  <2> HIDE DEF k
  <2> QED BY <1>1, <1>2, BytesAt
<1>4. bytes[1] = data[k + 1] /\ bytes[2] = data[k + 2]
  <2> HIDE DEF k, bytes
  <2> QED BY <1>3
<1>5. 256 * (U16(n) \div 256) + (n % 256) = U16(n)
  BY WordParts, Zenon
<1>6. BE(n)[1] = U16(n) \div 256 /\ BE(n)[2] = n % 256
      /\ LE(n)[1] = n % 256 /\ LE(n)[2] = U16(n) \div 256
  BY DEF BE, LE
<1>7. U16(n) \div 256 \in Int /\ n % 256 \in Int
  BY WordParts, Zenon
<1>8. ~ (2 > Len(data) - k)
  BY <1>1, <1>2 DEF Piece
<1>9. CASE field.big = TRUE
  <2>1. bytes[1] = U16(n) \div 256 /\ bytes[2] = n % 256
    BY <1>4, <1>6, <1>9 DEF WordAt
  <2> HIDE DEF bytes
  <2>2. Number(bytes, TRUE) = 256 * bytes[1] + bytes[2]
    <3>1. Len(bytes) = 2 /\ bytes[1] \in Int /\ bytes[2] \in Int
      BY <1>3, <1>7, <2>1
    <3>2. QED
      BY <3>1, TwoBytesBig, Zenon
  <2>3. Number(bytes, TRUE) = U16(n)
    BY <1>5, <1>7, <2>1, <2>2
  <2>4. Number(bytes, field.big) = U16(n)
    BY <1>9, <2>3, Zenon
  <2>5. QED
    BY <2>4, <1>8 DEF bytes, k
<1>10. CASE field.big = FALSE
  <2>1. bytes[1] = n % 256 /\ bytes[2] = U16(n) \div 256
    BY <1>4, <1>6, <1>10 DEF WordAt
  <2> HIDE DEF bytes
  <2>2. Number(bytes, FALSE) = bytes[1] + 256 * bytes[2]
    <3>1. Len(bytes) = 2 /\ bytes[1] \in Int /\ bytes[2] \in Int
      BY <1>3, <1>7, <2>1
    <3>2. QED
      BY <3>1, TwoBytes, Zenon
  <2>3. Number(bytes, FALSE) = U16(n)
    <3>1. Number(bytes, FALSE) = (n % 256) + 256 * (U16(n) \div 256)
      BY <2>1, <2>2, Zenon
    <3>2. (n % 256) + 256 * (U16(n) \div 256) = 256 * (U16(n) \div 256) + (n % 256)
      BY <1>7
    <3>3. QED
      BY <1>5, <3>1, <3>2, Zenon
  <2>4. Number(bytes, field.big) = U16(n)
    BY <1>10, <2>3, Zenon
  <2>5. QED
    BY <2>4, <1>8 DEF bytes, k
<1>11. field.big \in BOOLEAN
  BY DEF WordAt
<1>12. QED
  BY <1>9, <1>10, <1>11

\* _load_number gives back what two bytes hold, whatever the driver's table says of
\* their order, sign, factor and bias, unless it is the marker for no value.
THEOREM WordIsRead ==
  ASSUME NEW field, NEW data, NEW n \in Int, WordAt(field, data, n), WordRange(n, field.signed),
         field.inval = NoMark \/ n * field.times + field.bias # field.inval * field.scale
  PROVE  LoadNumber(field, data) = <<n * field.times + field.bias>>
<1> DEFINE raw == (Number(SubSeq(data, field.offset + 1, field.offset + 2), field.big)
                     \div 2^field.shift) % 2^field.bits
           value == Translated(field.xlate, SignOf(field, raw) * field.times + field.bias)
<1>1. U16(n) \in Int /\ 0 <= U16(n) /\ U16(n) < 65536
  BY WordBounds DEF U16
<1>2. (16 + 0 + 7) \div 8 = 2
  BY SMT
<1>3. raw = U16(n)
  <2>1. field.shift = 0 /\ field.bits = 16
    BY DEF WordAt
  <2>2. Number(SubSeq(data, field.offset + 1, field.offset + 2), field.big) = U16(n)
    BY WordIsNumber
  <2>3. (U16(n) \div 2^0) % 2^16 = U16(n)
    <3> DEFINE w == U16(n)
    <3>1. w \in Int /\ 0 <= w /\ w < 65536
      BY <1>1
    <3> HIDE DEF w
    <3>2. w % 65536 = w
      BY <3>1, WordSame
    <3>3. w \div 2^0 = w /\ 2^16 = 65536
      BY <3>1
    <3>4. (w \div 2^0) % 2^16 = w
      BY <3>2, <3>3
    <3>5. QED
      BY <3>4 DEF w
  <2>4. QED
    BY <2>1, <2>2, <2>3, Zenon
<1> HIDE DEF raw
<1>4. SignOf(field, raw) = n
  BY <1>3, SignIs DEF WordAt
<1>5. n * field.times \in Int /\ field.bias \in Int
  BY DEF WordAt
<1>6. value = n * field.times + field.bias
  <2>1. field.xlate = "none"
    BY DEF WordAt
  <2>2. \A x : Translated("none", x) = x
    BY DEF Translated
  <2>3. QED
    BY <1>4, <2>1, <2>2, Zenon
<1> HIDE DEF value
<1>7. (field.bits + field.shift + 7) \div 8 = 2
  BY <1>2, Zenon DEF WordAt
<1>8. ~ (2 > Len(data) - field.offset)
  BY WordIsNumber
<1>9. ~ (field.inval # NoMark /\ value = field.inval * field.scale)
  BY <1>6, Zenon
<1>10. LoadNumber(field, data) = <<value>>
  BY <1>7, <1>8, <1>9, Zenon DEF LoadNumber, raw, value
<1>11. QED
  BY <1>6, <1>10, Zenon

\* What the second and third bytes of a frame are.
Begins(s, x, y) == /\ \E len \in Nat : 3 <= len /\ Piece(s, len, Int)
                   /\ s[2] = x /\ s[3] = y
\* Any bytes.
IsPart(s) == \E len \in Nat : Piece(s, len, Int)

\* They stay when more follows.
LEMMA BeginsJoin ==
  ASSUME NEW s, NEW t, NEW x, NEW y, Begins(s, x, y), IsPart(t)
  PROVE  Begins(Join(s, t), x, y)
<1>1. PICK m \in Nat : 3 <= m /\ Piece(s, m, Int)
  BY DEF Begins
<1>2. PICK n \in Nat : Piece(t, n, Int)
  BY DEF IsPart
<1>3. m + n \in Nat /\ 3 <= m + n /\ 2 \in 1..m + n /\ 3 \in 1..m + n /\ 2 <= m
  BY <1>1
<1>4. Piece(Join(s, t), m + n, Int)
  BY <1>1, <1>2, JoinPart
<1>5. \A i \in 1..m + n : Join(s, t)[i] = IF i <= m THEN s[i] ELSE t[i - m]
  BY <1>1, <1>2, JoinAt
<1>6. Join(s, t)[2] = s[2] /\ Join(s, t)[3] = s[3]
  BY <1>1, <1>3, <1>5
<1>7. QED
  BY <1>3, <1>4, <1>6, Zenon DEF Begins

\* A word as a piece of a frame.
LEMMA WordPart ==
  ASSUME NEW n \in Int
  PROVE  Piece(BE(n), 2, Int) /\ BE(n)[1] = U16(n) \div 256 /\ BE(n)[2] = n % 256
<1> DEFINE a == U16(n) \div 256
           b == n % 256
<1>1. a \in Int /\ b \in Int
  BY WordParts, Zenon
<1>2. BE(n) = <<a, b>>
  BY DEF BE
<1> HIDE DEF a, b
<1>3. Piece(<<a, b>>, 2, Int)
  BY <1>1 DEF Piece
<1>4. QED
  BY <1>2, <1>3 DEF a, b

\* Every word is one.
LEMMA WordPiece == \A n \in Int : Piece(BE(n), 2, Int)
<1>1. ASSUME NEW n \in Int PROVE Piece(BE(n), 2, Int)
  BY WordPart, Zenon
<1>2. QED
  BY <1>1

\* A frame of one byte and a number.
LEMMA HeadBegins ==
  ASSUME NEW first \in Int, NEW n \in Int
  PROVE  Begins(Join(<<first>>, BE(n)), U16(n) \div 256, n % 256)
<1>1. Piece(<<first>>, 1, Int)
  BY DEF Piece
<1>2. Piece(BE(n), 2, Int) /\ BE(n)[1] = U16(n) \div 256 /\ BE(n)[2] = n % 256
  BY WordPart, Zenon
<1>3. 1 + 2 = 3 /\ 3 \in Nat /\ 2 \in 1..1 + 2 /\ 3 \in 1..1 + 2 /\ ~ (2 <= 1) /\ ~ (3 <= 1)
      /\ 2 - 1 = 1 /\ 3 - 1 = 2 /\ 3 <= 3
  OBVIOUS
<1> DEFINE w == BE(n)
<1> HIDE DEF w
<1>4. Piece(w, 2, Int)
  BY <1>2 DEF w
<1>5. Piece(Join(<<first>>, w), 1 + 2, Int)
  BY <1>1, <1>4, JoinPart, Zenon
<1>6. \A i \in 1..1 + 2 :
        Join(<<first>>, w)[i] = IF i <= 1 THEN <<first>>[i] ELSE w[i - 1]
  BY <1>1, <1>4, JoinAt
<1>7. Join(<<first>>, w)[2] = w[2 - 1] /\ Join(<<first>>, w)[3] = w[3 - 1]
  BY <1>3, <1>6
<1>8. QED
  BY <1>2, <1>3, <1>5, <1>7, Zenon DEF Begins, w

\* The temperature register of both Ruuvi formats.
RuuviTemperature == Marked(Scaled(Signed(Big(Reg("Temperature", 1, 16, Air))), 200), 32768)

\* The temperature of any frame that has it in its second and third bytes.
LEMMA TemperatureIs ==
  ASSUME NEW data, NEW n \in Int, WordRange(n, TRUE), Begins(data, U16(n) \div 256, n % 256)
  PROVE  LoadNumber(RuuviTemperature, data) = <<n>>
<1> DEFINE field == RuuviTemperature
<1>1. /\ field.bits = 16 /\ field.shift = 0 /\ field.xlate = "none"
      /\ field.big = TRUE /\ field.signed = TRUE
      /\ field.offset = 1 /\ field.times = 1 /\ field.bias = 0
  BY DEF RuuviTemperature, Marked, Scaled, Signed, Big, Reg
<1>2. BE(n)[1] = U16(n) \div 256 /\ BE(n)[2] = n % 256
  BY WordPart, Zenon
<1>3. n * 1 + 0 = n /\ n # 32768 * 200
  <2>1. n < 32768
    BY DEF WordRange
  <2>2. QED
    BY <2>1
<1>4. n * field.times + field.bias = n
  BY <1>1, <1>3
<1>5. field.inval * field.scale = 32768 * 200
  BY DEF RuuviTemperature, Marked, Scaled, Signed, Big, Reg
<1> HIDE DEF field
<1>6. WordAt(field, data, n)
  <2>1. PICK len \in Nat : 3 <= len /\ Piece(data, len, Int)
    BY DEF Begins
  <2>2. 1 + 2 <= len /\ 1 + 1 = 2 /\ 1 + 2 = 3 /\ 1 \in Nat /\ 1 \in Int /\ 0 \in Int
    BY <2>1
  <2>3. data[2] = BE(n)[1] /\ data[3] = BE(n)[2]
    BY <1>2, Zenon DEF Begins
  <2>4. field.big \in BOOLEAN /\ field.signed \in BOOLEAN
    BY <1>1, Zenon
  <2>5. (IF field.big THEN BE(n) ELSE LE(n)) = BE(n)
    BY <1>1, Zenon
  <2>6. QED
    BY <1>1, <2>1, <2>2, <2>3, <2>4, <2>5, Zenon DEF WordAt
<1>7. WordRange(n, field.signed)
  BY <1>1, Zenon
<1>8. n * field.times + field.bias # field.inval * field.scale
  BY <1>3, <1>4, <1>5
<1>9. LoadNumber(field, data) = <<n * field.times + field.bias>>
  BY <1>6, <1>7, <1>8, WordIsRead
<1>10. QED
  BY <1>4, <1>9 DEF field

\* A Ruuvi's temperature is read from either format whatever it is, and the marker for a
\* temperature that is not available is no exception: it is shown as -163.84 degrees.
THEOREM RuuviTemperatureIsRead ==
  ASSUME NEW u, u.temp \in Int, WordRange(u.temp, TRUE)
  PROVE  /\ RuuviTemperature \in Ruuvi5Regs /\ RuuviTemperature \in Ruuvi6Regs
         /\ u.hum \in Int /\ u.press \in Int /\ u.acc \in Int /\ u.batt \in Int
            /\ u.count \in Int => LoadNumber(RuuviTemperature, Ruuvi5Frame(u)) = <<u.temp>>
         /\ u.co2 \in Int /\ u.voc \in Int /\ u.lum \in Int =>
              LoadNumber(RuuviTemperature, Ruuvi6Frame(u)) = <<u.temp>>
<1> DEFINE n == u.temp
           hi == U16(n) \div 256
           lo == n % 256
<1>1. n \in Int /\ WordRange(n, TRUE)
  BY Zenon
<1> HIDE DEF n
<1>2. \A m \in Int : IsPart(BE(m))
  <2>1. ASSUME NEW m \in Int PROVE IsPart(BE(m))
    <3>1. Piece(BE(m), 2, Int)
      BY WordPiece
    <3>2. QED
      BY <3>1 DEF IsPart
  <2>2. QED
    BY <2>1
<1>3. \A m \in Int : IsPart(<<m>>)
  BY DEF IsPart, Piece
<1>4. \A k \in Nat : IsPart(Zeros(k))
  <2>1. ASSUME NEW k \in Nat PROVE IsPart(Zeros(k))
    <3>1. Zeros(k) \in Seq(Int) /\ Len(Zeros(k)) = k
      BY DEF Zeros
    <3> DEFINE z == Zeros(k)
    <3> HIDE DEF z
    <3>2. z \in Seq(Int) /\ Len(z) = k
      BY <3>1 DEF z
    <3>3. Piece(z, k, Int)
      BY <3>2 DEF Piece
    <3>4. IsPart(z)
      BY <3>3 DEF IsPart
    <3>5. QED
      BY <3>4 DEF z
  <2>2. QED
    BY <2>1
<1>5. \A s, t, x, y : Begins(s, x, y) /\ IsPart(t) => Begins(Join(s, t), x, y)
  BY BeginsJoin
<1>6. \A first \in Int : Begins(Join(<<first>>, BE(n)), hi, lo)
  BY <1>1, HeadBegins
<1> HIDE DEF hi, lo
<1>7. ASSUME u.hum \in Int, u.press \in Int, u.acc \in Int, u.batt \in Int, u.count \in Int
      PROVE  Begins(Ruuvi5Frame(u), hi, lo)
  <2> DEFINE s1 == Join(<<5>>, BE(n))
             s2 == Join(s1, BE(u.hum))
             s3 == Join(s2, BE(u.press))
             s4 == Join(s3, BE(u.acc))
             s5 == Join(s4, BE(-u.acc))
             s6 == Join(s5, BE(1000))
             s7 == Join(s6, BE(32 * u.batt + 22))
             s8 == Join(s7, <<u.count>>)
             s9 == Join(s8, BE(u.count))
             s10 == Join(s9, Zeros(6))
  <2>1. Ruuvi5Frame(u) = s10
    BY DEF Ruuvi5Frame, Join, n
  <2>2. -u.acc \in Int /\ 1000 \in Int /\ 32 * u.batt + 22 \in Int /\ 5 \in Int /\ 6 \in Nat
    BY <1>7
  <2>3. /\ IsPart(BE(u.hum)) /\ IsPart(BE(u.press)) /\ IsPart(BE(u.acc)) /\ IsPart(BE(-u.acc))
        /\ IsPart(BE(1000)) /\ IsPart(BE(32 * u.batt + 22)) /\ IsPart(<<u.count>>)
        /\ IsPart(BE(u.count)) /\ IsPart(Zeros(6))
    BY <1>2, <1>3, <1>4, <1>7, <2>2
  <2>4. Begins(s1, hi, lo)
    BY <1>6
  <2> HIDE DEF s1
  <2>5. Begins(s2, hi, lo)
    BY <1>5, <2>3, <2>4
  <2> HIDE DEF s2
  <2>6. Begins(s3, hi, lo)
    BY <1>5, <2>3, <2>5
  <2> HIDE DEF s3
  <2>7. Begins(s4, hi, lo)
    BY <1>5, <2>3, <2>6
  <2> HIDE DEF s4
  <2>8. Begins(s5, hi, lo)
    BY <1>5, <2>3, <2>7
  <2> HIDE DEF s5
  <2>9. Begins(s6, hi, lo)
    BY <1>5, <2>3, <2>8
  <2> HIDE DEF s6
  <2>10. Begins(s7, hi, lo)
    BY <1>5, <2>3, <2>9
  <2> HIDE DEF s7
  <2>11. Begins(s8, hi, lo)
    BY <1>5, <2>3, <2>10
  <2> HIDE DEF s8
  <2>12. Begins(s9, hi, lo)
    BY <1>5, <2>3, <2>11
  <2> HIDE DEF s9
  <2>13. Begins(s10, hi, lo)
    BY <1>5, <2>3, <2>12
  <2> HIDE DEF s10
  <2>14. QED
    BY <2>1, <2>13
<1>8. ASSUME u.co2 \in Int, u.voc \in Int, u.lum \in Int
      PROVE  Begins(Ruuvi6Frame(u), hi, lo)
  <2> DEFINE last == <<u.voc \div 2, 0, u.lum, 0, 7, 64 * (u.voc % 2)>>
             s1 == Join(<<6>>, BE(n))
             s2 == Join(s1, BE(20000))
             s3 == Join(s2, BE(51300))
             s4 == Join(s3, BE(90))
             s5 == Join(s4, BE(u.co2))
             s6 == Join(s5, last)
             s7 == Join(s6, Zeros(3))
  <2>1. Ruuvi6Frame(u) = s7
    BY DEF Ruuvi6Frame, Join, n
  <2>2. u.voc \div 2 \in Int /\ 64 * (u.voc % 2) \in Int
    BY <1>8
  <2>3. IsPart(last)
    <3> DEFINE a == u.voc \div 2
               b == 64 * (u.voc % 2)
               c == u.lum
    <3>1. a \in Int /\ b \in Int /\ c \in Int
      BY <1>8, <2>2
    <3> HIDE DEF a, b, c
    <3>2. <<a, 0, c, 0, 7, b>> \in Seq(Int) /\ Len(<<a, 0, c, 0, 7, b>>) = 6 /\ 6 \in Nat
      BY <3>1
    <3>3. QED
      BY <3>2 DEF IsPart, Piece, a, b, c
  <2>4. /\ IsPart(BE(20000)) /\ IsPart(BE(51300)) /\ IsPart(BE(90)) /\ IsPart(BE(u.co2))
        /\ IsPart(Zeros(3))
    BY <1>2, <1>4, <1>8
  <2> HIDE DEF last
  <2>5. Begins(s1, hi, lo)
    BY <1>6
  <2> HIDE DEF s1
  <2>6. Begins(s2, hi, lo)
    BY <1>5, <2>4, <2>5
  <2> HIDE DEF s2
  <2>7. Begins(s3, hi, lo)
    BY <1>5, <2>4, <2>6
  <2> HIDE DEF s3
  <2>8. Begins(s4, hi, lo)
    BY <1>5, <2>4, <2>7
  <2> HIDE DEF s4
  <2>9. Begins(s5, hi, lo)
    BY <1>5, <2>4, <2>8
  <2> HIDE DEF s5
  <2>10. Begins(s6, hi, lo)
    BY <1>5, <2>3, <2>9
  <2> HIDE DEF s6
  <2>11. Begins(s7, hi, lo)
    BY <1>5, <2>4, <2>10
  <2> HIDE DEF s7
  <2>12. QED
    BY <2>1, <2>11
<1>9. \A data : Begins(data, hi, lo) => LoadNumber(RuuviTemperature, data) = <<n>>
  BY <1>1, TemperatureIs, Zenon DEF hi, lo
<1>10. RuuviTemperature \in Ruuvi5Regs /\ RuuviTemperature \in Ruuvi6Regs
  BY SMT DEF RuuviTemperature, Ruuvi5Regs, Ruuvi6Regs
<1>11. QED
  BY <1>7, <1>8, <1>9, <1>10 DEF n

=================================================================================
