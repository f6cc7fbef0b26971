--------------------------- MODULE ScanControlProofs ---------------------------
(***************************************************************************)
(* Theorems about ScanControl for every set of cards and every choice of   *)
(* outcomes.  The lemmas say what one pass of _apply_rotation returns; the *)
(* theorems follow by going through the actions of Next.                   *)
(***************************************************************************)
EXTENDS ScanControl, WellFoundedInduction, TLAPS

\* sorted() of a non-empty set of keys has a first element.
LEMMA FirstIn ==
  ASSUME NEW S \in SUBSET Card, S # {}
  PROVE  First(S) \in S
<1>1. \E c \in S : \A d \in S : c <= d
  <2>1. S \subseteq Nat
    BY CardAssumption
  <2>2. IsWellFoundedOn(OpToRel(<, Nat), Nat)
    BY NatLessThanWellFounded
  <2>3. PICK c \in S : \A d \in S : ~ (<<d, c>> \in OpToRel(<, Nat))
    BY <2>1, <2>2, WFMin
  <2>4. \A d \in S : ~ (d < c)
    BY <2>1, <2>3 DEF OpToRel
  <2>5. QED
    BY <2>1, <2>4
<1>2. QED
  BY <1>1 DEF First

\* The card that takes the role is one of the cards rotated over.
LEMMA RoleHolderIn ==
  ASSUME NEW cards \in SUBSET Card, cards # {}, NEW from, NEW advance
  PROVE  RoleHolder(cards, from, advance) \in cards
<1>1. First(cards) \in cards
  BY FirstIn
<1>2. NextCard(cards, from) \in cards
  <2>1. CASE After(cards, from) = {}
    BY <1>1, <2>1 DEF NextCard
  <2>2. CASE After(cards, from) # {}
    <3>1. After(cards, from) \in SUBSET Card /\ After(cards, from) \subseteq cards
      BY DEF After
    <3>2. First(After(cards, from)) \in After(cards, from)
      BY <3>1, <2>2, FirstIn
    <3>3. QED
      BY <3>1, <3>2, <2>2 DEF NextCard
  <2>3. QED
    BY <2>1, <2>2
<1>3. QED
  BY <1>1, <1>2 DEF RoleHolder

\* What hold() leaves for the cards in done: a claim of either kind or a failure,
\* a hard claim where there was one; other cards keep what they have.
LEMMA ClaimsAfterShape ==
  ASSUME NEW held \in [Card -> ClaimKind], NEW done \in SUBSET Card,
         NEW k \in ClaimsAfter(held, done)
  PROVE  /\ k \in [Card -> ClaimKind]
         /\ \A c \in Card : /\ c \in done => k[c] # "none"
                            /\ c \notin done => k[c] = held[c]
                            /\ held[c] = "hard" => k[c] = "hard"
<1>1. PICK failed :
        k = [c \in Card |-> IF c \notin Unsettled(held, done) THEN held[c]
                            ELSE IF c \in failed THEN "failed" ELSE Claimed(c)]
  BY DEF ClaimsAfter
<1>2. \A c \in Card : Claimed(c) \in {"soft", "hard"}
  BY DEF Claimed
<1>3. k \in [Card -> ClaimKind]
  BY <1>1, <1>2 DEF ClaimKind
<1>4. ASSUME NEW c \in Card
      PROVE  /\ c \in done => k[c] # "none"
             /\ c \notin done => k[c] = held[c]
             /\ held[c] = "hard" => k[c] = "hard"
  <2>1. CASE c \in Unsettled(held, done)
    <3>1. k[c] \in {"failed", "soft", "hard"}
      BY <1>1, <1>2, <2>1
    <3>2. c \in done /\ held[c] # "hard"
      BY <2>1 DEF Unsettled, Settled
    <3>3. QED
      BY <3>1, <3>2
  <2>2. CASE c \notin Unsettled(held, done)
    <3>1. k[c] = held[c]
      BY <1>1, <2>2
    <3>2. c \in done => held[c] = "hard"
      BY <2>2 DEF Unsettled, Settled
    <3>3. QED
      BY <3>1, <3>2
  <2>3. QED
    BY <2>1, <2>2
<1>5. QED
  BY <1>3, <1>4

\* The two halves of MarkersBacked, for any markers, claims and cards.
Backed(marked, held) == \A c \in marked : held[c] # "none"
Within(held, cards) == \A c \in Card : held[c] # "none" => c \in cards

\* What a pass of _apply_rotation returns: sets of cards, the role on a known
\* card if there is one, every new marker with its claim, no claim dropped for
\* nothing and no hard one at all, and no claim on a card that was not visited.
Kept(k, held) ==
  \A c \in Card : /\ held[c] = "hard" => k[c] = "hard"
                  /\ held[c] # "none" => k[c] # "none"

Shape(o, cards, marked, held) ==
  /\ o.active \in Card \cup {NoCard}
  /\ cards # {} => o.active \in cards
  /\ cards = {} => o.active = NoCard
  /\ o.scanning \in SUBSET Card
  /\ o.enabled \subseteq marked \cup cards
  /\ o.claims \in [Card -> ClaimKind]
  /\ Kept(o.claims, held)
  /\ Within(held, cards) => Within(o.claims, cards)
  /\ Backed(marked, held) => Backed(o.enabled, o.claims)
  /\ o.raised \in BOOLEAN

\* Claims taken for the cards in done keep the others, stay within the cards of
\* the pass, and back the markers set for cards in done.
LEMMA TakenKept ==
  ASSUME NEW held \in [Card -> ClaimKind], NEW done \in SUBSET Card,
         NEW k \in ClaimsAfter(held, done)
  PROVE  k \in [Card -> ClaimKind] /\ Kept(k, held)
<1>1. /\ k \in [Card -> ClaimKind]
      /\ \A c \in Card : /\ c \in done => k[c] # "none"
                         /\ c \notin done => k[c] = held[c]
                         /\ held[c] = "hard" => k[c] = "hard"
  BY ClaimsAfterShape
<1>2. QED
  BY <1>1 DEF Kept

LEMMA TakenWithin ==
  ASSUME NEW held \in [Card -> ClaimKind], NEW done \in SUBSET Card,
         NEW k \in ClaimsAfter(held, done),
         NEW cards, done \subseteq cards, Within(held, cards)
  PROVE  Within(k, cards)
<1>1. \A c \in Card : c \notin done => k[c] = held[c]
  BY ClaimsAfterShape
<1>2. QED
  BY <1>1 DEF Within

LEMMA TakenBacked ==
  ASSUME NEW held \in [Card -> ClaimKind], NEW done \in SUBSET Card,
         NEW k \in ClaimsAfter(held, done),
         NEW marked \in SUBSET Card, Backed(marked, held)
  PROVE  Backed(marked \cup done, k)
<1>1. \A c \in Card : (c \in done => k[c] # "none") /\ (c \notin done => k[c] = held[c])
  BY ClaimsAfterShape
<1>2. QED
  BY <1>1 DEF Backed

LEMMA RotationShape ==
  ASSUME NEW cards \in SUBSET Card, NEW from, NEW advance,
         NEW on \in SUBSET Card, NEW marked \in SUBSET Card,
         NEW held \in [Card -> ClaimKind],
         NEW o \in Rotations(cards, from, advance, on, marked, held)
  PROVE  Shape(o, cards, marked, held)
<1>1. CASE cards = {}
  <2>1. o = Unchanged(NoCard, on, marked, held)
    BY <1>1 DEF Rotations
  <2>2. /\ o.active = NoCard /\ o.scanning = on
        /\ o.enabled = marked /\ o.claims = held
    BY <2>1 DEF Unchanged
  <2>3. o.raised \in BOOLEAN
    BY <2>1 DEF Unchanged
  <2>4. QED
    BY <1>1, <2>2, <2>3 DEF Shape, Kept
<1>2. CASE cards # {}
  <2> DEFINE role == RoleHolder(cards, from, advance)
  <2>1. role \in cards
    BY <1>2, RoleHolderIn
  <2>2. PICK rep \in Replies(cards, role) :
               o \in RotationResults(cards, role, rep, on, marked, held)
    BY <1>2 DEF Rotations
  <2> DEFINE done == Succeeded(cards, rep)
  <2>3. Visited(cards, rep) \subseteq cards /\ done \subseteq cards
    BY DEF Visited, Succeeded
  <2>4. PICK k \in ClaimsAfter(held, done) :
          o = [active |-> role,
               scanning |-> ScanningAfter(Visited(cards, rep), rep, on),
               enabled |-> (marked \ (done \ {role})) \cup (done \cap {role}),
               claims |-> k,
               raised |-> \E c \in cards : rep[c].res = "raise"]
    BY <2>2 DEF RotationResults
  <2>5. /\ o.active = role
        /\ o.scanning = ScanningAfter(Visited(cards, rep), rep, on)
        /\ o.enabled \subseteq marked \cup done
        /\ o.claims = k
    BY <2>4
  <2>6. o.raised \in BOOLEAN
    BY <2>4
  <2>7. o.scanning \in SUBSET Card
    BY <2>3, <2>5 DEF ScanningAfter
  <2>8. /\ o.claims \in [Card -> ClaimKind]
        /\ Kept(o.claims, held)
        /\ Within(held, cards) => Within(o.claims, cards)
        /\ Backed(marked, held) => Backed(o.enabled, o.claims)
    <3>1. done \in SUBSET Card /\ done \subseteq cards
      BY <2>3
    <3> HIDE DEF done
    <3>2. k \in [Card -> ClaimKind] /\ Kept(k, held)
      BY <2>4, <3>1, TakenKept
    <3>3. Within(held, cards) => Within(k, cards)
      BY <2>4, <3>1, TakenWithin
    <3>4. Backed(marked, held) => Backed(marked \cup done, k)
      BY <2>4, <3>1, TakenBacked
    <3>5. Backed(marked \cup done, k) => Backed(o.enabled, k)
      BY <2>5 DEF Backed
    <3>6. QED
      BY <2>5, <3>2, <3>3, <3>4, <3>5
  <2>9. QED
    BY <1>2, <2>1, <2>3, <2>5, <2>6, <2>7, <2>8 DEF Shape
<1>3. QED
  BY <1>1, <1>2

(***************************************************************************)
(* The inductive invariant.  RoleIsKnown and MarkersBacked are inductive   *)
(* together with the types: no action looks at more of the state than      *)
(* these conjuncts describe.                                               *)
(***************************************************************************)
StructInv == TypeOK /\ RoleIsKnown /\ MarkersBacked

\* MarkersBacked in the words of the lemmas.
LEMMA MarkersBackedHalves ==
  MarkersBacked <=> Backed(enabled, claims) /\ Within(claims, adapters)
BY DEF MarkersBacked, Backed, Within

\* A result of a rotation over the known cards can be installed as it is.
LEMMA BecomeKeeps ==
  ASSUME TypeOK', NEW o, NEW marked, NEW held,
         Shape(o, adapters', marked, held), Become(o),
         Backed(marked, held), Within(held, adapters')
  PROVE  RoleIsKnown' /\ MarkersBacked'
<1>1. /\ adapters' # {} => active' \in adapters'
      /\ adapters' = {} => active' = NoCard
  BY DEF Shape, Become
<1>2. Backed(enabled', claims') /\ Within(claims', adapters')
  BY DEF Shape, Become
<1>3. NoCard \notin adapters'
  BY CardAssumption DEF TypeOK
<1>4. MarkersBacked'
  BY <1>2 DEF MarkersBacked, Backed, Within
<1>5. QED
  BY <1>1, <1>3, <1>4 DEF RoleIsKnown

\* The types of what Become installs.
RadioTypes ==
  /\ active \in Card \cup {NoCard}
  /\ scanning \in SUBSET Card /\ enabled \in SUBSET Card
  /\ claims \in [Card -> ClaimKind]

LEMMA BecomeTypes ==
  ASSUME NEW cards \in SUBSET Card, NEW marked \in SUBSET Card, NEW held,
         NEW o, Shape(o, cards, marked, held), Become(o)
  PROVE  RadioTypes'
BY DEF Shape, Become, RadioTypes

LEMMA TimersType ==
  ASSUME NEW t, NEW raised \in BOOLEAN, timers \in SUBSET TimerName
  PROVE  TimersAfter(t, raised) \in SUBSET TimerName
BY DEF TimersAfter

LEMMA RotationTickStep ==
  ASSUME StructInv, RotationTick
  PROVE  StructInv'
<1> USE DEF StructInv
<1>1. PICK o \in Rotations(adapters, active, TRUE, scanning, enabled, claims) :
             Become(o) /\ timers' = TimersAfter("rotation", o.raised)
  BY DEF RotationTick
<1>2. Shape(o, adapters, enabled, claims)
  BY <1>1, RotationShape DEF TypeOK
<1>3. RadioTypes'
  BY <1>1, <1>2, BecomeTypes DEF TypeOK
<1>4. timers' \in SUBSET TimerName
  BY <1>1, <1>2, TimersType DEF TypeOK, Shape
<1>5. UNCHANGED <<up, present, rivals, adapters, throttled, tap, rx, warned>>
  BY DEF RotationTick, env, listener
<1>6. TypeOK'
  BY <1>3, <1>4, <1>5 DEF TypeOK, RadioTypes
<1>7. QED
  BY <1>1, <1>2, <1>5, <1>6, BecomeKeeps, MarkersBackedHalves

LEMMA InterfacesAddedStep ==
  ASSUME StructInv, NEW c \in Card, InterfacesAdded(c)
  PROVE  StructInv'
<1> USE DEF StructInv
<1>1. /\ adapters' = adapters \cup {c} /\ adapters' \in SUBSET Card
      /\ UNCHANGED <<up, present, rivals, throttled, timers, tap, rx, warned>>
  BY DEF InterfacesAdded, env, listener, TypeOK
<1>2. CASE ~throttled
  <2>1. PICK o \in Rotations(adapters', active, FALSE, scanning, enabled, claims) : Become(o)
    BY <1>2 DEF InterfacesAdded, MayRotate
  <2>2. Shape(o, adapters', enabled, claims)
    BY <1>1, <2>1, RotationShape DEF TypeOK
  <2>3. RadioTypes'
    BY <1>1, <2>1, <2>2, BecomeTypes DEF TypeOK
  <2>4. TypeOK'
    BY <1>1, <2>3 DEF TypeOK, RadioTypes
  <2>5. QED
    <3>1. Within(claims, adapters')
      BY <1>1, MarkersBackedHalves DEF Within
    <3>2. QED
      BY <1>1, <2>1, <2>2, <2>4, <3>1, BecomeKeeps, MarkersBackedHalves
<1>3. CASE throttled
  <2>1. UNCHANGED <<active, scanning, enabled, claims>>
    BY <1>3 DEF InterfacesAdded, MayRotate, radio
  <2>2. QED
    BY <1>1, <1>3, <2>1 DEF TypeOK, RoleIsKnown, MarkersBacked
<1>4. QED
  BY <1>2, <1>3 DEF TypeOK

LEMMA InterfacesRemovedStep ==
  ASSUME StructInv, NEW c \in Card, InterfacesRemoved(c)
  PROVE  StructInv'
<1> USE DEF StructInv
<1> DEFINE role == RoleAfterRemoval(c)
           marked == Forget(enabled, c)
           held == Released(claims, c)
<1>1. /\ adapters' = adapters \ {c} /\ adapters' \in SUBSET Card
      /\ UNCHANGED <<up, present, rivals, throttled, timers, tap, rx, warned>>
  BY DEF InterfacesRemoved, Forget, env, listener, TypeOK
<1>2. /\ marked \in SUBSET Card /\ held \in [Card -> ClaimKind]
      /\ Backed(marked, held) /\ Within(held, adapters')
  BY <1>1 DEF Forget, Released, ClaimKind, TypeOK, MarkersBacked, Backed, Within
<1>3. role \in Card \cup {NoCard} /\ (role = active => active # c)
  BY CardAssumption DEF RoleAfterRemoval, TypeOK
<1>4. PICK on \in SUBSET Card :
             IF role = active \/ ~MayRotate
               THEN Become(Unchanged(role, on, marked, held))
               ELSE \E o \in Rotations(adapters', role, FALSE, on, marked, held) : Become(o)
  <2>1. PICK r \in ReplyFor(c, FALSE) :
               LET on == IF r.on THEN scanning ELSE scanning \ {c}
               IN IF role = active \/ ~MayRotate
                    THEN Become(Unchanged(role, on, marked, held))
                    ELSE \E o \in Rotations(adapters', role, FALSE, on, marked, held) : Become(o)
    BY DEF InterfacesRemoved
  <2>2. (IF r.on THEN scanning ELSE scanning \ {c}) \in SUBSET Card
    BY DEF TypeOK
  <2>3. QED
    BY <2>1, <2>2
<1>5. CASE role = active \/ ~MayRotate
  <2>1. active' = role /\ scanning' = on /\ enabled' = marked /\ claims' = held
    BY <1>4, <1>5 DEF Become, Unchanged
  <2>2. TypeOK'
    BY <1>1, <1>2, <1>3, <2>1 DEF TypeOK
  <2>3. active' # NoCard => active' \in adapters'
    BY <1>1, <2>1 DEF RoleAfterRemoval, RoleIsKnown
  <2>4. up' /\ ~throttled' /\ adapters' # {} => active' # NoCard
    BY <1>1, <1>3, <1>5, <2>1 DEF RoleIsKnown, MayRotate, RoleAfterRemoval
  <2>5. MarkersBacked'
    BY <1>2, <2>1 DEF MarkersBacked, Backed, Within
  <2>6. QED
    BY <2>2, <2>3, <2>4, <2>5 DEF RoleIsKnown
<1>6. CASE ~(role = active \/ ~MayRotate)
  <2>1. PICK o \in Rotations(adapters', role, FALSE, on, marked, held) : Become(o)
    BY <1>4, <1>6
  <2>2. Shape(o, adapters', marked, held)
    BY <1>1, <1>2, <2>1, RotationShape
  <2>3. RadioTypes'
    BY <1>1, <1>2, <2>1, <2>2, BecomeTypes
  <2>4. TypeOK'
    BY <1>1, <2>3 DEF TypeOK, RadioTypes
  <2>5. QED
    BY <1>2, <2>1, <2>2, <2>4, BecomeKeeps
<1>7. QED
  BY <1>5, <1>6

LEMMA ReenableShape ==
  ASSUME StructInv, up, ~throttled, NEW o \in Reenables
  PROVE  Shape(o, adapters, enabled, claims)
<1> USE DEF StructInv
<1>1. PICK rep : o \in ReenableResults(rep)
  BY DEF Reenables
<1> DEFINE done == {c \in ReenableCards : rep[c].res = "ok"}
<1>2. PICK k \in ClaimsAfter(claims, done) :
        o = [active |-> active,
             scanning |-> ScanningAfter(ReenableCards, rep, scanning),
             enabled |-> enabled \cup done,
             claims |-> k,
             raised |-> \E c \in ReenableCards : rep[c].res = "raise"]
  BY <1>1 DEF ReenableResults
<1>3. /\ o.active = active
      /\ o.scanning = ScanningAfter(ReenableCards, rep, scanning)
      /\ o.enabled = enabled \cup done
      /\ o.claims = k
  BY <1>2
<1>4. o.raised \in BOOLEAN
  BY <1>2
<1>5. ReenableCards \subseteq adapters /\ done \subseteq adapters
  BY DEF ReenableCards
<1>6. o.scanning \in SUBSET Card
  BY <1>3, <1>5 DEF ScanningAfter, TypeOK
<1>7. /\ o.claims \in [Card -> ClaimKind]
      /\ Kept(o.claims, claims)
      /\ Within(claims, adapters) => Within(o.claims, adapters)
      /\ Backed(enabled, claims) => Backed(o.enabled, o.claims)
  <2>1. /\ done \in SUBSET Card /\ done \subseteq adapters
        /\ claims \in [Card -> ClaimKind] /\ enabled \in SUBSET Card
    BY <1>5 DEF TypeOK
  <2> HIDE DEF done
  <2>2. k \in [Card -> ClaimKind] /\ Kept(k, claims)
    BY <1>2, <2>1, TakenKept
  <2>3. Within(claims, adapters) => Within(k, adapters)
    BY <1>2, <2>1, TakenWithin
  <2>4. Backed(enabled, claims) => Backed(enabled \cup done, k)
    BY <1>2, <2>1, TakenBacked
  <2>5. QED
    BY <1>3, <2>2, <2>3, <2>4
<1>8. /\ active \in Card \cup {NoCard}
      /\ adapters # {} => active \in adapters
      /\ adapters = {} => active = NoCard
  BY DEF TypeOK, RoleIsKnown
<1>9. QED
  BY <1>3, <1>4, <1>5, <1>6, <1>7, <1>8 DEF Shape

\* The re-enable tick and the setting callback install the same result.
LEMMA ReenableStep ==
  ASSUME StructInv, ReenableTick \/ ContinuousScanChanged
  PROVE  StructInv'
<1> USE DEF StructInv
<1>1. /\ up /\ ~throttled
      /\ UNCHANGED <<up, present, rivals, adapters, throttled, tap, rx, warned>>
  BY DEF ReenableTick, ContinuousScanChanged, env, listener
<1>2. PICK o \in Reenables :
             /\ Become(o)
             /\ timers' \in {timers, TimersAfter("reenable", o.raised)}
  BY DEF ReenableTick, ContinuousScanChanged
<1>3. Shape(o, adapters, enabled, claims)
  BY <1>1, ReenableShape
<1>4. RadioTypes'
  BY <1>2, <1>3, BecomeTypes DEF TypeOK
<1>5. timers' \in SUBSET TimerName
  BY <1>2, <1>3, TimersType DEF TypeOK, Shape
<1>6. TypeOK'
  BY <1>1, <1>4, <1>5 DEF TypeOK, RadioTypes
<1>7. QED
  BY <1>1, <1>2, <1>3, <1>6, BecomeKeeps, MarkersBackedHalves

LEMMA TapStartsType ==
  ASSUME rx \in {"never", "recent", "silent"},
         NEW thread \in {"none", "running", "dead"}, NEW t \in TapStarts(thread)
  PROVE  t.tap \in {"none", "running", "dead"} /\ t.rx \in {"never", "recent", "silent"}
BY DEF TapStarts

LEMMA PruneTickStep ==
  ASSUME StructInv, PruneTick
  PROVE  StructInv'
<1> USE DEF StructInv
<1>1. /\ up /\ ~throttled
      /\ UNCHANGED <<up, present, rivals, adapters, throttled>>
  BY DEF PruneTick, env
<1>2. PICK t \in TapAfterWatchdog, o \in ScanRestored :
        LET silence == ~o.raised /\ t.rx = "silent" /\ ~warned
        IN /\ tap' = t.tap /\ rx' = t.rx
           /\ active' = o.active /\ scanning' = o.scanning /\ claims' = o.claims
           /\ enabled' = (IF silence THEN {} ELSE o.enabled)
           /\ warned' = (warned \/ silence)
           /\ timers' = TimersAfter("prune", o.raised)
  BY DEF PruneTick
<1>3. Shape(o, adapters, enabled, claims)
  <2>1. CASE ScanLost
    BY <2>1, RotationShape DEF ScanRestored, TypeOK
  <2>2. CASE ~ScanLost
    <3>1. o = Unchanged(active, scanning, enabled, claims)
      BY <2>2 DEF ScanRestored
    <3>2. /\ o.active = active /\ o.scanning = scanning
          /\ o.enabled = enabled /\ o.claims = claims
      BY <3>1 DEF Unchanged
    <3>3. o.raised \in BOOLEAN
      BY <3>1 DEF Unchanged
    <3>4. /\ adapters # {} => active \in adapters
          /\ adapters = {} => active = NoCard
      BY <1>1 DEF RoleIsKnown
    <3>5. QED
      BY <3>2, <3>3, <3>4 DEF Shape, Kept, TypeOK
  <2>3. QED
    BY <2>1, <2>2
<1>4. /\ active' = o.active /\ scanning' = o.scanning /\ claims' = o.claims
      /\ enabled' \subseteq o.enabled
  BY <1>2
<1>5. t.tap \in {"none", "running", "dead"} /\ t.rx \in {"never", "recent", "silent"}
  <2>1. CASE WatchdogFires
    BY <2>1, TapStartsType DEF TapAfterWatchdog, TypeOK
  <2>2. CASE ~WatchdogFires
    BY <2>2 DEF TapAfterWatchdog, TypeOK
  <2>3. QED
    BY <2>1, <2>2
<1>6. timers' \in SUBSET TimerName
  BY <1>2, <1>3, TimersType DEF TypeOK, Shape
<1>7. warned' \in BOOLEAN
  BY <1>2 DEF TypeOK
<1>8. TypeOK'
  BY <1>1, <1>2, <1>3, <1>4, <1>5, <1>6, <1>7 DEF TypeOK, Shape
<1>9. /\ adapters' # {} => active' \in adapters'
      /\ adapters' = {} => active' = NoCard
  BY <1>1, <1>3, <1>4 DEF Shape
<1>10. Backed(o.enabled, claims') /\ Within(claims', adapters')
  BY <1>1, <1>3, <1>4, MarkersBackedHalves DEF Shape
<1>11. MarkersBacked'
  BY <1>4, <1>10 DEF MarkersBacked, Backed, Within
<1>12. QED
  BY <1>8, <1>9, <1>11, CardAssumption DEF RoleIsKnown, TypeOK

LEMMA LoadTripStep ==
  ASSUME StructInv, LoadTrip
  PROVE  StructInv'
<1> USE DEF StructInv
<1>1. /\ throttled' = TRUE /\ tap' = "none"
      /\ UNCHANGED <<up, present, rivals, adapters, active, timers, rx, warned>>
  BY DEF LoadTrip, env
<1>2. /\ scanning' \in SUBSET Card
      /\ (enabled' = {} /\ claims' = NoClaims) \/ UNCHANGED <<enabled, claims>>
  <2>1. PICK rep \in Replies(enabled, NoCard) :
          LET raisers == {c \in enabled : rep[c].res = "raise"}
          IN \/ /\ raisers = {}
                /\ scanning' = ScanningAfter(enabled, rep, scanning)
                /\ enabled' = {}
                /\ claims' = NoClaims
             \/ \E last \in raisers, before \in SUBSET (enabled \ raisers) :
                  /\ scanning' = ScanningAfter(before \cup {last}, rep, scanning)
                  /\ UNCHANGED <<enabled, claims>>
    BY DEF LoadTrip, StopAll
  <2>2. \A S \in SUBSET Card : ScanningAfter(S, rep, scanning) \in SUBSET Card
    BY DEF ScanningAfter, TypeOK
  <2>3. QED
    BY <2>1, <2>2 DEF TypeOK
<1>3. QED
  BY <1>1, <1>2 DEF NoClaims, ClaimKind, TypeOK, RoleIsKnown, MarkersBacked

LEMMA LoadReleaseStep ==
  ASSUME StructInv, LoadRelease
  PROVE  StructInv'
<1> USE DEF StructInv
<1>1. throttled' = FALSE /\ UNCHANGED <<up, present, rivals, adapters, timers>>
  BY DEF LoadRelease, env
<1>2. PICK t \in TapStarts(tap),
           o \in Rotations(adapters, active, FALSE, scanning, enabled, claims) :
        /\ tap' = t.tap
        /\ Become(o)
        /\ rx' = (IF o.raised THEN t.rx ELSE "recent")
        /\ warned' = (o.raised /\ warned)
  BY DEF LoadRelease
<1>3. Shape(o, adapters, enabled, claims)
  BY RotationShape DEF TypeOK
<1>4. RadioTypes'
  BY <1>2, <1>3, BecomeTypes DEF TypeOK
<1>5. t.tap \in {"none", "running", "dead"} /\ t.rx \in {"never", "recent", "silent"}
  BY TapStartsType DEF TypeOK
<1>6. warned' \in BOOLEAN
  BY <1>2 DEF TypeOK
<1>7. TypeOK'
  BY <1>1, <1>2, <1>4, <1>5, <1>6 DEF TypeOK, RadioTypes
<1>8. QED
  BY <1>1, <1>2, <1>3, <1>7, BecomeKeeps, MarkersBackedHalves

LEMMA ProcessStep ==
  ASSUME StructInv, Start \/ Exit
  PROVE  StructInv'
<1> USE DEF StructInv
<1>1. FreshProcess /\ UNCHANGED <<present, rivals, scanning>>
  BY DEF Start, Exit
<1>2. /\ up' \in BOOLEAN /\ timers' \in SUBSET TimerName
      /\ tap' \in {"none", "running", "dead"} /\ rx' \in {"never", "recent", "silent"}
  <2>1. CASE Start
    BY <2>1, TapStartsType DEF Start, TypeOK
  <2>2. CASE Exit
    BY <2>2 DEF Exit
  <2>3. QED
    BY <2>1, <2>2
<1>3. QED
  BY <1>1, <1>2 DEF FreshProcess, NoClaims, ClaimKind, TypeOK, RoleIsKnown, MarkersBacked

\* Frames, deaths and silence of the tap, plugs, pulls and foreign resets leave
\* the role, the markers and the claims alone.
LEMMA OutsideStep ==
  ASSUME StructInv, TapFrame \/ TapDies \/ SilenceElapses \/ Environment
  PROVE  StructInv'
<1> USE DEF StructInv
<1>1. UNCHANGED <<up, adapters, active, enabled, claims, throttled, timers>>
  BY DEF TapFrame, TapDies, SilenceElapses, Environment, Plug, Unplug, ForeignReset, RivalScans, RivalStops,
         env, radio
<1>2. CASE TapFrame \/ TapDies \/ SilenceElapses
  BY <1>1, <1>2 DEF TapFrame, TapDies, SilenceElapses, env, radio,
                    TypeOK, RoleIsKnown, MarkersBacked
<1>3. CASE Environment
  BY <1>1, <1>3 DEF Environment, Plug, Unplug, ForeignReset, RivalScans, RivalStops, env, radio, listener,
                    TypeOK, RoleIsKnown, MarkersBacked
<1>4. QED
  BY <1>2, <1>3

LEMMA StructInvInductive == StructInv /\ [Next]_vars => StructInv'
<1> SUFFICES ASSUME StructInv, [Next]_vars
             PROVE  StructInv'
  OBVIOUS
<1>1. CASE Environment \/ TapFrame \/ TapDies \/ SilenceElapses
  BY <1>1, OutsideStep
<1>2. CASE \E c \in Card : InterfacesAdded(c) \/ InterfacesRemoved(c)
  BY <1>2, InterfacesAddedStep, InterfacesRemovedStep
<1>3. CASE RotationTick
  BY <1>3, RotationTickStep
<1>4. CASE ReenableTick \/ ContinuousScanChanged
  BY <1>4, ReenableStep
<1>5. CASE PruneTick
  BY <1>5, PruneTickStep
<1>6. CASE LoadTrip
  BY <1>6, LoadTripStep
<1>7. CASE LoadRelease
  BY <1>7, LoadReleaseStep
<1>8. CASE Start \/ Exit
  BY <1>8, ProcessStep
<1>9. CASE UNCHANGED vars
  <2>1. UNCHANGED <<up, present, rivals, adapters, throttled, timers, active, scanning,
                    enabled, claims, tap, rx, warned>>
    BY <1>9 DEF vars, env, radio, listener
  <2>2. TypeOK' /\ RoleIsKnown'
    BY <2>1 DEF StructInv, TypeOK, RoleIsKnown
  <2>3. MarkersBacked'
    BY <2>1 DEF StructInv, MarkersBacked
  <2>4. QED
    BY <2>2, <2>3 DEF StructInv
<1>10. QED
  BY <1>1, <1>2, <1>3, <1>4, <1>5, <1>6, <1>7, <1>8, <1>9 DEF Next, Service

\* Types: every reachable state of the service is well formed.
THEOREM TypeCorrect == Spec => []TypeOK
<1>1. Init => StructInv
  BY DEF Init, NoClaims, ClaimKind, StructInv, TypeOK, RoleIsKnown, MarkersBacked
<1>2. StructInv => TypeOK
  BY DEF StructInv
<1>3. QED
  BY <1>1, <1>2, StructInvInductive, PTL DEF Spec

\* Whatever the HCI commands answer, the listening role is on a known card
\* and every marker has its claim, for any number of cards.
THEOREM RoleAndMarkers == Spec => [](RoleIsKnown /\ MarkersBacked)
<1>1. Init => StructInv
  BY DEF Init, NoClaims, ClaimKind, StructInv, TypeOK, RoleIsKnown, MarkersBacked
<1>2. StructInv => RoleIsKnown /\ MarkersBacked
  BY DEF StructInv
<1>3. QED
  BY <1>1, <1>2, StructInvInductive, PTL DEF Spec

(***************************************************************************)
(* OneListener needs controllers that obey a disable and calls that do not *)
(* raise.  Under that hypothesis it is inductive once it is known that a   *)
(* card that is not plugged in does not scan: _stop_scan_on skips exactly  *)
(* the cards without an hciN.                                              *)
(***************************************************************************)
Obedient == "raise" \notin EnableOutcomes /\ DisableOutcomes \subseteq {"ok"}

AbsentIsOff == scanning \subseteq present

ListenInv == StructInv /\ AbsentIsOff /\ OneListener

\* The replies of single cards: a card without an hciN stays as it is, which is
\* off; an obeyed disable leaves the card off; no reply is an exception.
LEMMA AbsentReplyOff ==
  ASSUME AbsentIsOff, NEW c, c \notin present, NEW listen, NEW r \in ReplyFor(c, listen)
  PROVE  r.res = "fail" /\ ~r.on
<1>1. r = [res |-> "fail", on |-> c \in scanning]
  BY DEF ReplyFor, AbsentReply
<1>2. r.on = (c \in scanning)
  BY <1>1
<1>3. r.res = "fail"
  BY <1>1
<1>4. c \notin scanning
  BY DEF AbsentIsOff
<1>5. QED
  BY <1>2, <1>3, <1>4

LEMMA AnswersOf ==
  ASSUME NEW c
  PROVE  /\ \A r \in DisableReply(c) : r.res \in DisableOutcomes /\ (r.on => r.res # "ok")
         /\ \A r \in EnableReply(c) : r.res \in EnableOutcomes
<1>1. ASSUME NEW S, NEW b, NEW r \in Answers(S, b)
      PROVE  r.res \in S /\ r.on = b
  BY DEF Answers
<1>2. ASSUME NEW r \in DisableReply(c)
      PROVE  r.res \in DisableOutcomes /\ (r.on => r.res # "ok")
  <2>1. CASE r \in Answers(DisableOutcomes, FALSE)
    BY <1>1, <2>1
  <2>2. CASE r \in Answers(IF c \in scanning THEN DisableOutcomes \ {"ok"} ELSE {}, TRUE)
    <3>1. r.res \in IF c \in scanning THEN DisableOutcomes \ {"ok"} ELSE {}
      BY <1>1, <2>2
    <3>2. QED
      BY <3>1
  <2>3. QED
    BY <2>1, <2>2 DEF DisableReply
<1>3. ASSUME NEW r \in EnableReply(c)
      PROVE  r.res \in EnableOutcomes
  <2>1. CASE r \in Answers(EnableOutcomes \ {"ok"}, FALSE)
    BY <1>1, <2>1
  <2>2. CASE r \in Answers(EnableOutcomes \ (IF c \in scanning THEN {} ELSE {"fail"}), TRUE)
    BY <1>1, <2>2
  <2>3. QED
    BY <2>1, <2>2 DEF EnableReply
<1>4. QED
  BY <1>2, <1>3

LEMMA DisableReplyOff ==
  ASSUME Obedient, AbsentIsOff, NEW c, NEW r \in ReplyFor(c, FALSE)
  PROVE  ~r.on
<1>1. CASE c \notin present
  BY <1>1, AbsentReplyOff
<1>2. CASE c \in present
  <2>1. r \in DisableReply(c)
    BY <1>2 DEF ReplyFor
  <2>2. r.res \in DisableOutcomes /\ (r.on => r.res # "ok")
    BY <2>1, AnswersOf
  <2>3. QED
    BY <2>2 DEF Obedient
<1>3. QED
  BY <1>1, <1>2

LEMMA NoReplyRaises ==
  ASSUME Obedient, AbsentIsOff, NEW c, NEW listen, NEW r \in ReplyFor(c, listen)
  PROVE  r.res # "raise"
<1>1. CASE c \notin present
  BY <1>1, AbsentReplyOff
<1>2. CASE c \in present
  <2>1. r \in EnableReply(c) \cup DisableReply(c)
    BY <1>2 DEF ReplyFor
  <2>2. r.res \in EnableOutcomes \cup DisableOutcomes
    BY <2>1, AnswersOf
  <2>3. QED
    BY <2>2 DEF Obedient
<1>3. QED
  BY <1>1, <1>2

LEMMA RotationListens ==
  ASSUME Obedient, AbsentIsOff, NEW cards \in SUBSET Card, NEW from, NEW advance,
         NEW on \in SUBSET scanning, NEW marked, NEW held,
         NEW o \in Rotations(cards, from, advance, on, marked, held)
  PROVE  o.scanning \cap cards \subseteq {o.active} /\ o.scanning \subseteq present
<1>1. CASE cards = {}
  <2>1. o.scanning = on
    BY <1>1 DEF Rotations, Unchanged
  <2>2. QED
    BY <1>1, <2>1 DEF AbsentIsOff
<1>2. CASE cards # {}
  <2> DEFINE role == RoleHolder(cards, from, advance)
  <2>1. PICK rep \in Replies(cards, role) :
               o \in RotationResults(cards, role, rep, on, marked, held)
    BY <1>2 DEF Rotations
  <2>2. \A c \in cards : rep[c] \in ReplyFor(c, c = role)
    BY <2>1 DEF Replies
  <2>3. \A c \in cards : rep[c].res # "raise"
    BY <2>2, NoReplyRaises
  <2>4. Visited(cards, rep) = cards
    BY <2>3 DEF Visited
  <2>5. /\ o.active = role
        /\ o.scanning = {c \in on : c \notin cards} \cup {c \in cards : rep[c].on}
    BY <2>1, <2>4 DEF RotationResults, ScanningAfter
  <2>6. ASSUME NEW c \in cards, c # role
        PROVE  ~rep[c].on
    <3>1. rep[c] \in ReplyFor(c, FALSE)
      BY <2>2, <2>6
    <3>2. QED
      BY <3>1, DisableReplyOff
  <2>7. ASSUME NEW c \in cards, c \notin present
        PROVE  ~rep[c].on
    BY <2>2, <2>7, AbsentReplyOff
  <2>8. QED
    BY <2>5, <2>6, <2>7 DEF AbsentIsOff
<1>3. QED
  BY <1>1, <1>2

LEMMA ListenInvInductive ==
  ASSUME Obedient, ListenInv, [Next]_vars
  PROVE  ListenInv'
<1> USE DEF ListenInv
<1>1. StructInv'
  BY StructInvInductive
<1>2. CASE RotationTick
  <2>1. PICK o \in Rotations(adapters, active, TRUE, scanning, enabled, claims) : Become(o)
    BY <1>2 DEF RotationTick
  <2>2. o.scanning \cap adapters \subseteq {o.active} /\ o.scanning \subseteq present
    BY RotationListens DEF StructInv, TypeOK
  <2>3. QED
    BY <1>1, <1>2, <2>1, <2>2 DEF RotationTick, env, Become, OneListener, AbsentIsOff
<1>3. CASE \E c \in Card : InterfacesAdded(c)
  <2>1. PICK c \in Card : InterfacesAdded(c)
    BY <1>3
  <2>2. CASE ~throttled
    <3>1. PICK o \in Rotations(adapters', active, FALSE, scanning, enabled, claims) : Become(o)
      BY <2>1, <2>2 DEF InterfacesAdded, MayRotate
    <3>2. adapters' \in SUBSET Card
      BY <2>1 DEF InterfacesAdded, StructInv, TypeOK
    <3>3. o.scanning \cap adapters' \subseteq {o.active} /\ o.scanning \subseteq present
      BY <3>2, RotationListens
    <3>4. QED
      BY <1>1, <2>1, <3>1, <3>3 DEF InterfacesAdded, env, Become, OneListener, AbsentIsOff
  <2>3. CASE throttled
    BY <1>1, <2>1, <2>3 DEF InterfacesAdded, MayRotate, env, radio, OneListener, AbsentIsOff
  <2>4. QED
    BY <2>2, <2>3 DEF StructInv, TypeOK
<1>4. CASE \E c \in Card : InterfacesRemoved(c)
  <2>1. PICK c \in Card : InterfacesRemoved(c)
    BY <1>4
  <2> DEFINE role == RoleAfterRemoval(c)
             marked == Forget(enabled, c)
             held == Released(claims, c)
  <2>2. PICK on \in SUBSET scanning :
               IF role = active \/ ~MayRotate
                 THEN Become(Unchanged(role, on, marked, held))
                 ELSE \E o \in Rotations(adapters', role, FALSE, on, marked, held) : Become(o)
    <3>1. PICK r \in ReplyFor(c, FALSE) :
                 LET on == IF r.on THEN scanning ELSE scanning \ {c}
                 IN IF role = active \/ ~MayRotate
                      THEN Become(Unchanged(role, on, marked, held))
                      ELSE \E o \in Rotations(adapters', role, FALSE, on, marked, held) : Become(o)
      BY <2>1 DEF InterfacesRemoved
    <3>2. (IF r.on THEN scanning ELSE scanning \ {c}) \in SUBSET scanning
      OBVIOUS
    <3>3. QED
      BY <3>1, <3>2
  <2>3. adapters' \in SUBSET adapters /\ UNCHANGED <<up, present, throttled>>
    BY <2>1 DEF InterfacesRemoved, Forget, env
  <2>4. CASE role = active \/ ~MayRotate
    <3>1. active' = role /\ scanning' = on
      BY <2>2, <2>4 DEF Become, Unchanged
    <3>2. QED
      BY <1>1, <2>3, <2>4, <3>1 DEF MayRotate, OneListener, AbsentIsOff
  <2>5. CASE ~(role = active \/ ~MayRotate)
    <3>1. PICK o \in Rotations(adapters', role, FALSE, on, marked, held) : Become(o)
      BY <2>2, <2>5
    <3>2. o.scanning \cap adapters' \subseteq {o.active} /\ o.scanning \subseteq present
      BY <2>3, RotationListens DEF StructInv, TypeOK
    <3>3. QED
      BY <1>1, <2>3, <3>1, <3>2 DEF Become, OneListener, AbsentIsOff
  <2>6. QED
    BY <2>4, <2>5
<1>5. CASE ReenableTick \/ ContinuousScanChanged
  <2>1. PICK rep \in [ReenableCards -> Reply] :
          /\ \A c \in ReenableCards : rep[c] \in ReplyFor(c, TRUE)
          /\ active' = active
          /\ scanning' = ScanningAfter(ReenableCards, rep, scanning)
    <3>1. PICK o \in Reenables : Become(o)
      BY <1>5 DEF ReenableTick, ContinuousScanChanged
    <3>2. PICK rep \in [ReenableCards -> Reply] :
            /\ \A c \in ReenableCards : rep[c] \in ReplyFor(c, TRUE)
            /\ o.active = active
            /\ o.scanning = ScanningAfter(ReenableCards, rep, scanning)
      <4>1. PICK rep \in {f \in [ReenableCards -> Reply] :
                             \A c \in ReenableCards : f[c] \in ReplyFor(c, TRUE)} :
              o \in ReenableResults(rep)
        BY <3>1 DEF Reenables
      <4>2. \E k : o = [active |-> active,
                       scanning |-> ScanningAfter(ReenableCards, rep, scanning),
                       enabled |-> enabled \cup {c \in ReenableCards : rep[c].res = "ok"},
                       claims |-> k,
                       raised |-> \E c \in ReenableCards : rep[c].res = "raise"]
        BY <4>1 DEF ReenableResults
      <4>3. o.active = active /\ o.scanning = ScanningAfter(ReenableCards, rep, scanning)
        BY <4>2
      <4>4. QED
        BY <4>1, <4>3
    <3>3. QED
      BY <3>1, <3>2 DEF Become
  <2>2. ASSUME NEW c \in ReenableCards, c \notin present
        PROVE  ~rep[c].on
    BY <2>1, <2>2, AbsentReplyOff
  <2>3. scanning' \subseteq present /\ scanning' \cap adapters \subseteq {active} \cup scanning
    BY <2>1, <2>2 DEF ScanningAfter, ReenableCards, AbsentIsOff
  <2>4. UNCHANGED <<up, present, adapters, throttled>>
    BY <1>5 DEF ReenableTick, ContinuousScanChanged, env
  <2>5. QED
    BY <1>1, <2>1, <2>3, <2>4 DEF OneListener, AbsentIsOff
<1>6. CASE PruneTick
  <2>1. UNCHANGED <<up, present, adapters, throttled>> /\ ~throttled /\ up
    BY <1>6 DEF PruneTick, env
  <2>2. PICK o \in ScanRestored : active' = o.active /\ scanning' = o.scanning
    BY <1>6 DEF PruneTick
  <2>3. CASE ScanLost
    <3>1. o.scanning \cap adapters \subseteq {o.active} /\ o.scanning \subseteq present
      BY <2>3, RotationListens DEF ScanRestored, StructInv, TypeOK
    <3>2. QED
      BY <1>1, <2>1, <2>2, <3>1 DEF OneListener, AbsentIsOff
  <2>4. CASE ~ScanLost
    <3>1. o.active = active /\ o.scanning = scanning
      BY <2>4 DEF ScanRestored, Unchanged
    <3>2. QED
      BY <1>1, <2>1, <2>2, <3>1 DEF OneListener, AbsentIsOff
  <2>5. QED
    BY <2>3, <2>4
<1>7. CASE LoadTrip
  <2>1. PICK rep \in Replies(enabled, NoCard), S \in SUBSET enabled :
               scanning' = ScanningAfter(S, rep, scanning)
    BY <1>7 DEF LoadTrip, StopAll
  <2>2. \A c \in enabled : rep[c] \in ReplyFor(c, c = NoCard)
    BY <2>1 DEF Replies
  <2>3. ASSUME NEW c \in S, c \notin present
        PROVE  ~rep[c].on
    BY <2>1, <2>2, <2>3, AbsentReplyOff
  <2>4. scanning' \subseteq present
    BY <2>1, <2>3 DEF ScanningAfter, AbsentIsOff
  <2>5. throttled' /\ UNCHANGED present
    BY <1>7 DEF LoadTrip, env
  <2>6. QED
    BY <1>1, <2>4, <2>5 DEF OneListener, AbsentIsOff
<1>8. CASE LoadRelease
  <2>1. PICK o \in Rotations(adapters, active, FALSE, scanning, enabled, claims) : Become(o)
    BY <1>8 DEF LoadRelease
  <2>2. o.scanning \cap adapters \subseteq {o.active} /\ o.scanning \subseteq present
    BY RotationListens DEF StructInv, TypeOK
  <2>3. QED
    BY <1>1, <1>8, <2>1, <2>2 DEF LoadRelease, env, Become, OneListener, AbsentIsOff
<1>9. CASE Start \/ Exit
  BY <1>1, <1>9 DEF Start, Exit, FreshProcess, OneListener, AbsentIsOff
<1>10. CASE TapFrame \/ TapDies \/ SilenceElapses \/ UNCHANGED vars
  <2>1. UNCHANGED <<up, present, adapters, throttled, active, scanning>>
    BY <1>10 DEF TapFrame, TapDies, SilenceElapses, vars, env, radio
  <2>2. QED
    BY <1>1, <2>1 DEF OneListener, AbsentIsOff
<1>11. CASE Environment
  BY <1>1, <1>11 DEF Environment, Plug, Unplug, ForeignReset, RivalScans, RivalStops, env, radio,
                     OneListener, AbsentIsOff
<1>12. QED
  BY <1>2, <1>3, <1>4, <1>5, <1>6, <1>7, <1>8, <1>9, <1>10, <1>11 DEF Next, Service

\* "Make exactly one scanning card listen": with controllers that obey a
\* disable and calls that do not raise, no card scans beside the listener, for
\* any number of cards and across throttling, hot-plug and restarts.
THEOREM OneListenerCorrect ==
  ASSUME Obedient
  PROVE  Spec => []OneListener
<1>1. Init => ListenInv
  BY DEF Init, NoClaims, ClaimKind, ListenInv, StructInv, TypeOK, RoleIsKnown, MarkersBacked, AbsentIsOff, OneListener
<1>2. ListenInv /\ [Next]_vars => ListenInv'
  BY ListenInvInductive
<1>3. ListenInv => OneListener
  BY DEF ListenInv
<1>4. QED
  BY <1>1, <1>2, <1>3, PTL DEF Spec

(***************************************************************************)
(* The throttle.  A trip forgets everything it holds unless a disable      *)
(* raises, and while throttled no callback adds a marker or a claim.       *)
(***************************************************************************)
LEMMA TripForgets ==
  ASSUME "raise" \notin DisableOutcomes, StructInv, LoadTrip
  PROVE  enabled' = {} /\ claims' = NoClaims
<1>1. ASSUME NEW rep \in Replies(enabled, NoCard), NEW c \in enabled
      PROVE  rep[c].res # "raise"
  <2>1. c # NoCard
    BY CardAssumption DEF StructInv, TypeOK
  <2>2. rep[c] \in ReplyFor(c, FALSE)
    BY <2>1 DEF Replies
  <2>3. CASE c \notin present
    BY <2>2, <2>3 DEF ReplyFor, AbsentReply
  <2>4. CASE c \in present
    <3>1. rep[c] \in DisableReply(c)
      BY <2>2, <2>4 DEF ReplyFor
    <3>2. QED
      BY <3>1, AnswersOf
  <2>5. QED
    BY <2>3, <2>4
<1>2. PICK rep \in Replies(enabled, NoCard) :
        \/ enabled' = {} /\ claims' = NoClaims
        \/ \E last \in {c \in enabled : rep[c].res = "raise"} : TRUE
  BY DEF LoadTrip, StopAll
<1>3. QED
  BY <1>1, <1>2

LEMMA ThrottledInvInductive ==
  ASSUME "raise" \notin DisableOutcomes, StructInv, ThrottledHoldsNothing, [Next]_vars
  PROVE  ThrottledHoldsNothing'
<1>1. CASE \E c \in Card : InterfacesAdded(c)
  BY <1>1 DEF InterfacesAdded, MayRotate, radio, ThrottledHoldsNothing
<1>2. CASE \E c \in Card : InterfacesRemoved(c)
  <2>1. PICK c \in Card : InterfacesRemoved(c)
    BY <1>2
  <2>2. throttled' = throttled
    BY <2>1 DEF InterfacesRemoved
  <2>3. CASE throttled
    <3>1. \E on : Become(Unchanged(RoleAfterRemoval(c), on, Forget(enabled, c), Released(claims, c)))
      BY <2>1, <2>3 DEF InterfacesRemoved, MayRotate
    <3>2. enabled' = Forget(enabled, c) /\ claims' = Released(claims, c)
      BY <3>1 DEF Become, Unchanged
    <3>3. enabled = {} /\ claims = NoClaims
      BY <2>3 DEF ThrottledHoldsNothing
    <3>4. enabled' = {} /\ claims' = NoClaims
      BY <3>2, <3>3 DEF Forget, Released, NoClaims
    <3>5. QED
      BY <3>4 DEF ThrottledHoldsNothing
  <2>4. QED
    BY <2>2, <2>3 DEF ThrottledHoldsNothing
<1>3. CASE RotationTick \/ ReenableTick \/ ContinuousScanChanged \/ PruneTick \/ LoadRelease
  BY <1>3 DEF RotationTick, ReenableTick, ContinuousScanChanged, PruneTick, LoadRelease,
              ThrottledHoldsNothing
<1>4. CASE LoadTrip
  BY <1>4, TripForgets DEF ThrottledHoldsNothing
<1>5. CASE Start \/ Exit
  BY <1>5 DEF Start, Exit, FreshProcess, ThrottledHoldsNothing
<1>6. CASE Environment
  BY <1>6 DEF Environment, Plug, Unplug, ForeignReset, RivalScans, RivalStops, radio, ThrottledHoldsNothing
<1>7. CASE TapFrame \/ TapDies \/ SilenceElapses \/ UNCHANGED vars
  BY <1>7 DEF TapFrame, TapDies, SilenceElapses, vars, radio, ThrottledHoldsNothing
<1>8. QED
  BY <1>1, <1>2, <1>3, <1>4, <1>5, <1>6, <1>7 DEF Next, Service

\* While throttled no card is claimed or marked, for any number of cards and
\* whatever enables and reopened taps do, if no disable raises.
THEOREM ThrottledCorrect ==
  ASSUME "raise" \notin DisableOutcomes
  PROVE  Spec => []ThrottledHoldsNothing
<1>1. Init => StructInv /\ ThrottledHoldsNothing
  BY DEF Init, NoClaims, ClaimKind, StructInv, TypeOK, RoleIsKnown, MarkersBacked, ThrottledHoldsNothing
<1>2. StructInv /\ [Next]_vars => StructInv'
  BY StructInvInductive
<1>3. StructInv /\ ThrottledHoldsNothing /\ [Next]_vars => ThrottledHoldsNothing'
  BY ThrottledInvInductive
<1>4. QED
  BY <1>1, <1>2, <1>3, PTL DEF Spec

(***************************************************************************)
(* Claims.  hold() returns at once for a hard claim and releases a soft    *)
(* one to claim the card anew, so a rotation keeps what is hard whatever   *)
(* the commands and the claims layer answer; a card that stays known loses *)
(* a hard claim in a trip or at an exit and nowhere else.                  *)
(***************************************************************************)
ClaimsKept == \A c \in adapters' : /\ claims[c] = "hard" => claims'[c] = "hard"
                                   /\ claims[c] = "soft" => claims'[c] # "none"

KeepsClaims == up /\ up' /\ ~throttled' => ClaimsKept

LEMMA InstalledKeeps ==
  ASSUME adapters' \in SUBSET Card, NEW o, NEW held, Kept(o.claims, held),
         claims' = o.claims, \A c \in adapters' : held[c] = claims[c]
  PROVE  ClaimsKept
<1>1. ASSUME NEW c \in adapters'
      PROVE  /\ claims[c] = "hard" => claims'[c] = "hard"
             /\ claims[c] = "soft" => claims'[c] # "none"
  <2>1. c \in Card
    OBVIOUS
  <2>2. /\ held[c] = "hard" => (o.claims)[c] = "hard"
        /\ held[c] # "none" => (o.claims)[c] # "none"
    BY <2>1 DEF Kept
  <2>3. held[c] = claims[c]
    BY <1>1
  <2>4. QED
    BY <2>2, <2>3
<1>2. QED
  BY <1>1 DEF ClaimsKept

LEMMA NextKeepsClaims ==
  ASSUME StructInv, StructInv', [Next]_vars
  PROVE  KeepsClaims
<1>1. CASE RotationTick
  <2>1. PICK o \in Rotations(adapters, active, TRUE, scanning, enabled, claims) : Become(o)
    BY <1>1 DEF RotationTick
  <2>2. Kept(o.claims, claims)
    BY RotationShape DEF Shape, StructInv, TypeOK
  <2>3. QED
    BY <2>1, <2>2, InstalledKeeps DEF Become, KeepsClaims, StructInv, TypeOK
<1>2. CASE \E c \in Card : InterfacesAdded(c)
  <2>1. PICK c \in Card : InterfacesAdded(c)
    BY <1>2
  <2>2. UNCHANGED claims
        \/ \E o \in Rotations(adapters', active, FALSE, scanning, enabled, claims) : Become(o)
    BY <2>1 DEF InterfacesAdded, radio
  <2>3. ASSUME NEW o \in Rotations(adapters', active, FALSE, scanning, enabled, claims), Become(o)
        PROVE  ClaimsKept
    <3>1. Kept(o.claims, claims)
      BY RotationShape DEF Shape, StructInv, TypeOK
    <3>2. QED
      BY <2>3, <3>1, InstalledKeeps DEF Become, StructInv, TypeOK
  <2>4. QED
    BY <2>2, <2>3 DEF KeepsClaims, ClaimsKept
<1>3. CASE \E c \in Card : InterfacesRemoved(c)
  <2>1. PICK c \in Card : InterfacesRemoved(c)
    BY <1>3
  <2> DEFINE role == RoleAfterRemoval(c)
             marked == Forget(enabled, c)
             held == Released(claims, c)
  <2>2. /\ marked \in SUBSET Card /\ held \in [Card -> ClaimKind]
        /\ \A d \in adapters' : held[d] = claims[d]
    BY <2>1 DEF InterfacesRemoved, Forget, Released, ClaimKind, StructInv, TypeOK
  <2>3. PICK on \in SUBSET Card :
               \/ Become(Unchanged(role, on, marked, held))
               \/ \E o \in Rotations(adapters', role, FALSE, on, marked, held) : Become(o)
    <3>1. PICK r \in ReplyFor(c, FALSE) :
                 LET on == IF r.on THEN scanning ELSE scanning \ {c}
                 IN IF role = active \/ ~MayRotate
                      THEN Become(Unchanged(role, on, marked, held))
                      ELSE \E o \in Rotations(adapters', role, FALSE, on, marked, held) : Become(o)
      BY <2>1 DEF InterfacesRemoved
    <3>2. (IF r.on THEN scanning ELSE scanning \ {c}) \in SUBSET Card
      BY DEF StructInv, TypeOK
    <3>3. QED
      BY <3>1, <3>2
  <2>4. CASE Become(Unchanged(role, on, marked, held))
    BY <2>2, <2>4 DEF Become, Unchanged, KeepsClaims, ClaimsKept
  <2>5. ASSUME NEW o \in Rotations(adapters', role, FALSE, on, marked, held), Become(o)
        PROVE  ClaimsKept
    <3>1. Kept(o.claims, held)
      BY <2>2, RotationShape DEF Shape, StructInv, TypeOK
    <3>2. QED
      BY <2>2, <2>5, <3>1, InstalledKeeps DEF Become, StructInv, TypeOK
  <2>6. QED
    BY <2>3, <2>4, <2>5 DEF KeepsClaims
<1>4. CASE ReenableTick \/ ContinuousScanChanged
  <2>1. up /\ ~throttled /\ UNCHANGED adapters
    BY <1>4 DEF ReenableTick, ContinuousScanChanged
  <2>2. PICK o \in Reenables : Become(o)
    BY <1>4 DEF ReenableTick, ContinuousScanChanged
  <2>3. Kept(o.claims, claims)
    BY <2>1, ReenableShape DEF Shape
  <2>4. QED
    BY <2>2, <2>3, InstalledKeeps DEF Become, KeepsClaims, StructInv, TypeOK
<1>5. CASE PruneTick
  <2>1. PICK o \in ScanRestored : claims' = o.claims
    BY <1>5 DEF PruneTick
  <2>2. CASE ScanLost
    <3>1. Kept(o.claims, claims)
      BY <2>1, <2>2, RotationShape DEF ScanRestored, Shape, StructInv, TypeOK
    <3>2. QED
      BY <2>1, <3>1, InstalledKeeps DEF KeepsClaims, StructInv, TypeOK
  <2>3. CASE ~ScanLost
    BY <2>1, <2>3 DEF ScanRestored, Unchanged, KeepsClaims, ClaimsKept
  <2>4. QED
    BY <2>2, <2>3
<1>6. CASE LoadTrip \/ Start \/ Exit
  BY <1>6 DEF LoadTrip, Start, Exit, KeepsClaims
<1>7. CASE LoadRelease
  <2>1. PICK o \in Rotations(adapters, active, FALSE, scanning, enabled, claims) : Become(o)
    BY <1>7 DEF LoadRelease
  <2>2. Kept(o.claims, claims)
    BY RotationShape DEF Shape, StructInv, TypeOK
  <2>3. QED
    BY <2>1, <2>2, InstalledKeeps DEF Become, KeepsClaims, StructInv, TypeOK
<1>8. CASE Environment
  BY <1>8 DEF Environment, Plug, Unplug, ForeignReset, RivalScans, RivalStops, radio,
              KeepsClaims, ClaimsKept
<1>9. CASE TapFrame \/ TapDies \/ SilenceElapses \/ UNCHANGED vars
  BY <1>9 DEF TapFrame, TapDies, SilenceElapses, vars, radio, KeepsClaims, ClaimsKept
<1>10. QED
  BY <1>1, <1>2, <1>3, <1>4, <1>5, <1>6, <1>7, <1>8, <1>9 DEF Next, Service

\* "Idle cards keep their claim so no other consumer takes them": outside a trip
\* or an exit no step gives up the hard claim of a card that stays known, though
\* commands and claims fail or raise at any point of it; a card claimed softly
\* is claimed again, hard or soft, unless the claims layer failed.
THEOREM ClaimKeptCorrect == Spec => ClaimKept
<1>1. Init => StructInv
  BY DEF Init, NoClaims, ClaimKind, StructInv, TypeOK, RoleIsKnown, MarkersBacked
<1>2. StructInv /\ StructInv' /\ [Next]_vars
        => (up /\ up' /\ ~throttled' =>
              \A c \in adapters' : /\ claims[c] = "hard" => claims'[c] = "hard"
                                   /\ claims[c] = "soft" => claims'[c] # "none")
  BY NextKeepsClaims DEF KeepsClaims, ClaimsKept
<1>3. QED
  BY <1>1, <1>2, StructInvInductive, PTL DEF Spec, ClaimKept
=============================================================================
