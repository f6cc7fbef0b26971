-------------------------------- MODULE Router --------------------------------
(***************************************************************************)
(* The advertisement router of dbus-ble-sensors-py                         *)
(* (ble_advertisement_router.py): how external D-Bus services that want    *)
(* advertisements are found, which advertisements they are sent, and what  *)
(* the tap's filters are made of on their account                          *)
(* (dbus_ble_sensors._on_registrations_changed).                           *)
(*                                                                         *)
(* A registration is an object a service exports under a path that says    *)
(* what it wants; there is no call.  The router has to find these objects  *)
(* by introspection: of every service once at start, of a service that     *)
(* appears when the bus says so.  The question is asked asynchronously of  *)
(* the root object; the walk down from there, in the reply handler, blocks *)
(* the main loop.  The bus delivers signals and replies in one order.      *)
(*                                                                         *)
(* An emitter exists for every registered path and for no other            *)
(* (_update_emitters runs in the same callback), so emitters are not a     *)
(* variable of their own.                                                  *)
(***************************************************************************)
EXTENDS Naturals, Sequences

CONSTANTS
  Service,     \* names com.victronenergy.* of other services
  RouterName,  \* ROUTER_BUS_NAME, our own name, which is one of those too
  Address, Maker, Prefix,
  Product,     \* product ids, numbers
  NoProduct,   \* payload too short to have one
  Path,        \* paths under /ble_advertisements/ that parse
  Internal,    \* _internal_mfg_ids
  Configured,  \* _configured_macs
  Discovery,   \* the ContinuousScan setting
  InboxBound   \* bus messages waiting before another service moves: a bound of the model

PathType ==
  [label : Service, kind : {"mfgr"}, maker : Maker]
  \cup [label : Service, kind : {"mfgr_product"}, maker : Maker, product : Product]
  \cup [label : Service, kind : {"mfgr_product_range"}, maker : Maker, lo : Product, hi : Product]
  \cup [label : Service, kind : {"addr"}, addr : Address]
  \cup [label : Service, kind : {"name_prefix"}, prefix : Prefix]

ASSUME PathAssumption == Path \subseteq PathType
ASSUME NameAssumption == RouterName \notin Service /\ Product \subseteq Nat /\ NoProduct \notin Nat
ASSUME TapAssumption ==
  /\ Internal \subseteq Maker /\ Configured \subseteq Address
  /\ Discovery \in BOOLEAN /\ InboxBound \in Nat \ {0}

VARIABLES
  onBus,     \* services whose name has an owner
  exports,   \* the paths each of them exports now
  phase,     \* no process; subscribed to NameOwnerChanged; initial scan begun
  inbox,     \* bus messages on their way to the router
  pending,   \* _pending_scan_services
  asked,     \* services whose Introspect call is not answered yet
  excused,   \* history: services that gave the router no fair chance, see Excuse
  reg,       \* the paths in the five registration indexes
  filter,    \* _known_mfg_ids, the tap's manufacturer filter
  prefixes,  \* _name_prefixes, as far as external services contribute
  gate       \* _tap_known_macs; empty means open

world == <<onBus, exports>>
search == <<pending, asked>>
tapSets == <<filter, prefixes, gate>>
vars == <<world, phase, inbox, search, excused, reg, tapSets>>

Own(s) == {p \in Path : p.label = s}
Message == [kind : {"arrived", "left", "root", "bare"}, of : Service]
Msg(kind, s) == [kind |-> kind, of |-> s]

OfKind(R, kinds) == {p \in R : p.kind \in kinds}
MakerKinds == {"mfgr", "mfgr_product", "mfgr_product_range"}

(***************************************************************************)
(* What _on_registrations_changed makes of the indexes.                    *)
(***************************************************************************)

RegisteredMakers(R) == {p.maker : p \in OfKind(R, MakerKinds)}

RegisteredMacs(R) == {p.addr : p \in OfKind(R, {"addr"})}
RegisteredPrefixes(R) == {p.prefix : p \in OfKind(R, {"name_prefix"})}

Gate(R) ==
  IF Discovery \/ RegisteredMakers(R) # {} THEN {} ELSE Configured \cup RegisteredMacs(R)

Register(R) ==
  /\ reg' = R
  /\ filter' = Internal \cup RegisteredMakers(R)
  /\ prefixes' = RegisteredPrefixes(R)
  /\ gate' = Gate(R)

(***************************************************************************)
(* Other services.  The bus tells the router of names that appear and      *)
(* disappear; a call to a service that leaves ends in an error.            *)
(***************************************************************************)
Delivered(m) == IF phase = "down" THEN inbox ELSE Append(inbox, m)

Arrive(s, paths) ==
  /\ s \notin onBus /\ Len(inbox) < InboxBound
  /\ onBus' = onBus \cup {s}
  /\ exports' = [exports EXCEPT ![s] = paths]
  /\ inbox' = Delivered(Msg("arrived", s))
  /\ UNCHANGED <<phase, search, excused, reg, tapSets>>

Leave(s) ==
  /\ s \in onBus /\ Len(inbox) < InboxBound
  /\ onBus' = onBus \ {s}
  /\ exports' = [exports EXCEPT ![s] = {}]
  /\ asked' = asked \ {s}
  /\ excused' = excused \ {s}
  /\ inbox' = Delivered(Msg("left", s))
  /\ UNCHANGED <<phase, pending, reg, tapSets>>

\* Excuse: the name passes straight to another process, or objects are added to
\* a running service: no introspection follows either.
Reexport(s, paths) ==
  /\ s \in onBus
  /\ exports' = [exports EXCEPT ![s] = paths]
  /\ excused' = excused \cup {s}
  /\ UNCHANGED <<onBus, phase, inbox, search, reg, tapSets>>

Withdraw(s, p) ==
  /\ s \in onBus /\ p \in exports[s]
  /\ exports' = [exports EXCEPT ![s] = @ \ {p}]
  /\ UNCHANGED <<onBus, phase, inbox, search, excused, reg, tapSets>>

\* The answer for the root object shows whether ble_advertisements is below it.
Answer(s) ==
  /\ s \in asked
  /\ asked' = asked \ {s}
  /\ inbox' = Append(inbox, Msg(IF exports[s] = {} THEN "bare" ELSE "root", s))
  /\ UNCHANGED <<world, phase, pending, excused, reg, tapSets>>

\* Excuse: no answer within the second _check_service_registrations allows.
AnswerTimesOut(s) ==
  /\ s \in asked
  /\ asked' = asked \ {s}
  /\ excused' = excused \cup {s}
  /\ UNCHANGED <<world, phase, inbox, pending, reg, tapSets>>

(***************************************************************************)
(* The router.  It subscribes when it is constructed and lists the names   *)
(* when it is started, one call later.                                     *)
(***************************************************************************)
Create ==
  /\ phase = "down" /\ phase' = "subscribed"
  /\ Register({})
  /\ UNCHANGED <<world, inbox, search, excused>>

\* Seeded fault: our own name is not left out.
ScannableAny(names) == names

Scannable(names) == names \ {RouterName}

StartScan ==
  /\ phase = "subscribed" /\ phase' = "scanned"
  /\ pending' = Scannable(onBus \cup {RouterName})
  /\ UNCHANGED <<world, inbox, asked, excused, reg, tapSets>>

\* A name without an owner cannot be asked: get_object raises, and the
\* exception is logged.
AskedAfterCheck(s) == asked \cup ({s} \cap onBus)

\* Seeded fault: a name that is gone ends the scan.
RemainingIfThere(s) == IF s \in onBus THEN pending \ {s} ELSE {}

Remaining(s) == pending \ {s}

ScanNextService(s) ==
  /\ s \in pending
  /\ pending' = Remaining(s)
  /\ asked' = AskedAfterCheck(s)
  /\ UNCHANGED <<world, phase, inbox, excused, reg, tapSets>>

\* Seeded fault: arrivals are left to the initial scan while that goes on.
ChecksUnlessScanning == pending = {}

Checks == TRUE

\* Between construction and start the main loop does not run yet.
IsNext(kind) == phase = "scanned" /\ inbox # <<>> /\ Head(inbox).kind = kind
Received(kind) == IsNext(kind) /\ inbox' = Tail(inbox)

NameArrived ==
  /\ Received("arrived")
  /\ asked' = IF Checks THEN AskedAfterCheck(Head(inbox).of) ELSE asked
  /\ UNCHANGED <<world, phase, pending, excused, reg, tapSets>>

\* Paths that contain the name as a substring.  None does: every bus name has
\* a dot in it and no object path may.
PathsNaming(s, R) == {}

NameLeft ==
  /\ Received("left")
  /\ LET gone == PathsNaming(Head(inbox).of, reg)
     IN IF gone = {} THEN UNCHANGED <<reg, tapSets>> ELSE Register(reg \ gone)
  /\ UNCHANGED <<world, phase, search, excused>>

BareReply ==
  /\ Received("bare")
  /\ UNCHANGED <<world, phase, search, excused, reg, tapSets>>

\* The walk finds what is exported now.  A child whose introspection fails is
\* passed over (an excuse, too), and a service may leave in the middle.
RootReply ==
  /\ IsNext("root")
  /\ LET s == Head(inbox).of
     IN \E found \in SUBSET exports[s] :
          /\ Register(reg \cup found)
          /\ \/ /\ found = exports[s]
                /\ inbox' = Tail(inbox)
                /\ UNCHANGED <<world, asked, excused>>
             \/ /\ s \in onBus
                /\ inbox' = Tail(inbox)
                /\ excused' = excused \cup {s}
                /\ UNCHANGED <<world, asked>>
             \/ /\ s \in onBus
                /\ inbox' = Append(Tail(inbox), Msg("left", s))
                /\ onBus' = onBus \ {s}
                /\ exports' = [exports EXCEPT ![s] = {}]
                /\ asked' = asked \ {s}
                /\ excused' = excused \ {s}
  /\ UNCHANGED <<phase, pending>>

Exit ==
  /\ phase # "down" /\ phase' = "down"
  /\ inbox' = <<>> /\ pending' = {} /\ asked' = {} /\ excused' = {}
  /\ reg' = {} /\ filter' = {} /\ prefixes' = {} /\ gate' = {}
  /\ UNCHANGED world

Init ==
  /\ onBus = {} /\ exports = [s \in Service |-> {}]
  /\ phase = "down" /\ inbox = <<>> /\ pending = {} /\ asked = {} /\ excused = {}
  /\ reg = {} /\ filter = {} /\ prefixes = {} /\ gate = {}

Others ==
  \E s \in Service :
    \/ \E paths \in SUBSET Own(s) : Arrive(s, paths) \/ Reexport(s, paths)
    \/ Leave(s)
    \/ \E p \in Own(s) : Withdraw(s, p)
    \/ Answer(s) \/ AnswerTimesOut(s)

Dispatch == NameArrived \/ NameLeft \/ BareReply \/ RootReply

Next ==
  \/ Others
  \/ Create \/ StartScan \/ Exit
  \/ \E s \in Service : ScanNextService(s)
  \/ Dispatch

Spec == Init /\ [][Next]_vars

(***************************************************************************)
(* Fairness.  The main loop dispatches what the bus delivers and fires the *)
(* scan timer; a started process goes on to start the router; a service    *)
(* that was asked answers, unless the call times out first.                *)
(***************************************************************************)
Fairness ==
  /\ WF_vars(Dispatch)
  /\ WF_vars(StartScan)
  /\ WF_vars(\E s \in Service : ScanNextService(s))
  /\ \A s \in Service : WF_vars(Answer(s))

FairSpec == Spec /\ Fairness

(***************************************************************************)
(* Matching: process_advertisement asks three times, ever more precisely.  *)
(***************************************************************************)
Advert == [from : Address, maker : Maker, product : Product \cup {NoProduct}]

\* Seeded fault: the quick check does not look at the product indexes.
ShouldProcessPlain(R, a) ==
  \E p \in R : (p.kind = "mfgr" /\ p.maker = a.maker) \/ (p.kind = "addr" /\ p.addr = a.from)

ShouldProcess(R, a) ==
  \E p \in R : \/ p.kind \in MakerKinds /\ p.maker = a.maker
               \/ p.kind = "addr" /\ p.addr = a.from

InRange(p, a) == a.product # NoProduct /\ p.lo <= a.product /\ a.product <= p.hi

HasRegistration(R, a) ==
  \/ \E p \in OfKind(R, {"addr"}) : p.addr = a.from
  \/ /\ a.product # NoProduct
     /\ \/ \E p \in OfKind(R, {"mfgr_product"}) : p.maker = a.maker /\ p.product = a.product
        \/ \E p \in OfKind(R, {"mfgr_product_range"}) : p.maker = a.maker /\ InRange(p, a)
  \/ a.maker \in {p.maker : p \in OfKind(R, {"mfgr"})}

EmittedTo(R, a) ==
  {p \in OfKind(R, {"mfgr"}) : p.maker = a.maker}
  \cup {p \in OfKind(R, {"mfgr_product"}) : p.maker = a.maker /\ p.product = a.product}
  \cup {p \in OfKind(R, {"mfgr_product_range"}) : p.maker = a.maker /\ InRange(p, a)}
  \cup {p \in OfKind(R, {"addr"}) : p.addr = a.from}

ProcessAdvertisement(a) ==
  IF ShouldProcess(reg, a) /\ HasRegistration(reg, a) THEN EmittedTo(reg, a) ELSE {}

\* The tap lets a record through to the main loop.
TapPasses(a) == a.maker \in filter /\ (gate = {} \/ a.from \in gate)

(***************************************************************************)
(* Properties                                                              *)
(***************************************************************************)

\* Type invariant.
TypeOK ==
  /\ onBus \in SUBSET Service
  /\ exports \in [Service -> SUBSET Path]
  /\ \A s \in Service : exports[s] \subseteq Own(s) /\ (s \notin onBus => exports[s] = {})
  /\ phase \in {"down", "subscribed", "scanned"}
  /\ inbox \in Seq(Message)
  /\ pending \in SUBSET Service /\ asked \in SUBSET onBus /\ excused \in SUBSET onBus
  /\ reg \in SUBSET Path
  /\ filter \in SUBSET Maker /\ prefixes \in SUBSET Prefix /\ gate \in SUBSET Address

Waiting(m) == \E n \in DOMAIN inbox : inbox[n] = m

\* "When your service appears the router gets a NameOwnerChanged signal and
\* re-introspects you": there is no moment at which a service slips between the
\* subscription, the initial scan and the asynchronous answers.  What a service
\* exports is registered, or something that will look for it is under way; the
\* only excuses are a call that failed and objects no signal announces.
Underway(s) ==
  s \in pending \/ s \in asked \/ Waiting(Msg("arrived", s)) \/ Waiting(Msg("root", s))

NoneMissed ==
  phase = "scanned" =>
    \A s \in onBus \ excused : exports[s] \subseteq reg \/ Underway(s)

\* A service that stays and gives no excuse is registered in the end.
FoundInTheEnd ==
  \A s \in Service :
    <>[](phase # "down" /\ s \in onBus \ excused) => <>[](exports[s] \subseteq reg)

\* The signal goes to exactly the paths that want the advertisement: the quick
\* check and the full match before it lose none.
Wants(p, a) ==
  CASE p.kind = "mfgr" -> p.maker = a.maker
    [] p.kind = "mfgr_product" -> p.maker = a.maker /\ p.product = a.product
    [] p.kind = "mfgr_product_range" -> p.maker = a.maker /\ InRange(p, a)
    [] p.kind = "addr" -> p.addr = a.from
    [] OTHER -> FALSE

EveryConsumerServed ==
  \A a \in Advert : ProcessAdvertisement(a) = {p \in reg : Wants(p, a)}

\* What a service wants by manufacturer or product passes the tap's filter and
\* its address gate, strangers included, so that the router gets to see it.
MakersReachRouter ==
  phase # "down" =>
    \A a \in Advert, p \in OfKind(reg, MakerKinds) : Wants(p, a) => TapPasses(a)

=============================================================================
