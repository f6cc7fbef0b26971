--------------------------- MODULE OrionRolesProofs ---------------------------
(***************************************************************************)
(* Proofs about OrionRoles, for any number of edits: a mode switch that is *)
(* refused or fails never blocks the next one, and no change of role takes *)
(* a published device off the bus.                                         *)
(*                                                                         *)
(* The second needs what the code keeps between the role it remembers, the *)
(* service there is, the list of com.victronenergy.ble and the flags       *)
(* (InRole).  Its odd conjunct is that a unit in the alternator role is    *)
(* enabled as a dcdc as well: it came from there, and only the entry of    *)
(* the current role can be edited, so a restart, which begins as a dcdc,   *)
(* finds it enabled.                                                       *)
(***************************************************************************)
EXTENDS OrionRoles, TLAPS

Flags == [Role -> {0, 1}]

Fields ==
  {"flag", "listed", "current", "service", "connected", "item", "seen", "advertised"}

\* The role as a handler sees it or leaves it behind.
InRole(s) ==
  /\ DOMAIN s = Fields
  /\ s.flag \in Flags
  /\ s.listed = {s.service} \ {"none"}
  /\ s.service \in Role \cup {"none"} /\ s.connected \in BOOLEAN
  /\ s.service = "alternator" => s.flag["dcdc"] = 1
  /\ s.connected => s.service # "none" /\ s.flag[s.service] = 1

SlotType ==
  /\ job \in Requests \cup {Free}
  /\ job = Free <=> stage = "idle"

Inv == SlotType /\ ModeBusyBacked /\ InRole(Sight)

\* A device on the bus stays there, unless a swap fails.
Keeps(s, t) == s.connected /\ ~t.connected => t.service # t.current

(***************************************************************************)
(* What a handler does with the role.                                      *)
(***************************************************************************)

\* The publisher writes items and its own cache.
LEMMA PublishedInRole ==
  ASSUME NEW s, InRole(s), NEW path, NEW value
  PROVE  LET t == Published(s, path, value)
         IN  InRole(t) /\ t.service = s.service /\ t.listed = s.listed /\ t.flag = s.flag
             /\ t.connected = s.connected
BY DEF Published, InRole, Fields

\* Publishing changes nothing of the role, and connects what is enabled.
LEMMA PublishInRole ==
  ASSUME NEW s, InRole(s), NEW st
  PROVE  InRole(Publish(s, st)) /\ Keeps(s, Publish(s, st))
<1> DEFINE off == s.service # s.current \/ s.service \notin s.listed \/ s.flag[s.service] # 1
           t == Published(s, "state", StateFor(s.service, st, engaged))
           v == Published(t, "mode", ModeOf(st))
           u == IF busy THEN t ELSE v
           p == [u EXCEPT !.connected = TRUE, !.advertised = st]
<1>1. CASE off
  BY <1>1 DEF Publish, Keeps
<1>2. CASE ~off
  <2>1. /\ InRole(t) /\ t.service = s.service /\ t.flag = s.flag
    BY PublishedInRole
  <2> HIDE DEF t
  <2>2. /\ InRole(v) /\ v.service = t.service /\ v.flag = t.flag
    BY <2>1, PublishedInRole
  <2> HIDE DEF v
  <2>3. /\ InRole(u) /\ u.service = s.service /\ u.flag = s.flag
    BY <2>1, <2>2
  <2>4. Publish(s, st) = p
    BY <1>2 DEF Publish, t, v
  <2> HIDE DEF u
  <2>5. InRole(p) /\ p.connected = TRUE
    BY <1>2, <2>3 DEF InRole, Fields
  <2>6. QED
    BY <2>4, <2>5 DEF Keeps
<1>3. QED
  BY <1>1, <1>2

\* A swap to the role that is needed starts from an enabled role, and the flag
\* goes with it.
LEMMA SwappedInRole ==
  ASSUME NEW s, InRole(s), NEW role \in Role, role # s.current,
         s.current \in s.listed, s.flag[s.current] = 1,
         NEW t \in Swapped(s, role)
  PROVE  InRole(t) /\ Keeps(s, t)
<1>1. /\ s.service \in Role /\ s.current = s.service /\ s.flag[s.service] = 1
  BY DEF InRole
<1> DEFINE c == [s EXCEPT !.flag[role] = 1]
           g == TornDown(c)
           r == Registered(g, role)
           h == HalfRegistered(g, role)
<1>2. Carried(s, role) = c
  BY <1>1 DEF Carried, Role
<1>3. /\ DOMAIN c = Fields /\ c.flag = [s.flag EXCEPT ![role] = 1]
      /\ c.listed = s.listed /\ c.service = s.service /\ c.current = s.current
  BY DEF InRole, Fields
<1> HIDE DEF c
<1>4. /\ DOMAIN g = Fields /\ g.flag = c.flag /\ g.listed = {} /\ g.service = "none"
      /\ g.connected = FALSE /\ g.current = s.current
  BY <1>3 DEF InRole, Fields, TornDown
<1> HIDE DEF g
<1>5. /\ c.flag \in Flags /\ c.flag[role] = 1
      /\ role = "alternator" => c.flag["dcdc"] = 1
  BY <1>1, <1>3 DEF InRole, Flags, Role
<1>6. /\ DOMAIN r = Fields /\ r.flag = c.flag /\ r.listed = {role} /\ r.service = role
      /\ r.current = role /\ (r.connected <=> r.flag[role] = 1) /\ r.connected \in BOOLEAN
  BY <1>4 DEF Fields, Registered
<1>7. /\ DOMAIN h = Fields /\ h.flag = c.flag /\ h.listed = {role} /\ h.service = role
      /\ h.connected = FALSE /\ h.current = s.current
  BY <1>4 DEF Fields, Registered, HalfRegistered
<1> HIDE DEF r, h
<1>8. InRole(g) /\ g.service = "none" /\ g.service # g.current
  BY <1>1, <1>4, <1>5 DEF InRole, Role
<1>9. InRole(r) /\ r.connected
  BY <1>5, <1>6 DEF InRole, Role
<1>10. InRole(h) /\ h.service # h.current
  BY <1>5, <1>7 DEF InRole, Role
<1>11. t = r \/ t = g \/ t = h
  BY <1>2 DEF Swapped, r, g, h
<1>12. QED
  BY <1>8, <1>9, <1>10, <1>11 DEF Keeps

LEMMA AdvertisementInRole ==
  ASSUME Inv, Advertisement
  PROVE  InRole(Sight') /\ Keeps(Sight, Sight')
<1> DEFINE st == DeviceState
<1>1. IsDeviceEnabled
  BY DEF Advertisement
<1>2. PICK s \in EnsureRoleForState(Sight, st) : Leave(Publish(s, st))
  BY DEF Advertisement
<1>3. Needed(st) \in Role
  BY DEF Needed, Role
<1>4. InRole(Sight) /\ Sight.current \in Sight.listed /\ Sight.flag[Sight.current] = 1
  BY <1>1 DEF Inv, IsDeviceEnabled, Sight
<1> DEFINE p == Publish(s, st)
<1>5. InRole(s) /\ Keeps(Sight, s)
  <2>1. CASE Needed(st) = Sight.current
    BY <1>2, <1>4, <2>1 DEF EnsureRoleForState, Keeps
  <2>2. CASE Needed(st) # Sight.current
    BY <1>2, <1>3, <1>4, <2>2, SwappedInRole DEF EnsureRoleForState
  <2>3. QED
    BY <2>1, <2>2
<1>6. InRole(p) /\ Keeps(s, p) /\ (s.service # s.current => p = s)
  BY <1>5, PublishInRole DEF Publish
<1> HIDE DEF p
<1>7. Leave(p)
  BY <1>2 DEF p
<1>8. InRole(Sight')
  BY <1>6, <1>7 DEF Leave, Sight, InRole, Fields
<1>9. Keeps(Sight, Sight')
  BY <1>5, <1>6, <1>7 DEF Keeps, Leave, Sight
<1>10. QED
  BY <1>8, <1>9

(***************************************************************************)
(* The actions.                                                            *)
(***************************************************************************)

\* The role is what it was when none of its parts changes.
LEMMA RoleStays ==
  ASSUME Inv, flag' = flag, UNCHANGED <<listed, current, service, connected>>
  PROVE  InRole(Sight') /\ Keeps(Sight, Sight')
BY DEF Inv, InRole, Sight, Keeps, Fields

\* What the drivers may do to the writer.
WriterStep ==
  \/ job' = job /\ stage' = stage
  \/ job = Free /\ job' \in Requests /\ stage' = "queued"

\* A write of /Mode marks itself only if the writer takes it.
LEMMA OnModeWriteInv ==
  ASSUME Inv, NEW mode \in Mode, OnModeWrite(mode)
  PROVE  SlotType' /\ ModeBusyBacked' /\ WriterStep
<1> DEFINE r == [dev |-> Unit, val |-> mode]
<1>1. PICK w \in Starts(Writer) :
        Become(ModeRequest(w, mode).w) /\ busy' = ModeRequest(w, mode).busy
  BY DEF OnModeWrite
<1>2. job = Free /\ stage = "idle" /\ busy = FALSE
  BY DEF OnModeWrite, Busy, Writer, Inv, SlotType, ModeBusyBacked
<1>3. /\ w.job = Free /\ w.stage = "idle"
      /\ DOMAIN w = {"loop", "job", "stage", "agent"}
  BY <1>2 DEF Starts, Writer
<1>4. r \in Requests /\ r # Free
  BY FreeAssumption DEF Requests
<1>5. CASE Accepts(w)
  <2>1. ModeRequest(w, mode) = [w |-> Opened(w, r), busy |-> TRUE]
    BY <1>5 DEF ModeRequest
  <2> HIDE DEF r
  <2>2. Opened(w, r).job = r /\ Opened(w, r).stage = "queued"
    BY <1>3 DEF Opened
  <2>3. job' = r /\ stage' = "queued" /\ busy' = TRUE
    BY <1>1, <2>1, <2>2 DEF Become
  <2>4. QED
    BY <1>2, <1>4, <2>3 DEF SlotType, ModeBusyBacked, WriterStep
<1>6. CASE ~Accepts(w)
  <2>1. ModeRequest(w, mode) = [w |-> w, busy |-> FALSE]
    BY <1>6 DEF ModeRequest
  <2>2. job' = Free /\ stage' = "idle" /\ busy' = FALSE
    BY <1>1, <1>3, <2>1 DEF Become
  <2>3. QED
    BY <1>2, <2>2 DEF SlotType, ModeBusyBacked, WriterStep
<1>7. QED
  BY <1>5, <1>6

\* Stages follow one another while the request stands; its end clears both.
LEMMA SessionInv ==
  ASSUME Inv, Session
  PROVE  Inv' /\ Keeps(Sight, Sight')
<1>1. flag' = flag /\ UNCHANGED <<listed, current, service, connected>>
  BY DEF Session, ModeSent, ModeDone, orionVars, roleVars
<1>2. CASE ModeDone
  <2>1. job' = Free /\ stage' = "idle" /\ busy' = FALSE
    BY <1>2 DEF ModeDone, Become, Finished, Writer
  <2>2. QED
    BY <1>1, <2>1, RoleStays DEF Inv, SlotType, ModeBusyBacked
<1>3. CASE ~ModeDone
  <2>1. job' = job /\ stage' # "idle" /\ stage # "idle" /\ busy' = busy
    BY <1>3 DEF Session, Connect, ModeSent, SendRequest, Complete, Fail, orionVars
  <2>2. QED
    BY <1>1, <2>1, RoleStays DEF Inv, SlotType, ModeBusyBacked
<1>4. QED
  BY <1>2, <1>3

\* Only the entry of the current role is there to be edited.
LEMMA OnEnabledChangedInRole ==
  ASSUME Inv, NEW role \in Role, OnEnabledChanged(role)
  PROVE  InRole(Sight') /\ (connected /\ ~connected' => flag'[service] = 0)
<1>1. /\ role \in listed /\ flag' = [flag EXCEPT ![role] = 1 - @]
      /\ connected' = IF role = service THEN flag'[role] = 1 ELSE connected
      /\ UNCHANGED <<listed, current, service>>
  BY DEF OnEnabledChanged
<1>2. /\ flag \in Flags /\ listed = {service} \ {"none"} /\ service = role
      /\ service = "alternator" => flag["dcdc"] = 1
  BY <1>1 DEF Inv, InRole, Sight, Role
<1>3. /\ flag' \in Flags /\ flag'[role] \in {0, 1}
      /\ role = "alternator" => flag'["dcdc"] = 1
  BY <1>1, <1>2 DEF Flags, Role
<1>4. (connected' <=> flag'[role] = 1) /\ connected' \in BOOLEAN
  BY <1>1, <1>2
<1>5. QED
  BY <1>1, <1>2, <1>3, <1>4 DEF InRole, Sight, Fields, Role

\* The service begins as a dcdc, enabled if it was on the bus before.
LEMMA FreshInRole ==
  ASSUME NEW flags \in Flags
  PROVE  InRole(Fresh(flags))
<1> DEFINE s == Fresh(flags)
<1>1. /\ DOMAIN s = Fields /\ s.flag = flags /\ s.listed = {"dcdc"}
      /\ s.service = "dcdc" /\ s.current = "dcdc"
      /\ (s.connected <=> flags["dcdc"] = 1) /\ s.connected \in BOOLEAN
  BY DEF Fresh, Fields
<1> HIDE DEF s
<1>2. InRole(s)
  BY <1>1 DEF InRole, Role
<1>3. QED
  BY <1>2 DEF s

LEMMA RestartInv ==
  ASSUME Inv, Restart
  PROVE  Inv' /\ Keeps(Sight, Sight')
<1>1. flag \in Flags /\ InRole(Fresh(flag))
  BY FreshInRole DEF Inv, InRole, Sight
<1> DEFINE s == Fresh(flag)
<1>2. s.flag = flag /\ (s.connected <=> flag["dcdc"] = 1)
  BY DEF Fresh
<1> HIDE DEF s
<1>3. Leave(s)
  BY DEF Restart, s
<1>4. InRole(Sight')
  BY <1>1, <1>3 DEF Leave, Sight, InRole, Fields, s
<1>5. Keeps(Sight, Sight')
  <2>1. connected => flag["dcdc"] = 1
    BY DEF Inv, InRole, Sight, Role
  <2>2. QED
    BY <1>2, <1>3, <2>1 DEF Leave, Sight, Keeps
<1>6. SlotType' /\ ModeBusyBacked'
  BY DEF Restart, GattRestart, SlotType, ModeBusyBacked
<1>7. QED
  BY <1>4, <1>5, <1>6 DEF Inv

LEMMA InitInv == Init => Inv
<1> SUFFICES ASSUME Init
             PROVE  Inv
  OBVIOUS
<1>1. SlotType /\ ModeBusyBacked
  BY DEF Init, GattInit, SlotType, ModeBusyBacked
<1>2. flag \in Flags
  BY DEF Init, Flags
<1>3. InRole(Sight)
  BY <1>2 DEF Init, InRole, Sight, Fields, Role
<1>4. QED
  BY <1>1, <1>3 DEF Inv

\* What leaves the bus was disabled or dropped by a swap that failed.
Stays == connected /\ ~connected' => flag'[service] = 0 \/ service' # current'

LEMMA NextInv == Inv /\ [Next]_vars => Inv' /\ Stays
<1> SUFFICES ASSUME Inv, [Next]_vars
             PROVE  Inv' /\ Stays
  OBVIOUS
<1>1. Keeps(Sight, Sight') => Stays
  BY DEF Keeps, Stays, Sight
<1>2. CASE UNCHANGED <<job, stage, busy>> /\ InRole(Sight') /\ Stays
  BY <1>2 DEF Inv, SlotType, ModeBusyBacked
<1>3. CASE Advertisement
  BY <1>1, <1>2, <1>3, AdvertisementInRole DEF Advertisement, gattVars
<1>4. CASE Session
  BY <1>1, <1>4, SessionInv
<1>5. ASSUME NEW mode \in Mode, OnModeWrite(mode)
      PROVE  Inv' /\ Stays
  <2>1. flag' = flag /\ UNCHANGED <<listed, current, service, connected>>
    BY <1>5 DEF OnModeWrite
  <2>2. QED
    BY <1>1, <1>5, <2>1, OnModeWriteInv, RoleStays DEF Inv
<1>6. ASSUME NEW role \in Role, OnEnabledChanged(role)
      PROVE  Inv' /\ Stays
  <2>1. UNCHANGED <<job, stage, busy>>
    BY <1>6 DEF OnEnabledChanged, gattVars
  <2>2. QED
    BY <1>2, <1>6, <2>1, OnEnabledChangedInRole DEF Stays
<1>7. CASE Restart
  BY <1>1, <1>7, RestartInv
<1>8. CASE HeartbeatDue \/ (\E on \in BOOLEAN : OnLinkWrite(on)) \/ UnitChanges \/ UNCHANGED vars
  <2>1. UNCHANGED <<job, stage, busy, flag, listed, current, service, connected>>
    BY <1>8 DEF HeartbeatDue, OnLinkWrite, UnitChanges, vars, gattVars, orionVars, roleVars
  <2>2. QED
    BY <1>1, <1>2, <2>1, RoleStays
<1>9. QED
  BY <1>3, <1>4, <1>5, <1>6, <1>7, <1>8 DEF Next

(***************************************************************************)
(* Types.                                                                  *)
(***************************************************************************)
States == {"off", "supply", "charging"}

Items ==
  [mode : Mode, state : States \cup {"external"}, status : {"standalone", "dvcc"}]

\* What a handler sees and leaves behind, apart from the role.
Shown(s) == s.item \in Items /\ s.advertised \in States /\ s.current \in Role

SlotMore ==
  /\ loop \in {"down", "up", "failed"} /\ stage \in Stage
  /\ agent \subseteq (IF job = Free THEN {} ELSE {Unit}) /\ bonded \subseteq Device
  /\ busy \in BOOLEAN

World == unit \in [on : BOOLEAN, charges : BOOLEAN] /\ engaged \in BOOLEAN /\ edits \in 0 .. Edits

TypeInv == SlotMore /\ World /\ Shown(Sight)

LEMMA PublishedShown ==
  ASSUME NEW s, InRole(s), Shown(s), NEW path, NEW value,
         \/ path = "mode" /\ value \in Mode
         \/ path = "state" /\ value \in States \cup {"external"}
  PROVE  Shown(Published(s, path, value))
<1> DEFINE i == [s.item EXCEPT ![path] = value]
           q == [s.seen EXCEPT ![path] = value, !.due = s.seen.due \ {path}]
           t == [s EXCEPT !.item = i, !.seen = q]
<1>1. i \in Items
  BY DEF Shown, Items
<1> HIDE DEF i
<1>2. t.item = i /\ t.advertised = s.advertised /\ t.current = s.current
  BY DEF InRole, Fields
<1>3. Shown(t)
  BY <1>1, <1>2 DEF Shown
<1>4. Published(s, path, value) \in {s, t}
  BY DEF Published, i, InRole, Fields
<1> HIDE DEF t
<1>5. QED
  BY <1>3, <1>4

LEMMA PublishShown ==
  ASSUME NEW s, InRole(s), Shown(s), NEW st \in States, engaged \in BOOLEAN
  PROVE  Shown(Publish(s, st))
<1> DEFINE off == s.service # s.current \/ s.service \notin s.listed \/ s.flag[s.service] # 1
           t == Published(s, "state", StateFor(s.service, st, engaged))
           v == Published(t, "mode", ModeOf(st))
           u == IF busy THEN t ELSE v
           p == [u EXCEPT !.connected = TRUE, !.advertised = st]
<1>1. CASE off
  BY <1>1 DEF Publish
<1>2. CASE ~off
  <2>1. StateFor(s.service, st, engaged) \in States \cup {"external"} /\ ModeOf(st) \in Mode
    BY DEF StateFor, DerivedState, ModeOf, Mode
  <2>2. InRole(t) /\ Shown(t)
    BY <2>1, PublishedInRole, PublishedShown
  <2>3. Publish(s, st) = p
    BY <1>2 DEF Publish
  <2> HIDE DEF t
  <2>4. InRole(v) /\ Shown(v)
    BY <2>1, <2>2, PublishedInRole, PublishedShown
  <2> HIDE DEF v
  <2>5. InRole(u) /\ Shown(u)
    BY <2>2, <2>4
  <2> HIDE DEF u
  <2>6. Shown(p)
    BY <2>5 DEF Shown, InRole, Fields
  <2>7. QED
    BY <2>3, <2>6
<1>3. QED
  BY <1>1, <1>2

LEMMA SwappedShown ==
  ASSUME NEW s, InRole(s), Shown(s), NEW role \in Role, NEW t \in Swapped(s, role)
  PROVE  Shown(t)
<1> DEFINE c == Carried(s, role)
           g == TornDown(c)
           r == Registered(g, role)
           h == HalfRegistered(g, role)
<1>1. /\ DOMAIN c = Fields /\ c.item = s.item /\ c.advertised = s.advertised
      /\ c.current = s.current
  BY DEF Carried, InRole, Fields
<1> HIDE DEF c
<1>2. /\ DOMAIN g = Fields /\ g.item = s.item /\ g.advertised = s.advertised
      /\ g.current = s.current
  BY <1>1 DEF TornDown, Fields
<1> HIDE DEF g
<1>3. r.item = NewItem /\ r.advertised = s.advertised /\ r.current = role
  BY <1>2 DEF Registered, Fields
<1> HIDE DEF r
<1>4. h.item = NewItem /\ h.advertised = s.advertised /\ h.current = s.current
  BY <1>2 DEF Registered, HalfRegistered, Fields
<1> HIDE DEF h
<1>5. Shown(g) /\ Shown(r) /\ Shown(h)
  BY <1>2, <1>3, <1>4 DEF Shown, NewItem, Items, States, Mode
<1>6. t = r \/ t = g \/ t = h
  BY DEF Swapped, r, g, h, c
<1>7. QED
  BY <1>5, <1>6

LEMMA AdvertisementShown ==
  ASSUME Inv, World, Shown(Sight), Advertisement
  PROVE  Shown(Sight')
<1> DEFINE st == DeviceState
<1>1. PICK s \in EnsureRoleForState(Sight, st) : Leave(Publish(s, st))
  BY DEF Advertisement
<1>2. st \in States /\ Needed(st) \in Role
  BY DEF DeviceState, States, Needed, Role
<1>3. Sight.current \in Sight.listed /\ Sight.flag[Sight.current] = 1 /\ InRole(Sight)
  BY DEF Advertisement, IsDeviceEnabled, Sight, Inv
<1> HIDE DEF st
<1>4. InRole(s) /\ Shown(s)
  BY <1>1, <1>2, <1>3, SwappedInRole, SwappedShown DEF EnsureRoleForState
<1> DEFINE p == Publish(s, st)
<1>5. Shown(p)
  BY <1>2, <1>4, PublishShown DEF World
<1>6. Leave(p)
  BY <1>1
<1> HIDE DEF p
<1>7. QED
  BY <1>5, <1>6 DEF Leave, Shown, Sight

LEMMA SlotMoreInv == Inv /\ SlotMore /\ [Next]_vars => SlotMore'
<1> SUFFICES ASSUME Inv, SlotMore, [Next]_vars
             PROVE  SlotMore'
  OBVIOUS
<1>1. CASE ModeDone
  BY <1>1 DEF ModeDone, Become, Finished, Writer, SlotMore, Stage
<1>2. CASE Restart
  BY <1>2 DEF Restart, GattRestart, SlotMore, Stage
<1>3. CASE ModeSent
  <2>1. job \in Requests /\ job.dev = Unit
    BY <1>3 DEF ModeSent, SendRequest, Inv, SlotType, Requests
  <2>2. QED
    BY <1>3, <2>1, OrionAssumption DEF ModeSent, SendRequest, SlotMore, Stage
<1>4. CASE (Connect \/ Complete \/ Fail) /\ UNCHANGED orionVars
  BY <1>4 DEF Connect, Complete, Fail, orionVars, SlotMore, Stage
<1>5. ASSUME NEW mode \in Mode, OnModeWrite(mode)
      PROVE  SlotMore'
  <2> DEFINE r == [dev |-> Unit, val |-> mode]
  <2>1. PICK w \in Starts(Writer) :
          Become(ModeRequest(w, mode).w) /\ busy' = ModeRequest(w, mode).busy
    BY <1>5 DEF OnModeWrite
  <2>2. job = Free /\ agent = {} /\ UNCHANGED bonded
    BY <1>5 DEF OnModeWrite, Busy, Writer, SlotMore
  <2>3. /\ w.loop \in {"down", "up", "failed"} /\ w.job = Free /\ w.stage = stage
        /\ w.agent = {} /\ DOMAIN w = {"loop", "job", "stage", "agent"}
    BY <2>2 DEF Starts, Writer, SlotMore
  <2>4. CASE Accepts(w)
    <3>1. ModeRequest(w, mode) = [w |-> Opened(w, r), busy |-> TRUE]
      BY <2>4 DEF ModeRequest
    <3>2. r.dev = Unit /\ r # Free
      BY FreeAssumption DEF Requests
    <3> HIDE DEF r
    <3>3. /\ Opened(w, r).loop = w.loop /\ Opened(w, r).job = r
          /\ Opened(w, r).stage = "queued" /\ Opened(w, r).agent \subseteq {Unit}
      BY <2>3, <3>2 DEF Opened, AgentFor
    <3>4. QED
      BY <2>1, <2>2, <2>3, <3>1, <3>2, <3>3 DEF Become, SlotMore, Stage
  <2>5. CASE ~Accepts(w)
    <3>1. ModeRequest(w, mode) = [w |-> w, busy |-> FALSE]
      BY <2>5 DEF ModeRequest
    <3>2. QED
      BY <2>1, <2>2, <2>3, <3>1 DEF Become, SlotMore
  <2>6. QED
    BY <2>4, <2>5
<1>6. CASE UNCHANGED <<gattVars, busy>>
  BY <1>6 DEF gattVars, SlotMore
<1>7. QED
  BY <1>1, <1>2, <1>3, <1>4, <1>5, <1>6
     DEF Next, Session, Advertisement, HeartbeatDue, OnEnabledChanged, OnLinkWrite,
         UnitChanges, vars, orionVars

LEMMA WorldInv == World /\ [Next]_vars => World'
<1> SUFFICES ASSUME World, [Next]_vars
             PROVE  World'
  OBVIOUS
<1>1. CASE Edit
  <2>1. edits' \in 0 .. Edits
    BY <1>1, OrionAssumption DEF Edit, World
  <2>2. unit' \in [on : BOOLEAN, charges : BOOLEAN] /\ engaged' \in BOOLEAN
    BY DEF World, Next, Advertisement, HeartbeatDue, Session, ModeSent, ModeDone, OnModeWrite,
       OnEnabledChanged, OnLinkWrite, UnitChanges, Restart, vars, orionVars
  <2>3. QED
    BY <2>1, <2>2 DEF World
<1>2. CASE ModeSent
  BY <1>2 DEF ModeSent, World
<1>3. CASE UNCHANGED <<unit, engaged, edits>>
  BY <1>3 DEF World
<1>4. QED
  BY <1>1, <1>2, <1>3 DEF Next, Advertisement, HeartbeatDue, Session, ModeDone, OnModeWrite,
     OnEnabledChanged, OnLinkWrite, UnitChanges, Restart, vars, orionVars

LEMMA ShownInv == Inv /\ World /\ Shown(Sight) /\ [Next]_vars => Shown(Sight')
<1> SUFFICES ASSUME Inv, World, Shown(Sight), [Next]_vars
             PROVE  Shown(Sight')
  OBVIOUS
<1>1. CASE Advertisement
  BY <1>1, AdvertisementShown
<1>2. ASSUME NEW mode \in Mode, OnModeWrite(mode)
      PROVE  Shown(Sight')
  BY <1>2 DEF OnModeWrite, Shown, Sight, Items
<1>3. ASSUME NEW on \in BOOLEAN, OnLinkWrite(on)
      PROVE  Shown(Sight')
  BY <1>3 DEF OnLinkWrite, DerivedState, Shown, Sight, Items
<1>4. CASE Restart
  BY <1>4 DEF Restart, Leave, Fresh, NewItem, Shown, Sight, Items, States, Mode, Role
<1>5. CASE UNCHANGED <<item, advertised, current>>
  BY <1>5 DEF Shown, Sight
<1>6. QED
  BY <1>1, <1>2, <1>3, <1>4, <1>5 DEF Next, HeartbeatDue, Session, ModeSent, ModeDone,
     OnEnabledChanged, UnitChanges, vars, orionVars, roleVars

(***************************************************************************)
(* The theorems.                                                           *)
(***************************************************************************)

\* The inductive invariant holds in every behaviour.
THEOREM InductiveInvariant == Spec => []Inv
  BY InitInv, NextInv, PTL DEF Spec

\* _mode_busy stands for a session that will report back, on whatever path a
\* write of /Mode is refused or fails.
THEOREM ModeBusyBackedAlways == Spec => []ModeBusyBacked
<1>1. Inv => ModeBusyBacked
  BY DEF Inv
<1>2. QED
  BY <1>1, InductiveInvariant, PTL

\* A device on the bus leaves it only because its user disables it or because
\* a swap of roles fails (_carry_enabled_flag_to before _swap_role).
THEOREM StaysPublishedAlways == Spec => StaysPublished
<1>1. Inv /\ [Next]_vars
      => [connected /\ ~connected' => flag'[service] = 0 \/ service' # current']_vars
  BY NextInv DEF Stays
<1>2. QED
  BY <1>1, InductiveInvariant, PTL DEF Spec, StaysPublished

\* The types of OrionRoles: among them that a pairing agent waits only while a
\* session is under way, and that /Mode and /State show nothing the unit cannot
\* be in, whichever role and path wrote them.
THEOREM TypeCorrect == Spec => []TypeOK
<1>1. Init => TypeInv
  <2> SUFFICES ASSUME Init
               PROVE  TypeInv
    OBVIOUS
  <2>1. SlotMore
    BY DEF Init, GattInit, SlotMore, Stage
  <2>2. World
    <3>1. unit \in [on : BOOLEAN, charges : BOOLEAN] /\ engaged = FALSE /\ edits = 0
      BY DEF Init
    <3>2. edits \in 0 .. Edits
      BY <3>1, OrionAssumption
    <3>3. QED
      BY <3>1, <3>2 DEF World
  <2>3. Shown(Sight)
    BY DEF Init, Shown, Sight, NewItem, Items, States, Mode, Role
  <2>4. QED
    BY <2>1, <2>2, <2>3 DEF TypeInv
<1>2. Inv /\ TypeInv /\ [Next]_vars => TypeInv'
  BY SlotMoreInv, WorldInv, ShownInv DEF TypeInv
<1>3. Inv /\ TypeInv => TypeOK
  <2> SUFFICES ASSUME Inv, TypeInv
               PROVE  TypeOK
    OBVIOUS
  <2>1. /\ flag \in Flags /\ listed \subseteq Role /\ service \in Role \cup {"none"}
        /\ connected \in BOOLEAN
    BY DEF Inv, InRole, Sight
  <2>2. /\ item \in Items /\ advertised \in States /\ current \in Role
    BY DEF TypeInv, Shown, Sight
  <2>3. QED
    BY <2>1, <2>2 DEF Inv, SlotType, TypeInv, SlotMore, World, TypeOK, Flags, Items, States
<1>4. QED
  BY <1>1, <1>2, <1>3, InductiveInvariant, PTL DEF Spec

\* The writer implements a register session for the mode writes: each is taken
\* when the slot is free, sent at most once and answered once (write_register).
THEOREM OneSessionAlways == Spec => OneSession
<1>1. Init => Promise!SessionInit
  BY DEF Init, GattInit, Promise!SessionInit
<1>2. Inv /\ [Next]_vars => [Promise!SessionNext]_(Promise!sessionVars)
  <2> SUFFICES ASSUME Inv, [Next]_vars
               PROVE  [Promise!SessionNext]_(Promise!sessionVars)
    OBVIOUS
  <2> USE DEF Promise!SessionNext, Promise!sessionVars, Promise!Ask, Promise!Send,
          Promise!Succeed, Promise!Give, Promise!Answer, Promise!Abandon
  <2>1. CASE Session
    BY <2>1 DEF Session, Connect, ModeSent, SendRequest, Complete, Fail, ModeDone, Settled,
       Become, Finished, Writer, orionVars
  <2>2. CASE WriterStep
    BY <2>2 DEF WriterStep, Inv, SlotType
  <2>3. CASE Restart
    BY <2>3 DEF Restart, GattRestart
  <2>4. UNCHANGED <<job, stage>> => WriterStep
    BY DEF WriterStep
  <2>5. QED
    BY <2>1, <2>2, <2>3, <2>4, OnModeWriteInv
       DEF Next, Advertisement, HeartbeatDue, OnEnabledChanged, OnLinkWrite, UnitChanges,
           vars, gattVars
<1>3. QED
  BY <1>1, <1>2, InductiveInvariant, PTL DEF Spec, OneSession, Promise!SessionSpec
===============================================================================
