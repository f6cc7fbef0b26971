------------------------ MODULE BmsLinkFollowerProofs -------------------------
(***************************************************************************)
(* Proofs about BmsLinkFollower, for every set of chargers and of limits   *)
(* and however many calls have been given up.                              *)
(*                                                                         *)
(* The follower learns of a success only when the main loop has served     *)
(* everything it ever sent: an answer "ok" means that the queue is empty   *)
(* (Acknowledged).  So no call given up earlier is behind an               *)
(* acknowledgement, and what was acknowledged is what the service holds.   *)
(* From there it is kept that no release of a held charger is in the queue *)
(* outside the release of that charger (NoLateRelease), and no setpoint of *)
(* a charger whose limits are remembered (Remembered).                     *)
(***************************************************************************)
EXTENDS BmsLinkFollower, TLAPS

Service ==
  [present : BOOLEAN, engaged : BOOLEAN, bmsPresent : {0, 1}, networkMode : {0, 1},
   linkVoltage : Limit \cup {Unset}, linkCurrent : Limit \cup {Unset}]

SentPath == {"bmsPresent", "linkVoltage", "linkCurrent"}

Fits(path, v) == IF path = "bmsPresent" THEN v \in {0, 1} ELSE v \in Limit

SentCall == {m \in [dev : Device, path : SentPath, val : Limit \cup {0, 1}] :
               Fits(m.path, m.val)}

Pending == [dev : Device, path : SentPath, answer : {"awaited", "ok", "no"}]

Types ==
  /\ svc \in [Device -> Service]
  /\ limits \in Limit \cup {Unset}
  /\ calls \in Seq(SentCall)
  /\ held \in SUBSET Device /\ todo \in SUBSET Device
  /\ written \in [Device -> Limit \cup {Unset}]
  /\ goal \in Limit \cup {Unset}
  /\ call = NoCall \/ call \in Pending
  /\ voltOk \in BOOLEAN

Waiting == {calls[i] : i \in DOMAIN calls}

\* The value the call that is under way carries.
Value == IF call.path = "bmsPresent" THEN IF goal = Unset THEN 0 ELSE 1 ELSE goal

\* A service whose BMS is present is under control.
PresentEngages == \A c \in Device : svc[c].bmsPresent = 1 => svc[c].engaged

\* The call under way is the last of the queue until it is answered.
Underway ==
  call # NoCall =>
    /\ call.dev \in todo
    /\ call.path # "bmsPresent" => goal # Unset /\ call.dev \in held
    /\ call.answer = "awaited" =>
         calls # <<>> /\ calls[Len(calls)] = [dev |-> call.dev, path |-> call.path, val |-> Value]

Acknowledged ==
  call # NoCall /\ call.answer = "ok" =>
    calls = <<>> /\ svc[call.dev][call.path] = Value

NoLateRelease ==
  \A m \in Waiting : m.path = "bmsPresent" /\ m.val = 0 /\ m.dev \in held =>
    goal = Unset /\ m.dev \in todo

VoltageThere ==
  voltOk =>
    /\ call # NoCall /\ call.path = "linkCurrent"
    /\ svc[call.dev].linkVoltage = goal
    /\ \A m \in Waiting : ~(m.dev = call.dev /\ m.path = "linkVoltage")

Driving(c) == call # NoCall /\ call.dev = c /\ call.path # "bmsPresent"

Remembered ==
  \A c \in Device : written[c] # Unset =>
    /\ c \in held
    /\ \/ Driving(c)
       \/ /\ svc[c].linkVoltage = written[c] /\ svc[c].linkCurrent = written[c]
          /\ \A m \in Waiting : m.dev = c => m.path = "bmsPresent"

Inv ==
  /\ Types /\ PresentEngages /\ Underway /\ Acknowledged /\ NoLateRelease
  /\ HeldIsControlled /\ VoltageThere /\ Remembered

(***************************************************************************)
(* The queue and the service.                                              *)
(***************************************************************************)

\* A call is put at the end of the queue, or answered with an error at once.
LEMMA CallMade ==
  ASSUME Types, NEW c \in Device, NEW path \in SentPath, NEW v, Fits(path, v),
         Call(c, path, v)
  PROVE  /\ calls' \in Seq(SentCall)
         /\ Waiting' \subseteq Waiting \cup {[dev |-> c, path |-> path, val |-> v]}
         /\ call' \in Pending /\ call' # NoCall
         /\ call'.dev = c /\ call'.path = path /\ call'.answer \in {"awaited", "no"}
         /\ call'.answer = "awaited" =>
              calls' # <<>> /\ calls'[Len(calls')] = [dev |-> c, path |-> path, val |-> v]
<1> DEFINE m == [dev |-> c, path |-> path, val |-> v]
<1>1. m \in SentCall
  BY DEF SentCall, Fits, SentPath
<1>2. call' \in Pending /\ call'.dev = c /\ call'.path = path
      /\ call'.answer \in {"awaited", "no"}
  BY DEF Call, Pending
<1>3. call' # NoCall
  BY <1>2 DEF NoCall, SentPath
<1>4. CASE c \in OnBus
  <2>1. calls' = Append(calls, m) /\ calls \in Seq(SentCall)
    BY <1>4 DEF Call, Types
  <2>2. calls' \in Seq(SentCall) /\ Len(calls') = Len(calls) + 1
    BY <1>1, <2>1
  <2>3. \A i \in 1..Len(calls) : calls'[i] = calls[i]
    BY <2>1
  <2>4. calls'[Len(calls) + 1] = m
    BY <2>1
  <2>5. Waiting' \subseteq Waiting \cup {m}
    BY <2>1, <2>2, <2>3, <2>4 DEF Waiting
  <2>6. calls' # <<>> /\ calls'[Len(calls')] = m
    BY <2>2, <2>4
  <2>7. QED
    BY <1>2, <1>3, <2>2, <2>5, <2>6
<1>5. CASE c \notin OnBus
  <2>1. calls' = calls /\ call'.answer = "no"
    BY <1>5 DEF Call
  <2>2. QED
    BY <1>2, <1>3, <2>1 DEF Types, Waiting
<1>6. QED
  BY <1>4, <1>5

\* The main loop takes the head of the queue.
LEMMA Taken ==
  ASSUME NEW q \in Seq(SentCall), q # <<>>
  PROVE  /\ Head(q) \in SentCall /\ Head(q) = q[1] /\ Tail(q) \in Seq(SentCall)
         /\ Len(q) \in Nat \ {0} /\ Len(Tail(q)) = Len(q) - 1
         /\ \A i \in 1..(Len(q) - 1) : Tail(q)[i] = q[i + 1]
OBVIOUS

\* What storing a value does to a service: the path holds it, the other paths
\* keep theirs, a present BMS still means control.
LEMMA StoredService ==
  ASSUME NEW s \in Service, NEW path \in SentPath \cup {"networkMode"}, NEW v,
         IF path \in {"bmsPresent", "networkMode"} THEN v \in {0, 1} ELSE v \in Limit,
         s.bmsPresent = 1 => s.engaged
  PROVE  /\ Stored(s, path, v) \in Service
         /\ Stored(s, path, v)[path] = v
         /\ \A p \in SentPath \ {path} : Stored(s, path, v)[p] = s[p]
         /\ Stored(s, path, v).bmsPresent = 1 => Stored(s, path, v).engaged
<1>1. CASE path = "bmsPresent"
  BY <1>1 DEF Stored, EngagedBy, Service, SentPath
<1>2. CASE path = "networkMode"
  BY <1>2 DEF Stored, EngagedBy, Service, SentPath
<1>3. CASE path = "linkVoltage"
  BY <1>3 DEF Stored, EngagedBy, Service, SentPath
<1>4. CASE path = "linkCurrent"
  BY <1>4 DEF Stored, EngagedBy, Service, SentPath
<1>5. QED
  BY <1>1, <1>2, <1>3, <1>4 DEF SentPath

(***************************************************************************)
(* The environment.                                                        *)
(***************************************************************************)

\* What the user does at a mode switch and what leaves the bus changes no path
\* the follower writes, and a present BMS keeps control.
LEMMA ServicesChange ==
  ASSUME Inv, UNCHANGED <<limits, calls, memory, progress>>,
         svc' \in [Device -> Service],
         \A c \in Device : /\ \A p \in SentPath : svc'[c][p] = svc[c][p]
                           /\ svc'[c].bmsPresent = 1 => svc'[c].engaged
  PROVE  Inv'
<1>1. Types' /\ PresentEngages' /\ Underway' /\ NoLateRelease'
  BY DEF Inv, Types, PresentEngages, Underway, NoLateRelease, memory, progress, Value, Waiting
<1>2. Acknowledged'
  BY DEF Inv, Acknowledged, memory, progress, Value, Types, Pending
<1>3. HeldIsControlled'
  BY DEF Inv, HeldIsControlled, memory, progress, SentPath, Types
<1>4. VoltageThere'
  BY DEF Inv, VoltageThere, memory, progress, SentPath, Types, Pending, Waiting
<1>5. Remembered'
  BY DEF Inv, Remembered, memory, progress, SentPath, Driving, Waiting
<1>6. QED
  BY <1>1, <1>2, <1>3, <1>4, <1>5 DEF Inv

LEMMA SetModeInv ==
  ASSUME Inv, NEW c \in Device, NEW v \in {0, 1}, SetMode(c, v)
  PROVE  Inv'
<1> DEFINE s == Stored(svc[c], "networkMode", v)
<1>1. svc[c] \in Service /\ (svc[c].bmsPresent = 1 => svc[c].engaged)
  BY DEF Inv, Types, PresentEngages
<1>2. /\ s \in Service /\ (s.bmsPresent = 1 => s.engaged)
      /\ \A p \in SentPath : s[p] = svc[c][p]
  BY <1>1, StoredService DEF SentPath
<1>3. svc' = [svc EXCEPT ![c] = s]
  BY DEF SetMode
<1> HIDE DEF s
<1>4. /\ svc' \in [Device -> Service]
      /\ \A d \in Device : /\ \A p \in SentPath : svc'[d][p] = svc[d][p]
                           /\ svc'[d].bmsPresent = 1 => svc'[d].engaged
  BY <1>2, <1>3 DEF Inv, Types, PresentEngages
<1>5. QED
  BY <1>4, ServicesChange DEF SetMode

LEMMA ComeOrGoInv ==
  ASSUME Inv, NEW c \in Device, ComeOrGo(c)
  PROVE  Inv'
<1> DEFINE s == [svc[c] EXCEPT !.present = ~svc[c].present]
<1>1. svc[c] \in Service
  BY DEF Inv, Types
<1>2. s \in Service /\ s.engaged = svc[c].engaged /\ \A p \in SentPath : s[p] = svc[c][p]
  BY <1>1 DEF Service, SentPath
<1>3. svc' = [svc EXCEPT ![c] = s] /\ svc \in [Device -> Service]
  BY DEF ComeOrGo, Inv, Types
<1> HIDE DEF s
<1>4. svc' \in [Device -> Service]
  BY <1>2, <1>3
<1>5. \A d \in Device : /\ \A p \in SentPath : svc'[d][p] = svc[d][p]
                        /\ svc'[d].bmsPresent = 1 => svc'[d].engaged
  BY <1>2, <1>3 DEF SentPath, Inv, PresentEngages
<1>6. QED
  BY <1>4, <1>5, ServicesChange DEF ComeOrGo

LEMMA BmsChangesInv ==
  ASSUME Inv, NEW lim \in Limit \cup {Unset}, BmsChanges(lim)
  PROVE  Inv'
BY DEF BmsChanges, Inv, Types, PresentEngages, Underway, Acknowledged, NoLateRelease,
   HeldIsControlled, VoltageThere, Remembered, Driving, Value, Waiting, memory, progress

LEMMA RestartInv ==
  ASSUME Inv, Restart
  PROVE  Inv'
<1>1. svc' = [c \in Device |-> [NewService EXCEPT !.present = svc[c].present]]
  BY DEF Restart
<1>2. svc' \in [Device -> Service] /\ \A c \in Device : svc'[c].bmsPresent = 0
  BY <1>1 DEF Inv, Types, Service, NewService
<1>3. /\ calls' = <<>> /\ held' = {} /\ written' = NoChargers
      /\ todo' = {} /\ goal' = Unset /\ call' = NoCall /\ voltOk' = FALSE /\ limits' = limits
  BY DEF Restart
<1>4. Waiting' = {}
  BY <1>3 DEF Waiting
<1>5. Types'
  <2>1. calls' \in Seq(SentCall)
    BY <1>3
  <2>2. written' \in [Device -> Limit \cup {Unset}] /\ goal' \in Limit \cup {Unset}
    BY <1>3 DEF NoChargers
  <2>3. limits' \in Limit \cup {Unset}
    BY <1>3 DEF Inv, Types
  <2>4. QED
    BY <1>2, <1>3, <2>1, <2>2, <2>3 DEF Types
<1>6. Remembered'
  BY <1>3 DEF Remembered, NoChargers
<1>7. QED
  BY <1>2, <1>3, <1>4, <1>5, <1>6 DEF Inv, PresentEngages, Underway, Acknowledged,
     NoLateRelease, HeldIsControlled, VoltageThere

(***************************************************************************)
(* The main loop.                                                          *)
(***************************************************************************)

\* Serving a call: only a release in the queue can end the control of a charger,
\* and there is none of a held charger that is not being released.
LEMMA ServeInv ==
  ASSUME Inv, Serve
  PROVE  Inv'
<1> DEFINE m == Head(calls)
           s == Stored(svc[m.dev], m.path, m.val)
<1>1. calls \in Seq(SentCall) /\ calls # <<>> /\ calls' = Tail(calls)
  BY DEF Inv, Types, Serve
<1>2. /\ m \in SentCall /\ m = calls[1] /\ Tail(calls) \in Seq(SentCall)
      /\ Len(calls) \in Nat \ {0} /\ Len(Tail(calls)) = Len(calls) - 1
      /\ \A i \in 1..(Len(calls) - 1) : Tail(calls)[i] = calls[i + 1]
  BY <1>1, Taken
<1>3. m \in Waiting /\ Waiting' \subseteq Waiting
  BY <1>1, <1>2 DEF Waiting
<1>4. m.dev \in Device /\ m.path \in SentPath /\ Fits(m.path, m.val)
  BY <1>2 DEF SentCall
<1>5. svc[m.dev] \in Service /\ (svc[m.dev].bmsPresent = 1 => svc[m.dev].engaged)
  BY <1>4 DEF Inv, Types, PresentEngages
<1>6. /\ s \in Service /\ s[m.path] = m.val
      /\ \A q \in SentPath \ {m.path} : s[q] = svc[m.dev][q]
      /\ s.bmsPresent = 1 => s.engaged
  BY <1>4, <1>5, StoredService DEF Fits, SentPath
<1>7. /\ svc' = [svc EXCEPT ![m.dev] = s] /\ svc \in [Device -> Service]
      /\ UNCHANGED <<limits, held, written, todo, goal, voltOk>>
  BY DEF Serve, Inv, Types, memory
<1>8. call' = IF Awaited /\ Len(calls) = 1 THEN [call EXCEPT !.answer = "ok"] ELSE call
  BY DEF Serve
<1> HIDE DEF s, m
<1>9. svc' \in [Device -> Service]
  BY <1>6, <1>7
<1>10. /\ call # NoCall => call \in Pending
       /\ call' = NoCall <=> call = NoCall
       /\ call # NoCall => /\ call' \in Pending /\ call'.dev = call.dev
                           /\ call'.path = call.path
                           /\ call'.answer # call.answer =>
                                /\ call.answer = "awaited" /\ call'.answer = "ok"
                                /\ Len(calls) = 1
                           /\ call'.answer = "awaited" =>
                                call.answer = "awaited" /\ Len(calls) # 1
  BY <1>8 DEF Inv, Types, Pending, NoCall, SentPath, Awaited
<1>11. Types'
  BY <1>1, <1>2, <1>7, <1>9, <1>10 DEF Inv, Types
<1>12. PresentEngages'
  BY <1>6, <1>7 DEF Inv, PresentEngages
<1>13. Value' = Value \/ call = NoCall
  BY <1>7, <1>10 DEF Value
<1>14. Underway'
  <2>1. SUFFICES ASSUME call # NoCall, call'.answer = "awaited"
                 PROVE  calls' # <<>> /\ calls'[Len(calls')] =
                          [dev |-> call.dev, path |-> call.path, val |-> Value]
    BY <1>7, <1>10, <1>13 DEF Inv, Underway
  <2>2. Len(calls) > 1 /\ calls[Len(calls)] =
                            [dev |-> call.dev, path |-> call.path, val |-> Value]
    BY <1>2, <1>10, <2>1 DEF Inv, Underway
  <2>3. Len(calls') = Len(calls) - 1 /\ calls'[Len(calls) - 1] = calls[Len(calls)]
    BY <1>1, <1>2, <2>2
  <2>4. calls' # <<>>
    BY <1>1, <1>2, <2>2, <2>3
  <2>5. QED
    BY <2>2, <2>3, <2>4
<1>15. ASSUME call # NoCall, call'.answer = "ok"
       PROVE  /\ calls' = <<>> /\ svc'[call.dev][call.path] = Value
  <2>1. call.answer = "awaited" /\ Len(calls) = 1
    BY <1>1, <1>10, <1>15 DEF Inv, Acknowledged
  <2>2. m = [dev |-> call.dev, path |-> call.path, val |-> Value]
    BY <1>2, <1>15, <2>1 DEF Inv, Underway
  <2>3. calls' = <<>>
    BY <1>1, <1>2, <2>1
  <2>4. svc'[call.dev] = s
    BY <1>4, <1>7, <2>2
  <2>5. QED
    BY <1>6, <2>2, <2>3, <2>4
<1>16. Acknowledged'
  BY <1>10, <1>13, <1>15 DEF Acknowledged
<1>17. NoLateRelease'
  BY <1>3, <1>7 DEF Inv, NoLateRelease
<1>18. HeldIsControlled'
  <2>1. SUFFICES ASSUME NEW c \in held, ~(goal = Unset /\ c \in todo)
                 PROVE  svc'[c].bmsPresent = 1 /\ svc'[c].engaged
    BY <1>7 DEF HeldIsControlled
  <2>2. c \in Device /\ svc[c].bmsPresent = 1 /\ svc[c].engaged
    BY <2>1 DEF Inv, Types, HeldIsControlled
  <2>3. CASE c # m.dev
    BY <1>7, <2>2, <2>3
  <2>4. CASE c = m.dev
    <3>1. svc'[c] = s
      BY <1>7, <2>2, <2>4
    <3>2. m.path = "bmsPresent" => m.val = 1
      BY <1>3, <1>4, <2>1, <2>4 DEF Inv, NoLateRelease, Fits
    <3>3. s.bmsPresent = 1
      BY <1>6, <2>2, <2>4, <3>2 DEF SentPath
    <3>4. QED
      BY <1>6, <3>1, <3>3
  <2>5. QED
    BY <2>3, <2>4
<1>19. VoltageThere'
  <2>1. SUFFICES ASSUME voltOk
                 PROVE  svc'[call.dev].linkVoltage = goal
    BY <1>3, <1>7, <1>10 DEF Inv, VoltageThere
  <2>2. call \in Pending /\ svc[call.dev].linkVoltage = goal
    BY <1>10, <2>1 DEF Inv, VoltageThere
  <2>3. ~(m.dev = call.dev /\ m.path = "linkVoltage")
    BY <1>3, <2>1 DEF Inv, VoltageThere
  <2>4. QED
    BY <1>4, <1>6, <1>7, <2>2, <2>3 DEF SentPath, Pending
<1>20. Remembered'
  <2>1. SUFFICES ASSUME NEW c \in Device, written[c] # Unset, ~Driving(c)
                 PROVE  /\ svc'[c].linkVoltage = written[c]
                        /\ svc'[c].linkCurrent = written[c]
                        /\ \A n \in Waiting' : n.dev = c => n.path = "bmsPresent"
    BY <1>7, <1>10 DEF Inv, Remembered, Driving
  <2>2. /\ svc[c].linkVoltage = written[c] /\ svc[c].linkCurrent = written[c]
        /\ \A n \in Waiting : n.dev = c => n.path = "bmsPresent"
    BY <2>1 DEF Inv, Remembered
  <2>3. c = m.dev => m.path = "bmsPresent"
    BY <1>3, <2>2
  <2>4. QED
    BY <1>3, <1>4, <1>6, <1>7, <2>2, <2>3 DEF SentPath
<1>21. QED
  BY <1>11, <1>12, <1>14, <1>16, <1>17, <1>18, <1>19, <1>20 DEF Inv

LEMMA GiveUpInv ==
  ASSUME Inv, GiveUp
  PROVE  Inv'
<1>1. /\ call # NoCall /\ call \in Pending
      /\ call' = [call EXCEPT !.answer = "no"]
      /\ UNCHANGED <<svc, limits, calls, held, written, todo, goal, voltOk>>
  BY DEF GiveUp, Awaited, Inv, Types, memory
<1>2. /\ call' \in Pending /\ call' # NoCall /\ call'.dev = call.dev
      /\ call'.path = call.path /\ call'.answer = "no"
  BY <1>1 DEF Pending, NoCall, SentPath
<1>3. QED
  BY <1>1, <1>2 DEF Inv, Types, PresentEngages, Underway, Acknowledged, NoLateRelease,
     HeldIsControlled, VoltageThere, Remembered, Driving, Waiting

(***************************************************************************)
(* The follower.                                                           *)
(***************************************************************************)
LEMMA TickInv ==
  ASSUME Inv, NEW on \in SUBSET Device, NEW lim \in Limit \cup {Unset}, TickWith(on, lim)
  PROVE  Inv'
<1>1. /\ todo = {} /\ call = NoCall /\ call' = NoCall /\ UNCHANGED <<svc, limits, calls, voltOk>>
      /\ held' = held \cap on /\ goal' = lim /\ written' = Forgotten(on)
      /\ todo' = ToDrive(on, lim)
  BY DEF TickWith, Idle
<1>2. /\ todo' \in SUBSET Device /\ written' \in [Device -> Limit \cup {Unset}]
      /\ \A c \in Device : written'[c] # Unset => written[c] = written'[c] /\ c \notin held \ on
  BY <1>1 DEF ToDrive, Forgotten, Inv, Types
<1>3. Types'
  BY <1>1, <1>2 DEF Inv, Types
<1>4. NoLateRelease' /\ HeldIsControlled'
  BY <1>1 DEF Inv, NoLateRelease, HeldIsControlled, Waiting
<1>5. Remembered'
  BY <1>1, <1>2 DEF Inv, Remembered, Driving, Waiting
<1>6. PresentEngages' /\ Underway' /\ Acknowledged' /\ VoltageThere'
  BY <1>1 DEF Inv, PresentEngages, Underway, Acknowledged, VoltageThere, Waiting
<1>7. QED
  BY <1>3, <1>4, <1>5, <1>6 DEF Inv

\* A first call for a charger: what it sends is no release of a charger that is
\* held and not being released, and a setpoint makes the charger be driven.
LEMMA FirstCall ==
  ASSUME Inv, NEW c \in Device, NEW path \in {"bmsPresent", "linkVoltage"},
         NEW v, v = IF path = "bmsPresent" THEN IF goal = Unset THEN 0 ELSE 1 ELSE goal,
         Turn(c), UNCHANGED <<memory, todo, voltOk>>, Call(c, path, v),
         path = "linkVoltage" => goal # Unset /\ c \in held
  PROVE  Inv'
<1>1. /\ c \in todo /\ call = NoCall
      /\ UNCHANGED <<svc, limits, goal, held, written, todo, voltOk>>
  BY DEF Turn, memory
<1>2. Fits(path, v) /\ path \in SentPath
  BY DEF Fits, SentPath, Inv, Types
<1>3. /\ calls' \in Seq(SentCall)
      /\ Waiting' \subseteq Waiting \cup {[dev |-> c, path |-> path, val |-> v]}
      /\ call' \in Pending /\ call' # NoCall
      /\ call'.dev = c /\ call'.path = path /\ call'.answer \in {"awaited", "no"}
      /\ call'.answer = "awaited" =>
           calls' # <<>> /\ calls'[Len(calls')] = [dev |-> c, path |-> path, val |-> v]
  BY <1>2, CallMade DEF Inv
<1>4. Value' = v
  BY <1>1, <1>3 DEF Value
<1>5. Types' /\ PresentEngages' /\ HeldIsControlled'
  BY <1>1, <1>3 DEF Inv, Types, PresentEngages, HeldIsControlled
<1>6. Underway' /\ Acknowledged'
  BY <1>1, <1>3, <1>4 DEF Underway, Acknowledged
<1>7. NoLateRelease'
  BY <1>1, <1>3 DEF Inv, NoLateRelease
<1>8. ~voltOk /\ VoltageThere'
  BY <1>1 DEF Inv, VoltageThere
<1>9. Remembered'
  <2>1. SUFFICES ASSUME NEW d \in Device, written[d] # Unset, ~Driving(d)'
                 PROVE  /\ d \in held
                        /\ svc[d].linkVoltage = written[d] /\ svc[d].linkCurrent = written[d]
                        /\ \A n \in Waiting' : n.dev = d => n.path = "bmsPresent"
    BY <1>1 DEF Inv, Remembered
  <2>2. /\ d \in held
        /\ svc[d].linkVoltage = written[d] /\ svc[d].linkCurrent = written[d]
        /\ \A n \in Waiting : n.dev = d => n.path = "bmsPresent"
    BY <1>1, <2>1 DEF Inv, Remembered, Driving
  <2>3. d = c => path = "bmsPresent"
    BY <1>3, <2>1 DEF Driving
  <2>4. QED
    BY <1>3, <2>2, <2>3
<1>10. QED
  BY <1>5, <1>6, <1>7, <1>8, <1>9 DEF Inv

LEMMA SkipWrittenInv ==
  ASSUME Inv, NEW c \in Device, SkipWritten(c)
  PROVE  Inv'
<1>1. /\ goal # Unset /\ call = NoCall /\ todo' = todo \ {c}
      /\ UNCHANGED <<svc, limits, goal, calls, held, written, call, voltOk>>
  BY DEF SkipWritten, Turn, memory
<1>2. Types' /\ PresentEngages' /\ HeldIsControlled' /\ NoLateRelease'
  BY <1>1 DEF Inv, Types, PresentEngages, HeldIsControlled, NoLateRelease, Waiting
<1>3. QED
  BY <1>1, <1>2 DEF Inv, Underway, Acknowledged, VoltageThere, Remembered, Driving, Waiting

LEMMA ReleasedInv ==
  ASSUME Inv, Released
  PROVE  Inv'
<1>1. /\ call # NoCall /\ call \in Pending /\ call.path = "bmsPresent" /\ goal = Unset
      /\ UNCHANGED <<svc, limits, goal, calls, voltOk>>
      /\ held' = held \ {call.dev} /\ written' = [written EXCEPT ![call.dev] = Unset]
      /\ todo' = todo \ {call.dev} /\ call' = NoCall
  BY DEF Released, Back, Answered, Inv, Types
<1>2. Types' /\ PresentEngages'
  BY <1>1 DEF Inv, Types, PresentEngages
<1>3. HeldIsControlled' /\ NoLateRelease'
  BY <1>1 DEF Inv, Types, HeldIsControlled, NoLateRelease, Waiting
<1>4. ~voltOk
  BY <1>1 DEF Inv, VoltageThere
<1>5. Remembered'
  <2>1. SUFFICES ASSUME NEW c \in Device, written'[c] # Unset
                 PROVE  /\ c \in held'
                        /\ svc[c].linkVoltage = written'[c] /\ svc[c].linkCurrent = written'[c]
                        /\ \A n \in Waiting' : n.dev = c => n.path = "bmsPresent"
    BY <1>1 DEF Remembered
  <2>2. c # call.dev /\ written'[c] = written[c]
    BY <1>1, <2>1 DEF Inv, Types
  <2>3. QED
    BY <1>1, <2>1, <2>2 DEF Inv, Remembered, Driving, Waiting
<1>6. QED
  BY <1>1, <1>2, <1>3, <1>4, <1>5 DEF Inv, Underway, Acknowledged, VoltageThere

\* The engagement is acknowledged: nothing sent before is still to be served.
LEMMA EngagedInv ==
  ASSUME Inv, Engaged
  PROVE  Inv'
<1>1. /\ call # NoCall /\ call \in Pending /\ call.path = "bmsPresent" /\ goal # Unset
      /\ UNCHANGED <<svc, limits, goal, calls, written, voltOk>> /\ call' = NoCall
      /\ todo' \in SUBSET Device
      /\ held' = IF call.answer = "ok" THEN held \cup {call.dev} ELSE held
  BY DEF Engaged, Back, Answered, HeldAfter, Inv, Types
<1>2. Types' /\ PresentEngages'
  BY <1>1 DEF Inv, Types, PresentEngages, Pending
<1>3. call.answer = "ok" => /\ Waiting = {} /\ call.dev \in Device
                            /\ svc[call.dev].bmsPresent = 1 /\ svc[call.dev].engaged
  BY <1>1 DEF Inv, Acknowledged, PresentEngages, Value, Waiting, Pending
<1>4. HeldIsControlled' /\ NoLateRelease'
  BY <1>1, <1>3 DEF Inv, HeldIsControlled, NoLateRelease, Waiting
<1>5. ~voltOk
  BY <1>1 DEF Inv, VoltageThere
<1>6. Remembered'
  BY <1>1 DEF Inv, Remembered, Driving, Waiting
<1>7. QED
  BY <1>1, <1>2, <1>4, <1>5, <1>6 DEF Inv, Underway, Acknowledged, VoltageThere

LEMMA SendCurrentInv ==
  ASSUME Inv, SendCurrent
  PROVE  Inv'
<1> DEFINE c == call.dev
<1>1. /\ call # NoCall /\ call \in Pending /\ call.path = "linkVoltage"
      /\ UNCHANGED <<svc, limits, goal, held, written, todo>>
      /\ voltOk' = (call.answer = "ok") /\ Call(c, "linkCurrent", goal)
  BY DEF SendCurrent, Back, Answered, Inv, Types, memory
<1>2. c \in Device /\ c \in todo /\ c \in held /\ goal # Unset
  BY <1>1 DEF Inv, Underway, Pending
<1>3. Fits("linkCurrent", goal) /\ "linkCurrent" \in SentPath
  BY <1>2 DEF Fits, SentPath, Inv, Types
<1>4. /\ calls' \in Seq(SentCall)
      /\ Waiting' \subseteq Waiting \cup {[dev |-> c, path |-> "linkCurrent", val |-> goal]}
      /\ call' \in Pending /\ call' # NoCall
      /\ call'.dev = c /\ call'.path = "linkCurrent" /\ call'.answer \in {"awaited", "no"}
      /\ call'.answer = "awaited" => calls' # <<>> /\ calls'[Len(calls')] =
           [dev |-> c, path |-> "linkCurrent", val |-> goal]
  BY <1>1, <1>2, <1>3, CallMade DEF Inv
<1>5. Value' = goal
  BY <1>1, <1>4 DEF Value
<1>6. Types' /\ PresentEngages' /\ HeldIsControlled'
  BY <1>1, <1>4 DEF Inv, Types, PresentEngages, HeldIsControlled
<1>7. Underway' /\ Acknowledged'
  BY <1>1, <1>2, <1>4, <1>5 DEF Underway, Acknowledged
<1>8. NoLateRelease'
  BY <1>1, <1>4 DEF Inv, NoLateRelease
<1>9. VoltageThere'
  <2>1. call.answer = "ok" => Waiting = {} /\ svc[c].linkVoltage = goal
    BY <1>1 DEF Inv, Acknowledged, Value, Waiting
  <2>2. voltOk' => call.answer = "ok"
    BY <1>1
  <2>3. SUFFICES ASSUME voltOk'
                 PROVE  /\ svc[c].linkVoltage = goal
                        /\ \A n \in Waiting' : n.path # "linkVoltage"
    BY <1>1, <1>4 DEF VoltageThere
  <2>4. QED
    BY <1>4, <2>1, <2>2, <2>3
<1>10. Remembered'
  <2>1. \A d \in Device : d # c => ~Driving(d)
    BY DEF Driving
  <2>2. \A d \in Device : Driving(d)' <=> d = c
    BY <1>4 DEF Driving
  <2>3. QED
    BY <1>1, <1>2, <1>4, <2>1, <2>2 DEF Inv, Remembered
<1>11. QED
  BY <1>6, <1>7, <1>8, <1>9, <1>10 DEF Inv

\* Both setpoints are acknowledged: the service holds them, and nothing is left
\* that could change them.
LEMMA WrittenInv ==
  ASSUME Inv, Written
  PROVE  Inv'
<1> DEFINE c == call.dev
           both == voltOk /\ call.answer = "ok"
<1>1. /\ call # NoCall /\ call \in Pending /\ call.path = "linkCurrent"
      /\ UNCHANGED <<svc, limits, goal, calls, held>>
      /\ written' = [written EXCEPT ![c] = IF both THEN goal ELSE Unset]
      /\ todo' = todo \ {c} /\ call' = NoCall /\ voltOk' = FALSE
  BY DEF Written, BothOk, Back, Answered, Inv, Types
<1>2. c \in Device /\ c \in held /\ goal # Unset
  BY <1>1 DEF Inv, Underway, Pending
<1>3. Types' /\ PresentEngages'
  BY <1>1 DEF Inv, Types, PresentEngages
<1>4. HeldIsControlled' /\ NoLateRelease'
  BY <1>1, <1>2 DEF Inv, HeldIsControlled, NoLateRelease, Waiting
<1>5. Remembered'
  <2>1. both => /\ Waiting = {}
                /\ svc[c].linkVoltage = goal /\ svc[c].linkCurrent = goal
    BY <1>1 DEF Inv, Acknowledged, VoltageThere, Value, Waiting
  <2>2. written'[c] = (IF both THEN goal ELSE Unset)
        /\ \A d \in Device : d # c => written'[d] = written[d]
    BY <1>1, <1>2 DEF Inv, Types
  <2>3. \A d \in Device : d # c => ~Driving(d)
    BY DEF Driving
  <2>4. QED
    BY <1>1, <1>2, <2>1, <2>2, <2>3 DEF Inv, Remembered, Waiting
<1>6. QED
  BY <1>1, <1>3, <1>4, <1>5 DEF Inv, Underway, Acknowledged, VoltageThere

(***************************************************************************)
(* The theorems.                                                           *)
(***************************************************************************)
LEMMA InitInv == Init => Inv
<1> SUFFICES ASSUME Init
             PROVE  Inv
  OBVIOUS
<1>1. Waiting = {}
  BY DEF Init, Waiting
<1>2. svc \in [Device -> Service] /\ \A c \in Device : svc[c].bmsPresent = 0
  BY DEF Init, NewService, Service
<1>3. written \in [Device -> Limit \cup {Unset}] /\ calls \in Seq(SentCall)
  BY DEF Init, NoChargers
<1>4. Types
  BY <1>2, <1>3 DEF Init, Types
<1>5. Remembered
  BY DEF Init, Remembered, NoChargers
<1>6. QED
  BY <1>1, <1>2, <1>4, <1>5 DEF Init, Inv, PresentEngages, Underway, Acknowledged,
     NoLateRelease, HeldIsControlled, VoltageThere

LEMMA NextInv == Inv /\ [Next]_vars => Inv'
<1> SUFFICES ASSUME Inv, [Next]_vars
             PROVE  Inv'
  OBVIOUS
<1>1. CASE Tick \/ BlindTick
  BY <1>1, TickInv DEF Tick, BlindTick, OnBus, Inv, Types
<1>2. ASSUME NEW c \in Device, Release(c)
      PROVE  Inv'
  BY <1>2, FirstCall DEF Release
<1>3. ASSUME NEW c \in Device, Engage(c)
      PROVE  Inv'
  BY <1>3, FirstCall DEF Engage
<1>4. ASSUME NEW c \in Device, SendVoltage(c)
      PROVE  Inv'
  BY <1>4, FirstCall DEF SendVoltage
<1>5. ASSUME NEW c \in Device, SkipWritten(c)
      PROVE  Inv'
  BY <1>5, SkipWrittenInv
<1>6. CASE Released \/ Engaged \/ SendCurrent \/ Written
  BY <1>6, ReleasedInv, EngagedInv, SendCurrentInv, WrittenInv
<1>7. CASE Serve \/ GiveUp \/ Restart
  BY <1>7, ServeInv, GiveUpInv, RestartInv
<1>8. CASE Environment
  BY <1>8, SetModeInv, ComeOrGoInv, BmsChangesInv DEF Environment
<1>9. CASE UNCHANGED vars
  BY <1>9 DEF vars, Inv, Types, PresentEngages, Underway, Acknowledged, NoLateRelease,
     HeldIsControlled, VoltageThere, Remembered, Driving, Value, Waiting, memory, progress
<1>10. QED
  BY <1>1, <1>2, <1>3, <1>4, <1>5, <1>6, <1>7, <1>8, <1>9 DEF Next, FollowerStep

\* The inductive invariant holds in every behaviour.
THEOREM InductiveInvariant == Spec => []Inv
  BY InitInv, NextInv, PTL DEF Spec

\* Without limits only chargers the follower holds are on its list.
OnlyHeld == goal = Unset => todo \subseteq held

LEMMA OnlyHeldInv == Inv /\ OnlyHeld /\ [Next]_vars => OnlyHeld'
<1> SUFFICES ASSUME Inv, OnlyHeld, [Next]_vars
             PROVE  OnlyHeld'
  OBVIOUS
<1>1. CASE Tick \/ BlindTick
  BY <1>1 DEF Tick, BlindTick, TickWith, ToDrive, OnlyHeld
<1>2. CASE Released
  BY <1>2 DEF Released, Back, OnlyHeld
<1>3. CASE Engaged \/ Written
  BY <1>3 DEF Engaged, HeldAfter, Written, Back, OnlyHeld
<1>4. CASE Restart
  BY <1>4 DEF Restart, OnlyHeld
<1>5. ASSUME NEW c \in Device, SkipWritten(c)
      PROVE  OnlyHeld'
  BY <1>5 DEF SkipWritten, Turn, memory, OnlyHeld
<1>6. CASE UNCHANGED <<goal, todo, held>>
  BY <1>6 DEF OnlyHeld
<1>7. QED
  BY <1>1, <1>2, <1>3, <1>4, <1>5, <1>6 DEF Next, FollowerStep, Release, Engage, SendVoltage,
     SendCurrent, Turn, Back, Serve, GiveUp, Environment, BmsChanges, ComeOrGo, SetMode,
     memory, progress, vars

(***************************************************************************)
(* What the services tell of their control, for ControlPaths.              *)
(***************************************************************************)
Services == [c \in Device |-> Face(svc[c])]

\* A value that is stored decides about the control; one that is there does not.
LEMMA StoredFace ==
  ASSUME Inv, NEW c \in Device, NEW path \in SentPath \cup {"networkMode"}, NEW v,
         IF path \in {"bmsPresent", "networkMode"} THEN v \in {0, 1} ELSE v \in Limit,
         svc' = [svc EXCEPT ![c] = Stored(svc[c], path, v)]
  PROVE  [Link!ControlNext]_Services
<1> DEFINE s == svc[c]
           t == Stored(s, path, v)
           f == Services[c]
           g == [f EXCEPT ![path] = v]
<1>1. svc \in [Device -> Service] /\ s \in Service
  BY DEF Inv, Types
<1>2. Services' = [Services EXCEPT ![c] = Face(t)]
  <2>1. \A d \in Device : Face(svc'[d]) = IF d = c THEN Face(t) ELSE Face(svc[d])
    BY <1>1
  <2>2. QED
    BY <2>1 DEF Services
<1>3. CASE s[path] = v
  <2>1. t = s
    BY <1>3 DEF Stored
  <2>2. QED
    BY <1>2, <2>1 DEF Services
<1>4. CASE s[path] # v
  <2>1. t = [s EXCEPT !.engaged = EngagedBy(s, path, v), ![path] = v]
    BY <1>4 DEF Stored
  <2>2. path \in {"bmsPresent", "networkMode", "linkVoltage", "linkCurrent"}
    BY DEF SentPath
  <2>3. f = [engaged |-> s.engaged, bmsPresent |-> s.bmsPresent,
             networkMode |-> s.networkMode, linkVoltage |-> s.linkVoltage,
             linkCurrent |-> s.linkCurrent]
    BY DEF Services, Face
  <2>4. f[path] = s[path]
    BY <2>2, <2>3
  <2>5. /\ g.bmsPresent = IF path = "bmsPresent" THEN v ELSE s.bmsPresent
        /\ g.networkMode = IF path = "networkMode" THEN v ELSE s.networkMode
        /\ g.linkVoltage = IF path = "linkVoltage" THEN v ELSE s.linkVoltage
        /\ g.linkCurrent = IF path = "linkCurrent" THEN v ELSE s.linkCurrent
        /\ g = [engaged |-> g.engaged, bmsPresent |-> g.bmsPresent,
                networkMode |-> g.networkMode, linkVoltage |-> g.linkVoltage,
                linkCurrent |-> g.linkCurrent]
    BY <2>2, <2>3
  <2>6. /\ t.engaged = EngagedBy(s, path, v)
        /\ t.bmsPresent = IF path = "bmsPresent" THEN v ELSE s.bmsPresent
        /\ t.networkMode = IF path = "networkMode" THEN v ELSE s.networkMode
        /\ t.linkVoltage = IF path = "linkVoltage" THEN v ELSE s.linkVoltage
        /\ t.linkCurrent = IF path = "linkCurrent" THEN v ELSE s.linkCurrent
    BY <1>1, <2>1, <2>2 DEF Service
  <2> HIDE DEF s, t, f, g
  <2>7. t.engaged = Link!Decides(g, path)
    <3>1. CASE path = "bmsPresent"
      BY <2>5, <2>6, <3>1 DEF Link!Decides, Link!Setpoint, EngagedBy
    <3>2. CASE path = "networkMode"
      BY <2>5, <2>6, <3>2 DEF Link!Decides, Link!Setpoint, EngagedBy
    <3>3. CASE path \in {"linkVoltage", "linkCurrent"}
      <4>1. Link!Decides(g, path) = TRUE
        BY <3>3 DEF Link!Decides, Link!Setpoint
      <4>2. EngagedBy(s, path, v) = TRUE
        BY <3>3 DEF EngagedBy
      <4>3. QED
        BY <2>6, <4>1, <4>2
    <3>4. QED
      BY <2>2, <3>1, <3>2, <3>3
  <2>8. Face(t) = [g EXCEPT !.engaged = Link!Decides(g, path)]
    BY <2>5, <2>6, <2>7 DEF Face
  <2>9. Link!Change(c, path, v)
    BY <1>2, <1>4, <2>4, <2>8 DEF Link!Change, Services, f, g
  <2>10. QED
    BY <2>2, <2>9 DEF Link!ControlNext, Link!Switch, Link!Setpoint
<1>5. QED
  BY <1>3, <1>4

LEMMA FaceStep == Inv /\ [Next]_vars => [Link!ControlNext]_Services
<1> SUFFICES ASSUME Inv, [Next]_vars
             PROVE  [Link!ControlNext]_Services
  OBVIOUS
<1>1. CASE Serve
  <2> DEFINE m == Head(calls)
  <2>1. m \in SentCall
    BY <1>1, Taken DEF Serve, Inv, Types
  <2>2. m.dev \in Device /\ m.path \in SentPath /\ Fits(m.path, m.val)
    BY <2>1 DEF SentCall
  <2>3. svc' = [svc EXCEPT ![m.dev] = Stored(svc[m.dev], m.path, m.val)]
    BY <1>1 DEF Serve
  <2> HIDE DEF m
  <2>4. QED
    BY <2>2, <2>3, StoredFace DEF Fits, SentPath
<1>2. ASSUME NEW c \in Device, NEW v \in {0, 1}, SetMode(c, v)
      PROVE  [Link!ControlNext]_Services
  BY <1>2, StoredFace DEF SetMode
<1>3. ASSUME NEW c \in Device, ComeOrGo(c)
      PROVE  UNCHANGED Services
  <2>1. svc' = [svc EXCEPT ![c].present = ~@] /\ svc \in [Device -> Service]
    BY <1>3 DEF ComeOrGo, Inv, Types
  <2>2. \A d \in Device : Face(svc'[d]) = Face(svc[d])
    BY <2>1 DEF Face, Service
  <2>3. QED
    BY <2>2 DEF Services
<1>4. CASE Restart
  <2>1. svc' = [c \in Device |-> [NewService EXCEPT !.present = svc[c].present]]
    BY <1>4 DEF Restart
  <2>2. \A c \in Device : Face(svc'[c]) = Link!Released
    BY <2>1 DEF Face, NewService, Link!Released
  <2>3. QED
    BY <2>2 DEF Services, Link!ControlNext, Link!Start
<1>5. CASE UNCHANGED svc
  BY <1>5 DEF Services
<1>6. QED
  BY <1>1, <1>2, <1>3, <1>4, <1>5 DEF Next, Tick, BlindTick, TickWith, FollowerStep,
     Release, Engage, SkipWritten, SendVoltage, Released, Engaged, SendCurrent, Written,
     Turn, Back, GiveUp, Environment, BmsChanges, vars

\* The types of BmsLinkFollower, among them that without limits only chargers
\* the follower holds are told to let go (_disengage_all goes over _engaged): one
\* that the user controls through the mode switch is not written to.
THEOREM TypeCorrect == Spec => []TypeOK
<1>1. Init => OnlyHeld
  BY DEF Init, OnlyHeld
<1>2. ASSUME Inv, OnlyHeld
      PROVE  TypeOK
  <2>1. SentCall \subseteq Message
    BY DEF SentCall, Message, SentPath, Path
  <2>2. Seq(SentCall) \subseteq Seq(Message)
    BY <2>1
  <2>3. Pending \subseteq [dev : Device, path : Path, answer : {"awaited", "ok", "no"}]
    BY DEF Pending, SentPath, Path
  <2>4. QED
    BY <1>2, <2>2, <2>3 DEF Inv, Types, OnlyHeld, TypeOK, Service
<1>3. QED
  BY <1>1, <1>2, OnlyHeldInv, InductiveInvariant, PTL DEF Spec

\* A charger the follower counts as engaged is under external control (_engaged
\* against the services' handlers), whatever was given up and is served late.
THEOREM HeldIsControlledAlways == Spec => []HeldIsControlled
<1>1. Inv => HeldIsControlled
  BY DEF Inv
<1>2. QED
  BY <1>1, InductiveInvariant, PTL

\* What the follower remembers as written (_written) is what the service holds.
THEOREM CacheNeverLiesAlways == Spec => []CacheNeverLies
<1>1. Inv => CacheNeverLies
  BY DEF Inv, CacheNeverLies, Remembered, Underway, Driving
<1>2. QED
  BY <1>1, InductiveInvariant, PTL

\* The services keep the promise of ControlPaths, as those of ChargerControl do,
\* with the calls of the follower served late and the mode switch in between
\* (_on_link_voltage_limit_write and the other handlers of ble_charger_common).
THEOREM EngagedAsToldAlways == Spec => EngagedAsTold
<1>1. Init => Link!ControlInit
  BY DEF Init, Link!ControlInit, Link!Released, NewService, Face
<1>2. Inv /\ [Next]_vars => [Link!ControlNext]_Services
  BY FaceStep
<1>3. QED
  BY <1>1, <1>2, InductiveInvariant, PTL DEF Spec, EngagedAsTold, Link!ControlSpec, Services
===============================================================================
