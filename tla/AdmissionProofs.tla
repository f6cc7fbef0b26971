---------------------------- MODULE AdmissionProofs ----------------------------
(***************************************************************************)
(* Theorems about Admission for every set of advertisers, every mixture of *)
(* frames and every time to live.  What one record of a frame does to the  *)
(* main loop's ledger is studied first; the actions follow.                *)
(***************************************************************************)
EXTENDS Admission, TLAPS

(***************************************************************************)
(* The inductive invariant.  GateIsSafe needs that the gate is exactly the *)
(* one _refresh_tap_known_macs would compute now, and that a throttled     *)
(* service has no tap: a toggle is not applied while throttled.            *)
(* OnlyDiscoveryAdds needs that a configured device has stored settings,   *)
(* DisabledInStep that a signal of Enabled only comes for a known device.  *)
(***************************************************************************)
StoredFirst == configured \subseteq stored

GateInSync ==
  tap = "running" /\ DiscoverySetting \notin notices
    => gate = Gate(discovery, configured, registered, makers)

ThrottleStopsTap == throttled => tap = "none"

NoticesOfKnown == notices \cap Mac \subseteq Present(known)

AdmissionInv ==
  /\ TypeOK
  /\ StoredFirst
  /\ GateInSync
  /\ ThrottleStopsTap
  /\ NoticesOfKnown
  /\ DisabledInStep
  /\ SilencedIsTracked

\* The same facts about a ledger that is being worked on.
Sound(s) ==
  /\ s \in Ledger
  /\ s.conf \subseteq s.store
  /\ s.store \subseteq stored \/ discovery
  /\ s.silent \subseteq Present(s.ignored) \cup Present(s.known)
  /\ notices \cap Mac \subseteq Present(s.known)
  /\ \A m \in Mac \ notices : m \in s.off <=> s.known[m] > 0 /\ m \notin enabled
  /\ tap = "running" /\ DiscoverySetting \notin notices
       => s.gate = Gate(discovery, s.conf, registered, makers)

\* Reading a ledger after one of its updates.
LEMMA TouchSound ==
  ASSUME NEW s, Sound(s), NEW m \in Mac, s.known[m] > 0
  PROVE  Sound([s EXCEPT !.known[m] = KnownTTL])
<1> DEFINE t == [s EXCEPT !.known[m] = KnownTTL]
<1>1. s \in Ledger
  BY DEF Sound
<1>2. t \in Ledger
  BY <1>1, BoundAssumption DEF Ledger
<1>3. /\ t.conf = s.conf /\ t.store = s.store /\ t.ignored = s.ignored
      /\ t.silent = s.silent /\ t.off = s.off /\ t.gate = s.gate
  BY <1>1 DEF Ledger
<1>4. \A n \in Mac : t.known[n] > 0 <=> s.known[n] > 0
  BY <1>1, BoundAssumption DEF Ledger
<1>5. Present(t.known) = Present(s.known)
  BY <1>4 DEF Present
<1>6. QED
  BY <1>2, <1>3, <1>4, <1>5 DEF Sound

LEMMA SilenceSound ==
  ASSUME NEW s, Sound(s), NEW m \in Mac
  PROVE  Sound(Silence(s, m))
<1> DEFINE t == Silence(s, m)
<1>1. s \in Ledger
  BY DEF Sound
<1>2. /\ [s.ignored EXCEPT ![m] = IgnoredTTL] \in [Mac -> 0..IgnoredTTL]
      /\ s.silent \cup {m} \in SUBSET Mac
  BY <1>1, BoundAssumption DEF Ledger
<1>3. t \in Ledger
  BY <1>1, <1>2 DEF Ledger, Silence
<1>4. /\ t.conf = s.conf /\ t.store = s.store /\ t.known = s.known
      /\ t.silent = s.silent \cup {m} /\ t.off = s.off /\ t.gate = s.gate
  BY <1>1 DEF Ledger, Silence
<1>5. Present(s.ignored) \cup {m} \subseteq Present(t.ignored)
  BY <1>1, BoundAssumption DEF Ledger, Silence, Present
<1>6. QED
  BY <1>3, <1>4, <1>5 DEF Sound

LEMMA AdoptSound ==
  ASSUME TypeOK, NEW s, Sound(s), NEW m \in Mac, MayAdopt(m, s.conf)
  PROVE  Sound(Adopt(s, m))
<1> DEFINE t == Adopt(s, m)
<1>1. s \in Ledger
  BY DEF Sound
<1>2. /\ s.conf \cup {m} \in SUBSET Mac
      /\ s.store \cup {m} \in SUBSET Mac
      /\ (s.shown \ {m}) \cup (enabled \cap {m}) \in SUBSET Mac
      /\ (s.off \ {m}) \cup ({m} \ enabled) \in SUBSET Mac
      /\ [s.known EXCEPT ![m] = KnownTTL] \in [Mac -> 0..KnownTTL]
  BY <1>1, BoundAssumption DEF Ledger
<1>3. Gate(discovery, s.conf \cup {m}, registered, makers) \in SUBSET Mac
  BY <1>2 DEF TypeOK, Gate
<1>4. t \in Ledger
  BY <1>1, <1>2, <1>3 DEF Ledger, Adopt
<1>5. /\ t.conf = s.conf \cup {m} /\ t.store = s.store \cup {m}
      /\ t.ignored = s.ignored /\ t.silent = s.silent
      /\ t.off = (s.off \ {m}) \cup ({m} \ enabled)
      /\ t.gate = Gate(discovery, t.conf, registered, makers)
  BY <1>1 DEF Ledger, Adopt
<1>6. \A n \in Mac : t.known[n] > 0 <=> s.known[n] > 0 \/ n = m
  BY <1>1, BoundAssumption DEF Ledger, Adopt
<1>7. Present(s.known) \subseteq Present(t.known)
  BY <1>6 DEF Present
<1>8. t.store \subseteq stored \/ discovery
  BY <1>5 DEF Sound, MayAdopt
<1>9. QED
  BY <1>4, <1>5, <1>6, <1>7, <1>8 DEF Sound

\* One record leaves the ledger sound, whatever it is.
LEMMA HandleSound ==
  ASSUME TypeOK, NEW s, Sound(s), NEW m \in Mac, NEW i \in Item
  PROVE  Sound(Handle(s, m, i))
<1> DEFINE verdict == Verdict(m, i, s.conf)
           tried == IF i.class = "halfway" /\ MayAdopt(m, s.conf)
                      THEN [s EXCEPT !.store = @ \cup {m}] ELSE s
<1>1. CASE s.known[m] > 0
  BY <1>1, TouchSound DEF Handle
<1>2. CASE ~(s.known[m] > 0)
  <2>1. Sound(tried)
    <3>1. CASE i.class = "halfway" /\ MayAdopt(m, s.conf)
      <4> DEFINE t == [s EXCEPT !.store = @ \cup {m}]
      <4>1. s \in Ledger
        BY DEF Sound
      <4>2. t \in Ledger
        BY <4>1 DEF Ledger
      <4>3. /\ t.conf = s.conf /\ t.store = s.store \cup {m} /\ t.known = s.known
            /\ t.ignored = s.ignored /\ t.silent = s.silent /\ t.off = s.off
            /\ t.gate = s.gate
        BY <4>1 DEF Ledger
      <4>4. t.store \subseteq stored \/ discovery
        BY <3>1, <4>3 DEF Sound, MayAdopt
      <4>5. QED
        BY <3>1, <4>2, <4>3, <4>4 DEF Sound
    <3>2. CASE ~(i.class = "halfway" /\ MayAdopt(m, s.conf))
      BY <3>2
    <3>3. QED
      BY <3>1, <3>2
  <2>2. CASE verdict = "adopt"
    <3>1. MayAdopt(m, s.conf)
      BY <2>2 DEF Verdict
    <3>2. Handle(s, m, i) = Adopt(s, m)
      BY <1>2, <2>2 DEF Handle
    <3>3. QED
      BY <3>1, <3>2, AdoptSound
  <2>3. CASE verdict = "silence"
    <3>1. Handle(s, m, i) = Silence(tried, m)
      BY <1>2, <2>3 DEF Handle
    <3>2. QED
      BY <2>1, <3>1, SilenceSound
  <2>4. CASE verdict # "adopt" /\ verdict # "silence"
    <3>1. Handle(s, m, i) = tried
      BY <1>2, <2>4 DEF Handle
    <3>2. QED
      BY <2>1, <3>1
  <2>5. QED
    BY <2>2, <2>3, <2>4
<1>3. QED
  BY <1>1, <1>2

\* What _process_advertisement does to a frame of one record or two.
LEMMA ProcessedSound ==
  ASSUME AdmissionInv, NEW f \in Frame
  PROVE  Sound(Processed(f))
<1> DEFINE m == f.from
           start == IF ignored[m] > 0 THEN Recovered(Current, m) ELSE Current
           one == Handle(start, m, f.records[1])
<1>1. TypeOK
  BY DEF AdmissionInv
<1>2. /\ m \in Mac /\ f.records[1] \in Item
      /\ Len(f.records) # 1 => f.records[2] \in Item
  BY DEF Frame
<1>3. /\ Current \in Ledger
      /\ Current.conf = configured /\ Current.store = stored
      /\ Current.known = known /\ Current.ignored = ignored
      /\ Current.silent = tapIgnored /\ Current.off = tapDisabled
      /\ Current.gate = gate
  BY <1>1 DEF TypeOK, Ledger, Current
<1>4. Sound(Current)
  BY <1>3 DEF Sound, AdmissionInv, StoredFirst, SilencedIsTracked, NoticesOfKnown,
              DisabledInStep, GateInSync
<1>5. CASE ignored[m] > 0 /\ known[m] = 0
  <2> DEFINE t == Touched(Current, m)
  <2>1. [ignored EXCEPT ![m] = IgnoredTTL] \in [Mac -> 0..IgnoredTTL]
    BY <1>1, <1>2, BoundAssumption DEF TypeOK
  <2>2. t \in Ledger
    BY <1>3, <2>1 DEF Touched, Ledger
  <2>3. /\ t.conf = configured /\ t.store = stored /\ t.known = known
        /\ t.ignored = [ignored EXCEPT ![m] = IgnoredTTL]
        /\ t.silent = tapIgnored /\ t.off = tapDisabled /\ t.gate = gate
    BY <1>3 DEF Touched, Ledger
  <2>4. Present(ignored) \subseteq Present(t.ignored)
    BY <1>1, <1>2, <2>3, BoundAssumption DEF Present, TypeOK
  <2>5. Sound(t)
    BY <1>3, <1>4, <2>2, <2>3, <2>4 DEF Sound
  <2>6. QED
    BY <1>5, <2>5 DEF Processed
<1>6. CASE ~(ignored[m] > 0 /\ known[m] = 0)
  <2>1. Sound(start)
    <3>1. CASE ignored[m] > 0
      <4> DEFINE t == Recovered(Current, m)
      <4>1. known[m] > 0
        BY <1>1, <1>2, <1>6, <3>1 DEF TypeOK
      <4>2. /\ [ignored EXCEPT ![m] = 0] \in [Mac -> 0..IgnoredTTL]
            /\ [known EXCEPT ![m] = KnownTTL] \in [Mac -> 0..KnownTTL]
        BY <1>1, <1>2, BoundAssumption DEF TypeOK
      <4>3. t \in Ledger
        BY <1>3, <4>2 DEF Recovered, Ledger
      <4>4. /\ t.conf = configured /\ t.store = stored
            /\ t.known = [known EXCEPT ![m] = KnownTTL]
            /\ t.ignored = [ignored EXCEPT ![m] = 0]
            /\ t.silent = tapIgnored /\ t.off = tapDisabled /\ t.gate = gate
        BY <1>3 DEF Recovered, Ledger
      <4>5. \A n \in Mac : t.known[n] > 0 <=> known[n] > 0
        BY <1>1, <1>2, <4>1, <4>4, BoundAssumption DEF TypeOK
      <4>6. Present(t.known) = Present(known)
        BY <4>5 DEF Present
      <4>7. Present(ignored) \subseteq Present(t.ignored) \cup Present(t.known)
        BY <1>1, <1>2, <4>1, <4>4, <4>6 DEF Present, TypeOK
      <4>8. Sound(t)
        BY <1>3, <1>4, <4>3, <4>4, <4>5, <4>6, <4>7 DEF Sound
      <4>9. QED
        BY <3>1, <4>8
    <3>2. CASE ~(ignored[m] > 0)
      BY <1>4, <3>2
    <3>3. QED
      BY <3>1, <3>2
  <2>2. Sound(one)
    BY <1>1, <1>2, <2>1, HandleSound
  <2>3. CASE Len(f.records) = 1
    BY <1>6, <2>2, <2>3 DEF Processed
  <2>4. CASE Len(f.records) # 1
    <3>1. Sound(Handle(one, m, f.records[2]))
      BY <1>1, <1>2, <2>2, <2>4, HandleSound
    <3>2. QED
      BY <1>6, <2>4, <3>1 DEF Processed
  <2>5. QED
    BY <2>3, <2>4
<1>7. QED
  BY <1>5, <1>6

\* The look-ups of the prune tick lengthen lives and wake nothing.
LEMMA RefreshedPresent ==
  ASSUME NEW ttl \in Nat \ {0}, NEW d \in [Mac -> 0..ttl], NEW ms
  PROVE  /\ Refreshed(d, ms, ttl) \in [Mac -> 0..ttl]
         /\ Present(Refreshed(d, ms, ttl)) = Present(d)
<1>1. \A m \in Mac : Refreshed(d, ms, ttl)[m] > 0 <=> d[m] > 0
  BY DEF Refreshed
<1>2. Refreshed(d, ms, ttl) \in [Mac -> 0..ttl]
  BY DEF Refreshed
<1>3. QED
  BY <1>1, <1>2 DEF Present

\* A tick shortens lives and starts none.
LEMMA AgedType ==
  ASSUME NEW ttl \in Nat \ {0}, NEW d \in [Mac -> 0..ttl], NEW ms
  PROVE  /\ Aged(d, ms, ttl) \in [Mac -> 0..ttl]
         /\ Present(Aged(d, ms, ttl)) \subseteq Present(d)
BY DEF Aged, Present

(***************************************************************************)
(* The steps.                                                              *)
(***************************************************************************)
\* Nothing has been heard yet.
LEMMA InitInv == Init => AdmissionInv
<1> SUFFICES ASSUME Init PROVE AdmissionInv
  OBVIOUS
<1>1. Present(Absent) = {} /\ Absent \in [Mac -> 0..KnownTTL]
                          /\ Absent \in [Mac -> 0..IgnoredTTL]
  BY BoundAssumption DEF Present, Absent
<1>2. queue \in Seq(Frame) /\ Len(queue) <= QueueBound
  BY BoundAssumption DEF Init
<1>3. TypeOK
  BY <1>1, <1>2 DEF Init, TypeOK
<1>4. DisabledInStep
  <2>1. \A m \in Mac : ~(known[m] > 0)
    BY <1>1 DEF Init, Present
  <2>2. QED
    BY <2>1 DEF Init, DisabledInStep
<1>5. QED
  BY <1>1, <1>3, <1>4 DEF Init, AdmissionInv, StoredFirst, GateInSync, ThrottleStopsTap,
     NoticesOfKnown, SilencedIsTracked

\* The tap thread changes neither the ledger nor the settings.
LEMMA HearStep ==
  ASSUME AdmissionInv, NEW f \in Frame, Hear(f)
  PROVE  AdmissionInv'
<1>1. queue' \in Seq(Frame) /\ Len(queue') <= QueueBound /\ seen' \in SUBSET Mac
  <2>1. f.from \in Mac
    BY DEF Frame
  <2>2. CASE UNCHANGED queue
    BY <2>1, <2>2 DEF AdmissionInv, TypeOK, Hear
  <2>3. CASE Len(queue) < QueueBound /\ queue' = Append(queue, f)
    BY <2>1, <2>3, BoundAssumption DEF AdmissionInv, TypeOK, Hear
  <2>4. QED
    BY <2>2, <2>3 DEF Hear
<1>2. /\ stored' = stored /\ enabled' = enabled /\ wanted' = wanted /\ up' = up
      /\ discovery' = discovery /\ shown' = shown /\ notices' = notices
      /\ configured' = configured /\ known' = known /\ ignored' = ignored
      /\ tapIgnored' = tapIgnored /\ tapDisabled' = tapDisabled /\ gate' = gate
      /\ registered' = registered /\ makers' = makers
      /\ tap' = tap /\ throttled' = throttled
  BY DEF Hear, settings, items, devices, filters, router
<1>3. TypeOK'
  BY <1>1, <1>2 DEF AdmissionInv, TypeOK
<1>4. QED
  BY <1>2, <1>3 DEF AdmissionInv, StoredFirst, GateInSync, ThrottleStopsTap,
     NoticesOfKnown, DisabledInStep, SilencedIsTracked, Present

\* The main loop takes a frame: its ledger is sound, and that is the state.
LEMMA ProcessStep ==
  ASSUME AdmissionInv, Process
  PROVE  AdmissionInv' /\ (stored' \subseteq stored \/ discovery)
<1> DEFINE s == Processed(Head(queue))
<1>1. queue \in Seq(Frame) /\ queue # <<>> /\ Len(queue) <= QueueBound
  BY DEF AdmissionInv, TypeOK, Process
<1>2. Head(queue) \in Frame
  BY <1>1
<1>3. Sound(s)
  BY <1>2, ProcessedSound
<1>4. queue' \in Seq(Frame) /\ Len(queue') <= QueueBound
  BY <1>1, BoundAssumption DEF Process
<1>5. /\ configured' = s.conf /\ stored' = s.store /\ shown' = s.shown
      /\ known' = s.known /\ ignored' = s.ignored /\ tapIgnored' = s.silent
      /\ tapDisabled' = s.off /\ gate' = s.gate
      /\ wanted' = wanted /\ enabled' = enabled /\ up' = up /\ discovery' = discovery
      /\ notices' = notices /\ seen' = seen
      /\ registered' = registered /\ makers' = makers
      /\ tap' = tap /\ throttled' = throttled
  BY DEF Process, router
<1> HIDE DEF s
<1>6. TypeOK'
  BY <1>3, <1>4, <1>5 DEF AdmissionInv, TypeOK, Sound, Ledger
<1>7. DisabledInStep' /\ GateInSync'
  BY <1>3, <1>5 DEF Sound, DisabledInStep, GateInSync, Gate
<1>8. SilencedIsTracked' /\ NoticesOfKnown' /\ StoredFirst'
  BY <1>3, <1>5 DEF Sound, SilencedIsTracked, NoticesOfKnown, StoredFirst, Present
<1>9. ThrottleStopsTap'
  BY <1>5 DEF AdmissionInv, ThrottleStopsTap
<1>10. stored' \subseteq stored \/ discovery
  BY <1>3, <1>5 DEF Sound
<1>11. QED
  BY <1>6, <1>7, <1>8, <1>9, <1>10 DEF AdmissionInv

\* The switch for discovery, wherever it is thrown: the gate follows with the
\* signal, or when a throttled service gets its tap back.
LEMMA DiscoveryStep ==
  ASSUME AdmissionInv, SetDiscovery \/ SetDiscoveryHere \/ DiscoverySignal
  PROVE  AdmissionInv'
<1>1. /\ stored' = stored /\ enabled' = enabled /\ up' = up /\ shown' = shown
      /\ configured' = configured /\ known' = known /\ ignored' = ignored
      /\ tapIgnored' = tapIgnored /\ tapDisabled' = tapDisabled
      /\ seen' = seen /\ queue' = queue
      /\ registered' = registered /\ makers' = makers
      /\ tap' = tap /\ throttled' = throttled
  BY DEF SetDiscovery, SetDiscoveryHere, DiscoverySignal, devices, filters, router, settings
<1>2. /\ wanted' \in BOOLEAN /\ discovery' \in BOOLEAN
      /\ notices' \in SUBSET (Mac \cup {DiscoverySetting})
      /\ notices' \cap Mac = notices \cap Mac
  BY MacAssumption DEF AdmissionInv, TypeOK, SetDiscovery, SetDiscoveryHere, DiscoverySignal,
     settings
<1>3. gate' \in SUBSET Mac
  BY DEF AdmissionInv, TypeOK, SetDiscovery, SetDiscoveryHere, DiscoverySignal, filters,
     GateAfterToggle, Gate
<1>4. TypeOK'
  BY <1>1, <1>2, <1>3 DEF AdmissionInv, TypeOK
<1>5. GateInSync'
  <2>1. CASE SetDiscovery
    BY <1>1, <2>1 DEF AdmissionInv, GateInSync, SetDiscovery, filters, Gate
  <2>2. CASE SetDiscoveryHere
    BY <2>2 DEF GateInSync, SetDiscoveryHere
  <2>3. CASE DiscoverySignal
    BY <1>1, <2>3 DEF AdmissionInv, GateInSync, ThrottleStopsTap, DiscoverySignal,
       GateAfterToggle, Gate
  <2>4. QED
    BY <2>1, <2>2, <2>3
<1>6. DisabledInStep'
  BY <1>1, <1>2 DEF AdmissionInv, DisabledInStep
<1>7. QED
  BY <1>1, <1>2, <1>4, <1>5, <1>6 DEF AdmissionInv, StoredFirst, ThrottleStopsTap,
     NoticesOfKnown, SilencedIsTracked, Present

\* The switch of a device: only its own membership of tapDisabled can change, and
\* while that lags the signal is on its way.
LEMMA EnabledStep ==
  ASSUME AdmissionInv, NEW m \in Mac, SetEnabled(m) \/ SetEnabledHere(m) \/ EnabledSignal(m)
  PROVE  AdmissionInv'
<1>1. /\ stored' = stored /\ wanted' = wanted /\ up' = up /\ discovery' = discovery
      /\ configured' = configured /\ known' = known /\ ignored' = ignored
      /\ tapIgnored' = tapIgnored /\ gate' = gate /\ seen' = seen /\ queue' = queue
      /\ registered' = registered /\ makers' = makers
      /\ tap' = tap /\ throttled' = throttled
  BY DEF SetEnabled, SetEnabledHere, EnabledSignal, devices, filters, router, settings
<1>2. /\ enabled' \in SUBSET Mac /\ shown' \in SUBSET Mac /\ tapDisabled' \in SUBSET Mac
      /\ notices' \in SUBSET (Mac \cup {DiscoverySetting})
      /\ DiscoverySetting \in notices' <=> DiscoverySetting \in notices
  BY MacAssumption DEF AdmissionInv, TypeOK, SetEnabled, SetEnabledHere, EnabledSignal,
     settings, filters, Flipped, DisabledAfterFlip
<1>3. TypeOK'
  BY <1>1, <1>2 DEF AdmissionInv, TypeOK
<1>4. notices' \cap Mac \subseteq Present(known)
  BY DEF AdmissionInv, NoticesOfKnown, SetEnabled, SetEnabledHere, EnabledSignal, Present
<1>5. DisabledInStep'
  <2> SUFFICES ASSUME NEW n \in Mac, n \notin notices'
               PROVE  n \in tapDisabled' <=> known[n] > 0 /\ n \notin enabled'
    BY <1>1 DEF DisabledInStep
  <2>1. CASE SetEnabled(m)
    BY <2>1 DEF AdmissionInv, DisabledInStep, SetEnabled, Flipped, filters
  <2>2. CASE SetEnabledHere(m)
    BY <2>2 DEF AdmissionInv, DisabledInStep, SetEnabledHere, Flipped, DisabledAfterFlip
  <2>3. CASE EnabledSignal(m)
    <3>1. enabled' = enabled
      BY <2>3 DEF EnabledSignal, settings
    <3>2. known[m] > 0
      BY <2>3 DEF AdmissionInv, NoticesOfKnown, EnabledSignal, Present
    <3>3. CASE n = m
      BY <2>3, <3>1, <3>2, <3>3 DEF EnabledSignal, DisabledAfterFlip
    <3>4. CASE n # m
      BY <2>3, <3>1, <3>4 DEF AdmissionInv, DisabledInStep, EnabledSignal, DisabledAfterFlip
    <3>5. QED
      BY <3>3, <3>4
  <2>4. QED
    BY <2>1, <2>2, <2>3
<1>6. QED
  BY <1>1, <1>2, <1>3, <1>4, <1>5 DEF AdmissionInv, StoredFirst, GateInSync,
     ThrottleStopsTap, NoticesOfKnown, SilencedIsTracked, Present

\* A registration opens the gate or widens it, and wakes the addresses it names.
LEMMA RegistrationsStep ==
  ASSUME AdmissionInv, NEW addresses \in SUBSET Mac, NEW any \in BOOLEAN,
         RegistrationsChanged(addresses, any)
  PROVE  AdmissionInv'
<1>1. /\ stored' = stored /\ wanted' = wanted /\ enabled' = enabled /\ up' = up
      /\ discovery' = discovery /\ shown' = shown /\ notices' = notices
      /\ configured' = configured /\ known' = known /\ tapDisabled' = tapDisabled
      /\ seen' = seen /\ queue' = queue /\ tap' = tap /\ throttled' = throttled
      /\ registered' = addresses /\ makers' = any
      /\ gate' = Gate(discovery, configured, addresses, any)
      /\ ignored' = [m \in Mac |-> IF m \in addresses THEN 0 ELSE ignored[m]]
      /\ tapIgnored' = tapIgnored \ (addresses \cap Present(ignored))
  BY DEF RegistrationsChanged, settings, items, Unsilenced
<1>2. gate' \in SUBSET Mac
  BY <1>1 DEF AdmissionInv, TypeOK, Gate
<1>3. ignored' \in [Mac -> 0..IgnoredTTL] /\ tapIgnored' \in SUBSET Mac
  BY <1>1, BoundAssumption DEF AdmissionInv, TypeOK
<1>4. TypeOK'
  BY <1>1, <1>2, <1>3 DEF AdmissionInv, TypeOK
<1>5. SilencedIsTracked'
  BY <1>1, <1>3 DEF AdmissionInv, SilencedIsTracked, Present
<1>6. GateInSync'
  BY <1>1 DEF GateInSync, Gate
<1>7. QED
  BY <1>1, <1>4, <1>5, <1>6 DEF AdmissionInv, StoredFirst, ThrottleStopsTap,
     NoticesOfKnown, DisabledInStep, Present

\* A tick of the clock: what dies leaves tapDisabled and takes its signal along,
\* what stays silenced has an entry that the look-up has just renewed.
LEMMA PruneStep ==
  ASSUME AdmissionInv, PruneTick
  PROVE  AdmissionInv'
<1> DEFINE aged == Aged(known, seen, KnownTTL)
           left == Aged(ignored, {}, IgnoredTTL)
           looked == tapIgnored \cap Present(left)
<1>1. /\ known' = Refreshed(aged, looked, KnownTTL)
      /\ ignored' = Refreshed(left, looked, IgnoredTTL)
      /\ tapDisabled' = tapDisabled \cap Present(aged)
      /\ tapIgnored' = (tapIgnored \cap Present(left)) \ Present(aged)
      /\ shown' = shown \cap Present(aged)
      /\ notices' = notices \ (Mac \ Present(aged))
      /\ stored' = stored /\ wanted' = wanted /\ enabled' = enabled /\ up' = up
      /\ discovery' = discovery /\ configured' = configured
      /\ seen' = seen /\ queue' = queue
      /\ registered' = registered /\ makers' = makers /\ throttled' = throttled
  BY DEF PruneTick, StillSilent, settings, router
<1>2. aged \in [Mac -> 0..KnownTTL] /\ Present(aged) \subseteq Present(known)
  BY AgedType, BoundAssumption DEF AdmissionInv, TypeOK
<1>3. left \in [Mac -> 0..IgnoredTTL]
  BY AgedType, BoundAssumption DEF AdmissionInv, TypeOK
<1> HIDE DEF aged, left, looked
<1>4. known' \in [Mac -> 0..KnownTTL] /\ Present(known') = Present(aged)
  BY <1>1, <1>2, RefreshedPresent, BoundAssumption
<1>5. ignored' \in [Mac -> 0..IgnoredTTL] /\ Present(ignored') = Present(left)
  BY <1>1, <1>3, RefreshedPresent, BoundAssumption
<1>6. /\ tap' \in {"none", "running", "dead"} /\ gate' \in SUBSET Mac
      /\ throttled => tap' = "none"
  BY DEF AdmissionInv, TypeOK, ThrottleStopsTap, PruneTick, StartTap, Gate
<1>7. TypeOK'
  BY <1>1, <1>4, <1>5, <1>6 DEF AdmissionInv, TypeOK
<1>8. GateInSync'
  <2>1. DiscoverySetting \in notices' <=> DiscoverySetting \in notices
    BY <1>1, MacAssumption
  <2>2. CASE UNCHANGED <<tap, gate>>
    BY <1>1, <2>1, <2>2 DEF AdmissionInv, GateInSync, Gate
  <2>3. CASE StartTap("none")
    BY <1>1, <2>3 DEF GateInSync, StartTap, Gate
  <2>4. QED
    BY <2>2, <2>3 DEF PruneTick
<1>9. DisabledInStep'
  <2> SUFFICES ASSUME NEW m \in Mac, m \notin notices'
               PROVE  m \in tapDisabled' <=> known'[m] > 0 /\ m \notin enabled'
    BY DEF DisabledInStep
  <2>1. known'[m] > 0 <=> m \in Present(aged)
    BY <1>4 DEF Present
  <2>2. m \in Present(aged) => known[m] > 0
    BY <1>2 DEF Present
  <2>3. QED
    BY <1>1, <2>1, <2>2 DEF AdmissionInv, DisabledInStep
<1>10. SilencedIsTracked'
  <2>1. tapIgnored' \subseteq Present(ignored')
    BY <1>1, <1>5
  <2>2. QED
    BY <2>1 DEF SilencedIsTracked, Present
<1>11. NoticesOfKnown'
  <2>1. notices' \cap Mac \subseteq Present(known')
    BY <1>1, <1>4
  <2>2. QED
    BY <2>1 DEF NoticesOfKnown, Present
<1>12. StoredFirst' /\ ThrottleStopsTap'
  BY <1>1, <1>6 DEF AdmissionInv, StoredFirst, ThrottleStopsTap
<1>13. QED
  BY <1>7, <1>8, <1>9, <1>10, <1>11, <1>12 DEF AdmissionInv

\* The tap dies or is switched: a fresh one starts with a fresh gate.
LEMMA TapStep ==
  ASSUME AdmissionInv, TapDies \/ LoadTrip \/ LoadRelease
  PROVE  AdmissionInv'
<1>1. /\ stored' = stored /\ wanted' = wanted /\ enabled' = enabled /\ up' = up
      /\ discovery' = discovery /\ shown' = shown /\ notices' = notices
      /\ configured' = configured /\ known' = known /\ ignored' = ignored
      /\ tapIgnored' = tapIgnored /\ tapDisabled' = tapDisabled
      /\ seen' = seen /\ queue' = queue /\ registered' = registered /\ makers' = makers
  BY DEF TapDies, LoadTrip, LoadRelease, settings, items, devices, filters, router
<1>2. /\ tap' \in {"none", "running", "dead"} /\ gate' \in SUBSET Mac
      /\ throttled' \in BOOLEAN
      /\ throttled' => tap' = "none"
      /\ GateInSync'
  <2>1. CASE TapDies
    BY <2>1 DEF AdmissionInv, TypeOK, ThrottleStopsTap, GateInSync, TapDies, filters,
       items, devices, router, Gate
  <2>2. CASE LoadTrip
    BY <2>2 DEF AdmissionInv, TypeOK, GateInSync, LoadTrip, filters
  <2>3. CASE LoadRelease
    BY <1>1, <2>3 DEF AdmissionInv, TypeOK, ThrottleStopsTap, GateInSync, LoadRelease,
       StartTap, Gate
  <2>4. QED
    BY <2>1, <2>2, <2>3
<1>3. TypeOK'
  BY <1>1, <1>2 DEF AdmissionInv, TypeOK
<1>4. QED
  BY <1>1, <1>2, <1>3 DEF AdmissionInv, StoredFirst, ThrottleStopsTap,
     NoticesOfKnown, DisabledInStep, SilencedIsTracked, Present

\* A process starts and ends with empty tables.
LEMMA ProcessLifeStep ==
  ASSUME AdmissionInv, Start \/ Exit
  PROVE  AdmissionInv'
<1>1. /\ Present(Absent) = {}
      /\ Absent \in [Mac -> 0..KnownTTL] /\ Absent \in [Mac -> 0..IgnoredTTL]
  BY BoundAssumption DEF Present, Absent
<1>2. FreshProcess /\ UNCHANGED settings
  BY DEF Start, Exit
<1>3. /\ stored' = stored /\ wanted' = wanted /\ enabled' = enabled
      /\ shown' = {} /\ notices' = {} /\ known' = Absent /\ ignored' = Absent
      /\ tapIgnored' = {} /\ tapDisabled' = {} /\ seen' = {} /\ queue' = <<>>
      /\ registered' = {} /\ makers' = FALSE /\ throttled' = FALSE
  BY <1>2 DEF FreshProcess, settings
<1>4. /\ up' \in BOOLEAN /\ discovery' \in BOOLEAN /\ configured' \in SUBSET Mac
      /\ gate' \in SUBSET Mac /\ tap' \in {"none", "running", "dead"}
      /\ configured' \subseteq stored
  BY DEF Start, Exit, AdmissionInv, TypeOK, Gate
<1>5. queue' \in Seq(Frame) /\ Len(queue') <= QueueBound
  BY <1>3, BoundAssumption
<1>6. TypeOK'
  BY <1>1, <1>3, <1>4, <1>5 DEF AdmissionInv, TypeOK
<1>7. GateInSync'
  BY <1>3 DEF GateInSync, Start, Exit, Gate
<1>8. DisabledInStep'
  <2>1. \A m \in Mac : ~(known'[m] > 0)
    BY <1>1, <1>3 DEF Present
  <2>2. QED
    BY <1>3, <2>1 DEF DisabledInStep
<1>9. QED
  BY <1>3, <1>4, <1>6, <1>7, <1>8 DEF AdmissionInv, StoredFirst, ThrottleStopsTap,
     NoticesOfKnown, SilencedIsTracked

\* Every step keeps the invariant, and only discovery adds to the settings.
LEMMA StepInv ==
  ASSUME AdmissionInv, [Next]_vars
  PROVE  AdmissionInv' /\ (stored' \subseteq stored \/ discovery)
<1>1. CASE Process
  BY <1>1, ProcessStep
<1>2. CASE \E f \in Frame : Hear(f)
  BY <1>2, HearStep DEF Hear, settings
<1>3. CASE SetDiscovery \/ SetDiscoveryHere \/ DiscoverySignal
  BY <1>3, DiscoveryStep DEF SetDiscovery, SetDiscoveryHere, DiscoverySignal, settings
<1>4. CASE \E m \in Mac : SetEnabled(m) \/ SetEnabledHere(m) \/ EnabledSignal(m)
  BY <1>4, EnabledStep DEF SetEnabled, SetEnabledHere, EnabledSignal, settings
<1>5. CASE \E addresses \in SUBSET Mac, any \in BOOLEAN : RegistrationsChanged(addresses, any)
  BY <1>5, RegistrationsStep DEF RegistrationsChanged, settings
<1>6. CASE PruneTick
  BY <1>6, PruneStep DEF PruneTick, settings
<1>7. CASE TapDies \/ LoadTrip \/ LoadRelease
  BY <1>7, TapStep DEF TapDies, LoadTrip, LoadRelease, settings
<1>8. CASE Start \/ Exit
  BY <1>8, ProcessLifeStep DEF Start, Exit, settings
<1>9. CASE UNCHANGED vars
  <2>1. /\ stored' = stored /\ wanted' = wanted /\ enabled' = enabled /\ up' = up
        /\ discovery' = discovery /\ shown' = shown /\ notices' = notices
        /\ configured' = configured /\ known' = known /\ ignored' = ignored
        /\ tapIgnored' = tapIgnored /\ tapDisabled' = tapDisabled /\ gate' = gate
        /\ seen' = seen /\ queue' = queue /\ registered' = registered
        /\ makers' = makers /\ tap' = tap /\ throttled' = throttled
    BY <1>9 DEF vars, settings, items, devices, filters, router
  <2>2. QED
    BY <2>1 DEF AdmissionInv, TypeOK, StoredFirst, GateInSync, ThrottleStopsTap,
       NoticesOfKnown, DisabledInStep, SilencedIsTracked, Present
<1>10. QED
  BY <1>1, <1>2, <1>3, <1>4, <1>5, <1>6, <1>7, <1>8, <1>9 DEF Next

\* The inductive invariant holds in every reachable state.
THEOREM InductiveInvariant == Spec => []AdmissionInv
<1>1. Init => AdmissionInv
  BY InitInv
<1>2. AdmissionInv /\ [Next]_vars => AdmissionInv'
  BY StepInv
<1>3. QED
  BY <1>1, <1>2, PTL DEF Spec

\* Type correctness, with queue and dated dictionaries of any size.
THEOREM TypeCorrect == Spec => []TypeOK
<1>1. AdmissionInv => TypeOK
  BY DEF AdmissionInv
<1>2. QED
  BY <1>1, InductiveInvariant, PTL

\* An address the tap drops unseen is neither configured nor registered, and
\* adoption is closed: for any number of advertisers and any queue between the
\* threads.
THEOREM GateIsSafeAlways == Spec => []GateIsSafe
<1>1. AdmissionInv => GateIsSafe
  <2> SUFFICES ASSUME AdmissionInv, tap = "running", DiscoverySetting \notin notices
               PROVE  \/ gate = {}
                      \/ ~discovery /\ ~makers /\ configured \cup registered \subseteq gate
    BY DEF GateIsSafe
  <2>1. gate = Gate(discovery, configured, registered, makers)
    BY DEF AdmissionInv, GateInSync
  <2>2. QED
    BY <2>1 DEF Gate
<1>2. QED
  BY <1>1, InductiveInvariant, PTL

\* tapDisabled is the set of known devices that are switched off, but for those
\* whose change signal is on its way.
THEOREM DisabledInStepAlways == Spec => []DisabledInStep
<1>1. AdmissionInv => DisabledInStep
  BY DEF AdmissionInv
<1>2. QED
  BY <1>1, InductiveInvariant, PTL

\* No address is silenced at the tap and forgotten by the main loop.
THEOREM SilencedIsTrackedAlways == Spec => []SilencedIsTracked
<1>1. AdmissionInv => SilencedIsTracked
  BY DEF AdmissionInv
<1>2. QED
  BY <1>1, InductiveInvariant, PTL

\* Settings gain a device only while discovery is on, whatever frames were
\* queued when it was turned off.
THEOREM OnlyDiscoveryAddsAlways == Spec => OnlyDiscoveryAdds
<1>1. AdmissionInv /\ [Next]_vars => [stored' \subseteq stored \/ discovery]_vars
  BY StepInv
<1>2. QED
  BY <1>1, InductiveInvariant, PTL DEF Spec, OnlyDiscoveryAdds
=============================================================================
