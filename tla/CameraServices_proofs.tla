------------------------ MODULE CameraServices_proofs ------------------------
(* Proofs about CameraServices, for all limits, units and requests.           *)
EXTENDS CameraServices, TLAPS

Trail == [enabled : BOOLEAN, threshold : Int, type : TypeNames]
Erc == [enabled : BOOLEAN, rate : Int]
Biases == [BiasNames -> Int]

\* Settings that are kept, and what a device holds.
Settings == [trail : Trail, erc : Erc, biases : Biases]
Device == [trail  : [enabled : BOOLEAN, threshold : 0..(Word - 1), type : TypeNames],
           erc    : [enabled : BOOLEAN, rate : 0..(Word - 1)],
           biases : Biases]

\* Requests as they come.
Requests == [trail  : Trail,
             erc    : [enabled : BOOLEAN, rate : 0..(Word - 1)],
             biases : Biases]

\* The state is well typed, and a request that was accepted is one that setParams
\* takes.
Typed ==
    /\ SettingsTypeOK
    /\ camera_settings \in Settings
    /\ device \in Device
    /\ accepted \in Requests
    /\ accepted.trail.type \in Types

\* A trail filter, in units of `unit', is as it was asked for: in any case but for
\* a threshold out of range.
TrailAsked(trail, asked, unit) ==
    /\ trail.enabled = asked.enabled
    /\ trail.type = asked.type
    /\ InRange(asked.threshold) => trail.threshold = asked.threshold * unit

\* What is kept of a group is what was accepted, unless a refused request has
\* been stored over it.
KeptAsAccepted ==
    /\ "trail" \notin refused =>
         TrailAsked(camera_settings.trail, accepted.trail, 1)
    /\ camera_settings.erc = ErcParams(accepted.erc)
    /\ camera_settings.biases = BiasParams(accepted.biases)

\* What is in the device was written as it was accepted, whatever was kept since.
WrittenAsAccepted ==
    /\ "trail" \in settled => TrailAsked(device.trail, accepted.trail, PerMs)
    /\ "erc" \in settled =>
         device.erc = [ErcParams(accepted.erc) EXCEPT !.rate = (@ * PerMev) % Word]
    /\ "biases" \in settled => device.biases = BiasParams(accepted.biases)

\* A recording that was started is about to be named.
RecordingUnderWay ==
    /\ storing = Nothing => recording = {}
    /\ storing \in RecordPaths /\ recording # {} => storing \in recording
    /\ RecordingIsNamed

\* The inductive invariant.
SettingsInv == Typed /\ KeptAsAccepted /\ WrittenAsAccepted

----------------------------------------------------------------------------
\* A remainder is below the modulus, and a number below it is its own remainder.
LEMMA Wrapped ==
    ASSUME NEW x \in Int
    PROVE  /\ x % Word \in 0..(Word - 1)
           /\ x \in 0..(Word - 1) => x % Word = x
  BY UnitsAssumption

\* Clamping ends within the limits, and changes nothing that is.
LEMMA Clamped ==
    ASSUME NEW x \in Int, NEW low \in Int, NEW high \in Int, low <= high
    PROVE  /\ Clamp(x, low, high) \in low..high
           /\ x \in low..high => Clamp(x, low, high) = x
  BY DEF Clamp

\* Half of a word, rounded down.
LEMMA Halved ==
    /\ Word \div 2 \in Nat
    /\ 2 * (Word \div 2) <= Word /\ Word <= 2 * (Word \div 2) + 1
  BY UnitsAssumption

\* The int of an unsigned is the same number while that is small enough.
LEMMA IntOfUnsigned ==
    ASSUME NEW u \in 0..(Word - 1)
    PROVE  ToInt(u) \in Int /\ (u < Word \div 2 => ToInt(u) = u)
  BY Halved, UnitsAssumption DEF ToInt

\* A rate within the limit does not wrap, and is what the getter divides it to.
LEMMA RateFits ==
    ASSUME NEW r \in 0..EventRateMax
    PROVE  /\ r * PerMev \in 0..(EventRateMax * PerMev)
           /\ (r * PerMev) % Word = r * PerMev
           /\ (r * PerMev) \div PerMev = r
<1>1. /\ EventRateMax \in Nat /\ PerMev \in Nat /\ PerMev > 0 /\ Word \in Nat
      /\ EventRateMax * PerMev < Word
  BY UnitsAssumption
<1> DEFINE p == r * PerMev
<1>2. /\ p \in Nat /\ p <= EventRateMax * PerMev
  <2>1. EventRateMax * PerMev - p = (EventRateMax - r) * PerMev
    BY <1>1
  <2>2. EventRateMax - r \in Nat
    BY <1>1
  <2>3. (EventRateMax - r) * PerMev \in Nat
    BY <1>1, <2>2
  <2> QED
    BY <1>1, <2>1, <2>3
<1>3. p \div PerMev = r
  BY <1>1
<1>4. p \in 0..(Word - 1)
  BY <1>1, <1>2
<1> HIDE DEF p
<1>5. p % Word = p
  BY <1>2, <1>4, Wrapped
<1> QED
  BY <1>1, <1>2, <1>3, <1>5 DEF p

\* A threshold in range does not wrap either.
LEMMA ThresholdFits ==
    ASSUME NEW threshold \in Int, InRange(threshold)
    PROVE  /\ threshold \in Nat
           /\ threshold * PerMs \in Nat /\ threshold * PerMs < Word \div 2
           /\ (threshold * PerMs) % Word = threshold * PerMs
<1>1. /\ ThresholdMin \in Nat /\ ThresholdMax \in Nat /\ PerMs \in Nat
      /\ Word \in Nat /\ Word > 0 /\ ThresholdMax * PerMs < Word \div 2
  BY UnitsAssumption
<1> DEFINE p == threshold * PerMs
<1>2. threshold \in Nat /\ ThresholdMax - threshold \in Nat
  BY <1>1 DEF InRange
<1>3. p \in Nat /\ p <= ThresholdMax * PerMs
  <2>1. ThresholdMax * PerMs - p = (ThresholdMax - threshold) * PerMs
    BY <1>1, <1>2
  <2>2. (ThresholdMax - threshold) * PerMs \in Nat
    BY <1>1, <1>2
  <2>3. p \in Nat /\ ThresholdMax * PerMs \in Nat
    BY <1>1, <1>2
  <2> HIDE DEF p
  <2> QED
    BY <2>1, <2>2, <2>3
<1>4. ThresholdMax * PerMs \in Nat
  BY <1>1
<1> HIDE DEF p
<1>5. p < Word \div 2 /\ p \in 0..(Word - 1)
  BY <1>1, <1>3, <1>4, Halved
<1>6. p % Word = p
  BY <1>3, <1>5, Wrapped
<1> QED
  BY <1>2, <1>3, <1>5, <1>6 DEF p

\* What is kept as it was asked is programmed as it was asked, in microseconds.
LEMMA TrailProgrammed ==
    ASSUME NEW kept \in Trail, NEW asked \in Trail, TrailAsked(kept, asked, 1)
    PROVE  TrailAsked([kept EXCEPT !.threshold = (@ * PerMs) % Word],
                      asked, PerMs)
<1> DEFINE written == (kept.threshold * PerMs) % Word
           trail == [kept EXCEPT !.threshold = (@ * PerMs) % Word]
<1>1. /\ trail.enabled = kept.enabled /\ trail.type = kept.type
      /\ trail.threshold = written
  BY DEF Trail
<1>2. ASSUME InRange(asked.threshold)
      PROVE  written = asked.threshold * PerMs
  <2>1. asked.threshold \in Int
    BY DEF Trail
  <2>2. kept.threshold = asked.threshold
    BY <1>2, <2>1 DEF TrailAsked
  <2> QED
    BY <1>2, <2>1, <2>2, ThresholdFits
<1> HIDE DEF written, trail
<1>3. TrailAsked(trail, asked, PerMs)
  BY <1>1, <1>2 DEF TrailAsked
<1> QED
  BY <1>3 DEF trail

\* The parameter that is kept is the one that was given, when it is in range.
LEMMA TrailParameterKept ==
    ASSUME NEW asked \in Trail
    PROVE  /\ TrailParameter(asked) \in Trail
           /\ TrailParameter(asked).type = asked.type
           /\ TrailAsked(TrailParameter(asked), asked, 1)
<1> DEFINE t == IF InRange(asked.threshold) THEN asked.threshold
                                            ELSE ThresholdDefault
<1>1. t \in Int /\ (InRange(asked.threshold) => t = asked.threshold * 1)
  BY UnitsAssumption DEF Trail
<1>2. TrailParameter(asked) = [asked EXCEPT !.threshold = t]
  BY DEF TrailParameter
<1> HIDE DEF t
<1>3. /\ TrailParameter(asked) \in Trail
      /\ TrailParameter(asked).type = asked.type
      /\ TrailParameter(asked).enabled = asked.enabled
      /\ TrailParameter(asked).threshold = t
  BY <1>1, <1>2 DEF Trail
<1> QED
  BY <1>1, <1>3 DEF TrailAsked

\* What the limits make of a request.
LEMMA ErcParamsProperties ==
    ASSUME NEW request \in [enabled : BOOLEAN, rate : 0..(Word - 1)]
    PROVE  /\ ErcParams(request) \in Erc
           /\ ErcParams(request).rate \in 0..EventRateMax
           /\ ErcParams(request).enabled = request.enabled
           /\ request.rate < Word \div 2 =>
                ErcParams(request).rate = Clamp(request.rate, 0, EventRateMax)
<1> DEFINE kept == Clamp(ToInt(request.rate), 0, EventRateMax)
<1>1. request.rate \in 0..(Word - 1) /\ EventRateMax \in Nat
  BY UnitsAssumption
<1>2. /\ ToInt(request.rate) \in Int
      /\ request.rate < Word \div 2 => ToInt(request.rate) = request.rate
  BY <1>1, IntOfUnsigned
<1>3. kept \in 0..EventRateMax
  <2>1. 0 \in Int /\ EventRateMax \in Int /\ 0 <= EventRateMax
    BY <1>1
  <2> QED
    BY <1>2, <2>1, Clamped
<1>4. ErcParams(request) = [enabled |-> request.enabled, rate |-> kept]
  BY DEF ErcParams
<1>5. request.rate < Word \div 2 => kept = Clamp(request.rate, 0, EventRateMax)
  BY <1>2
<1> HIDE DEF kept
<1> QED
  BY <1>1, <1>3, <1>4, <1>5 DEF Erc

\* So for biases.
LEMMA BiasParamsProperties ==
    ASSUME NEW request \in Biases
    PROVE  /\ BiasParams(request) \in Biases
           /\ \A name \in BiasNames :
                /\ BiasParams(request)[name] \in BiasMin..BiasMax
                /\ BiasParams(request)[name] =
                     Clamp(request[name], BiasMin, BiasMax)
                /\ request[name] \in BiasMin..BiasMax =>
                     BiasParams(request)[name] = request[name]
<1>1. BiasMin \in Int /\ BiasMax \in Int /\ BiasMin <= BiasMax
  BY UnitsAssumption
<1>2. DOMAIN request = BiasNames
  BY DEF Biases
<1>3. \A name \in BiasNames :
        /\ BiasParams(request)[name] \in BiasMin..BiasMax
        /\ BiasParams(request)[name] = Clamp(request[name], BiasMin, BiasMax)
        /\ request[name] \in BiasMin..BiasMax =>
             BiasParams(request)[name] = request[name]
  BY <1>1, <1>2, Clamped DEF BiasParams, Biases
<1>4. BiasParams(request) = [name \in BiasNames |-> BiasParams(request)[name]]
  BY <1>2 DEF BiasParams
<1>5. \A name \in BiasNames : BiasParams(request)[name] \in Int
  BY <1>1, <1>3
<1> QED
  BY <1>3, <1>4, <1>5 DEF Biases

\* The fields of the three groups.
LEMMA Fields ==
    ASSUME NEW s \in Settings
    PROVE  /\ DOMAIN s = Groups
           /\ s.trail \in Trail /\ s.erc \in Erc /\ s.biases \in Biases
           /\ DOMAIN s.trail = {"enabled", "threshold", "type"}
           /\ DOMAIN s.erc = {"enabled", "rate"}
           /\ DOMAIN s.biases = BiasNames
  BY DEF Settings, Groups, Trail, Erc, Biases

\* The fields of a device's groups.
LEMMA DeviceFields ==
    ASSUME NEW dev \in Device
    PROVE  /\ DOMAIN dev = Groups
           /\ dev.trail \in [enabled : BOOLEAN, threshold : 0..(Word - 1), type : TypeNames]
           /\ dev.erc \in [enabled : BOOLEAN, rate : 0..(Word - 1)]
           /\ dev.biases \in Biases
           /\ DOMAIN dev.trail = {"enabled", "threshold", "type"}
           /\ DOMAIN dev.erc = {"enabled", "rate"}
           /\ DOMAIN dev.biases = BiasNames
  BY DEF Device, Groups, Biases

\* What the device is told is what a device can hold.
LEMMA ProgrammedFields ==
    ASSUME NEW s \in Settings
    PROVE  /\ Programmed(s).trail = [s.trail EXCEPT !.threshold = (@ * PerMs) % Word]
           /\ Programmed(s).erc = [s.erc EXCEPT !.rate = (@ * PerMev) % Word]
           /\ Programmed(s).biases = s.biases
           /\ Programmed(s) \in Device
<1>1. /\ s.trail.threshold \in Int /\ s.erc.rate \in Int
      /\ PerMs \in Int /\ PerMev \in Int
  BY Fields, UnitsAssumption DEF Trail, Erc
<1>2. /\ s.trail.threshold * PerMs \in Int
      /\ s.erc.rate * PerMev \in Int
  BY <1>1
<1>3. /\ (s.trail.threshold * PerMs) % Word \in 0..(Word - 1)
      /\ (s.erc.rate * PerMev) % Word \in 0..(Word - 1)
  BY <1>2, Wrapped
<1>4. /\ Programmed(s).trail = [s.trail EXCEPT !.threshold = (@ * PerMs) % Word]
      /\ Programmed(s).erc = [s.erc EXCEPT !.rate = (@ * PerMev) % Word]
      /\ Programmed(s).biases = s.biases
      /\ Programmed(s) = [trail |-> Programmed(s).trail, erc |-> Programmed(s).erc,
                          biases |-> Programmed(s).biases]
  <2> DEFINE a == (s.trail.threshold * PerMs) % Word
             b == (s.erc.rate * PerMev) % Word
  <2>1. Programmed(s) = [s EXCEPT !.trail.threshold = a, !.erc.rate = b]
    BY DEF Programmed
  <2> HIDE DEF a, b
  <2>2. /\ Programmed(s).trail = [s.trail EXCEPT !.threshold = a]
        /\ Programmed(s).erc = [s.erc EXCEPT !.rate = b]
        /\ Programmed(s).biases = s.biases
    BY <2>1 DEF Settings
  <2>3. Programmed(s) = [trail |-> Programmed(s).trail, erc |-> Programmed(s).erc,
                         biases |-> Programmed(s).biases]
    BY <2>1 DEF Settings
  <2> QED
    BY <2>2, <2>3 DEF a, b
<1>5. Programmed(s).trail \in [enabled : BOOLEAN, threshold : 0..(Word - 1),
                               type : TypeNames]
  BY <1>3, <1>4, Fields DEF Trail
<1>6. Programmed(s).erc \in [enabled : BOOLEAN, rate : 0..(Word - 1)]
  BY <1>3, <1>4, Fields DEF Erc
<1>7. Programmed(s).biases \in Biases
  BY <1>4, Fields
<1> QED
  BY <1>4, <1>5, <1>6, <1>7 DEF Device

\* Writing some fields of a group leaves a device, and all of them leave the
\* group as it was programmed.
LEMMA WrittenGroup ==
    ASSUME NEW dev \in Device, NEW s \in Settings, NEW group \in Groups, NEW taken
    PROVE  /\ Written(dev, group, s, taken) \in Device
           /\ \A g \in Groups \ {group} : Written(dev, group, s, taken)[g] = dev[g]
           /\ taken = DOMAIN dev[group] =>
                Written(dev, group, s, taken)[group] = Programmed(s)[group]
<1> DEFINE p == Programmed(s)
           fields == [f \in DOMAIN dev[group] |->
                        IF f \in taken THEN p[group][f] ELSE dev[group][f]]
           w == [dev EXCEPT ![group] = fields]
<1>1. p \in Device
  BY ProgrammedFields
<1>2. Written(dev, group, s, taken) = w
  BY DEF Written
<1> HIDE DEF p
<1>3. DOMAIN dev = Groups
  BY DeviceFields
<1> HIDE DEF fields
<1>4. /\ \A g \in Groups \ {group} : w[g] = dev[g]
      /\ w[group] = fields
  BY <1>3
<1> USE DEF fields
<1>5. CASE group = "trail"
  <2>1. /\ fields \in [enabled : BOOLEAN, threshold : 0..(Word - 1), type : TypeNames]
        /\ taken = DOMAIN dev.trail => fields = p.trail
    BY <1>1, <1>5, DeviceFields
  <2> HIDE DEF fields
  <2>2. w \in Device
    BY <1>5, <2>1 DEF Device
  <2> HIDE DEF w
  <2> QED
    BY <1>2, <1>4, <1>5, <2>1, <2>2 DEF p
<1>6. CASE group = "erc"
  <2>1. /\ fields \in [enabled : BOOLEAN, rate : 0..(Word - 1)]
        /\ taken = DOMAIN dev.erc => fields = p.erc
    BY <1>1, <1>6, DeviceFields
  <2> HIDE DEF fields
  <2>2. w \in Device
    BY <1>6, <2>1 DEF Device
  <2> HIDE DEF w
  <2> QED
    BY <1>2, <1>4, <1>6, <2>1, <2>2 DEF p
<1>7. CASE group = "biases"
  <2>1. /\ fields \in Biases
        /\ taken = DOMAIN dev.biases => fields = p.biases
    BY <1>1, <1>7, DeviceFields DEF Biases
  <2> HIDE DEF fields
  <2>2. w \in Device
    BY <1>7, <2>1 DEF Device
  <2> HIDE DEF w
  <2> QED
    BY <1>2, <1>4, <1>7, <2>1, <2>2 DEF p
<1> QED
  BY <1>5, <1>6, <1>7 DEF Groups

\* The groups of requests.
LEMMA RequestFields ==
    ASSUME NEW r \in Requests
    PROVE  /\ DOMAIN r = Groups
           /\ r.trail \in Trail
           /\ r.erc \in [enabled : BOOLEAN, rate : 0..(Word - 1)]
           /\ r.biases \in Biases
  BY DEF Requests, Groups

\* setCamera writes a device, and completely what it writes completely.
LEMMA SetCameraWrites ==
    ASSUME camera_settings \in Settings, NEW taken \in Attempts
    PROVE  /\ SetCamera(taken) \in Device
           /\ Complete(taken) \subseteq Groups
           /\ \A g \in Complete(taken) :
                SetCamera(taken)[g] = Programmed(camera_settings)[g]
<1> DEFINE w(g) == Written(FreshDevice, g, camera_settings, taken[g])
<1>1. FreshDevice \in Device
  <2>1. DOMAIN camera_settings.biases = BiasNames /\ Word \in Nat \ {0}
    BY Fields, UnitsAssumption
  <2>2. /\ FreshDevice.trail \in [enabled : BOOLEAN, threshold : 0..(Word - 1),
                                  type : TypeNames]
        /\ FreshDevice.erc \in [enabled : BOOLEAN, rate : 0..(Word - 1)]
        /\ FreshDevice.biases \in Biases
    <3>1. FreshDevice.biases = [name \in BiasNames |-> 0]
      BY <2>1 DEF FreshDevice
    <3>2. FreshDevice.biases \in Biases
      BY <3>1 DEF Biases
    <3>3. /\ FreshDevice.trail = [enabled |-> FALSE, threshold |-> 0,
                                  type |-> "TRAIL"]
          /\ FreshDevice.erc = [enabled |-> FALSE, rate |-> 0]
      BY DEF FreshDevice
    <3> DEFINE units == 0..(Word - 1)
    <3>4. 0 \in units /\ "TRAIL" \in TypeNames
      BY <2>1 DEF TypeNames, Types
    <3> HIDE DEF units
    <3>5. FreshDevice.trail \in [enabled : BOOLEAN, threshold : units, type : TypeNames]
      BY <3>3, <3>4
    <3>6. FreshDevice.erc \in [enabled : BOOLEAN, rate : units]
      BY <3>3, <3>4
    <3> QED
      BY <3>2, <3>5, <3>6 DEF units
  <2>3. FreshDevice = [trail |-> FreshDevice.trail, erc |-> FreshDevice.erc,
                       biases |-> FreshDevice.biases]
    BY DEF FreshDevice
  <2> QED
    BY <2>2, <2>3 DEF Device
<1>2. \A g \in Groups : DOMAIN FreshDevice[g] = DOMAIN camera_settings[g]
  BY <1>1, Fields, DeviceFields DEF Groups
<1>3. \A g \in Groups :
        /\ w(g) \in Device
        /\ taken[g] = DOMAIN camera_settings[g] =>
             w(g)[g] = Programmed(camera_settings)[g]
  BY <1>1, <1>2, WrittenGroup
<1>4. SetCamera(taken) = [g \in Groups |-> w(g)[g]]
  BY DEF SetCamera
<1> HIDE DEF w
<1>5. SetCamera(taken) \in Device
  <2>1. /\ w("trail") \in Device /\ w("erc") \in Device /\ w("biases") \in Device
    BY <1>3 DEF Groups
  <2>2. SetCamera(taken) = [trail |-> w("trail").trail, erc |-> w("erc").erc,
                            biases |-> w("biases").biases]
    BY <1>4 DEF Groups
  <2> QED
    BY <2>1, <2>2, DeviceFields DEF Device
<1> QED
  BY <1>3, <1>4, <1>5 DEF Complete

\* What is kept as it was accepted is programmed as it was accepted.
LEMMA ProgrammedAsAccepted ==
    ASSUME camera_settings \in Settings, accepted \in Requests, KeptAsAccepted
    PROVE  /\ "trail" \notin refused =>
                TrailAsked(Programmed(camera_settings).trail, accepted.trail, PerMs)
           /\ Programmed(camera_settings).erc =
                [ErcParams(accepted.erc) EXCEPT !.rate = (@ * PerMev) % Word]
           /\ Programmed(camera_settings).biases = BiasParams(accepted.biases)
<1>1. camera_settings.trail \in Trail /\ accepted.trail \in Trail
  BY Fields, RequestFields
<1>2. "trail" \notin refused =>
        TrailAsked(Programmed(camera_settings).trail, accepted.trail, PerMs)
  BY <1>1, ProgrammedFields, TrailProgrammed DEF KeptAsAccepted
<1> QED
  BY <1>2, ProgrammedFields DEF KeptAsAccepted

\* The initial states.
LEMMA InitSettings == Init => SettingsInv
<1> SUFFICES ASSUME Init PROVE SettingsInv
  OBVIOUS
<1>1. PICK t \in TrailRequests, e \in ErcRequests, b \in BiasRequests :
        /\ t.type \in Types
        /\ camera_settings = [trail |-> TrailParameter(t),
                              erc |-> ErcParams(e), biases |-> BiasParams(b)]
        /\ accepted = [trail |-> t, erc |-> e, biases |-> b]
  BY DEF Init
<1>2. /\ t \in Trail /\ e \in [enabled : BOOLEAN, rate : 0..(Word - 1)]
      /\ b \in Biases
  BY RequestsAssumption DEF Trail, Biases
<1>3. /\ ErcParams(e) \in Erc /\ ErcParams(e).rate \in 0..EventRateMax
      /\ BiasParams(b) \in Biases
      /\ \A name \in BiasNames : BiasParams(b)[name] \in BiasMin..BiasMax
      /\ TrailParameter(t) \in Trail /\ TrailParameter(t).type = t.type
      /\ TrailAsked(TrailParameter(t), t, 1)
  BY <1>2, ErcParamsProperties, BiasParamsProperties, TrailParameterKept
<1>4. camera_settings \in Settings /\ accepted \in Requests
  BY <1>1, <1>2, <1>3 DEF Settings, Requests
<1>5. KeptAsAccepted
  BY <1>1, <1>3 DEF KeptAsAccepted
<1>6. PICK taken \in Attempts : device = SetCamera(taken) /\ settled = Complete(taken)
  BY DEF Init
<1>7. /\ device \in Device /\ settled \subseteq Groups
      /\ \A g \in settled : device[g] = Programmed(camera_settings)[g]
  BY <1>4, <1>6, SetCameraWrites
<1>8. WrittenAsAccepted
  BY <1>4, <1>5, <1>7, ProgrammedAsAccepted DEF WrittenAsAccepted, Init
<1>9. /\ accepted.trail.type \in Types
      /\ camera_settings.trail.type \in Types
      /\ camera_settings.erc.rate \in 0..EventRateMax
      /\ DOMAIN camera_settings.biases = BiasNames
      /\ \A name \in BiasNames :
           camera_settings.biases[name] \in BiasMin..BiasMax
  BY <1>1, <1>3, <1>4, Fields
<1>10. SettingsTypeOK
  BY <1>7, <1>9, DeviceFields DEF SettingsTypeOK, Init
<1> QED
  BY <1>4, <1>5, <1>7, <1>8, <1>9, <1>10 DEF SettingsInv, Typed

----------------------------------------------------------------------------
\* What a service writes: its own group, completely if it says so.
LEMMA ConfigureWrites ==
    ASSUME device \in Device, camera_settings' \in Settings, accepted \in Requests,
           settled \subseteq Groups,
           NEW group \in Groups, NEW request, Configure(group, request)
    PROVE  /\ device' \in Device /\ settled' \subseteq Groups
           /\ refused' \subseteq refused /\ group \notin refused'
           /\ refused \subseteq refused' \cup {group}
           /\ accepted'[group] = request
           /\ DOMAIN accepted' = Groups
           /\ \A g \in Groups \ {group} :
                /\ device'[g] = device[g] /\ accepted'[g] = accepted[g]
                /\ g \in settled' => g \in settled
           /\ group \in settled' => device'[group] = Programmed(camera_settings')[group]
<1>1. PICK taken :
        /\ device' = Written(device, group, camera_settings', taken)
        /\ accepted' = [accepted EXCEPT ![group] = request]
        /\ settled' = IF taken = DOMAIN device[group]
                        THEN settled \cup {group} ELSE settled \ {group}
        /\ refused' = refused \ {group}
  BY DEF Configure
<1>2. /\ device' \in Device
      /\ \A g \in Groups \ {group} : device'[g] = device[g]
      /\ taken = DOMAIN device[group] =>
           device'[group] = Programmed(camera_settings')[group]
  BY <1>1, WrittenGroup
<1>3. /\ accepted'[group] = request /\ DOMAIN accepted' = Groups
      /\ \A g \in Groups \ {group} : accepted'[g] = accepted[g]
  BY <1>1, RequestFields
<1> QED
  BY <1>1, <1>2, <1>3

\* setTrailFilterService, whether it refuses or not.
LEMMA TrailServiceKeeps ==
    ASSUME SettingsInv, SetTrailFilterService
    PROVE  SettingsInv'
<1>1. PICK request \in TrailRequests :
        /\ camera_settings' = [camera_settings EXCEPT
                                 !.trail = TrailParams(@, request)]
        /\ IF request.type \notin Types \/ GivesUp("trail", camera_settings')
             THEN Refuse("trail") ELSE Configure("trail", request)
        /\ UNCHANGED <<camera, recordVars>>
  BY DEF SetTrailFilterService
<1>2. /\ camera_settings \in Settings /\ accepted \in Requests /\ device \in Device
      /\ settled \subseteq Groups /\ refused \subseteq Groups
      /\ request \in Trail /\ camera_settings.trail.type \in Types
  BY RequestsAssumption DEF SettingsInv, Typed, SettingsTypeOK, Trail
<1>3. /\ camera_settings' \in Settings
      /\ camera_settings'.trail = TrailParams(camera_settings.trail, request)
      /\ camera_settings'.trail.type \in Types
      /\ request.type \in Types => camera_settings'.trail = request
      /\ camera_settings'.erc = camera_settings.erc
      /\ camera_settings'.biases = camera_settings.biases
  <2>1. /\ TrailParams(camera_settings.trail, request) \in Trail
        /\ TrailParams(camera_settings.trail, request).type \in Types
        /\ request.type \in Types =>
             TrailParams(camera_settings.trail, request) = request
    BY <1>2, Fields DEF TrailParams, Trail
  <2> DEFINE kept == TrailParams(camera_settings.trail, request)
  <2>2. camera_settings' = [camera_settings EXCEPT !.trail = kept]
    BY <1>1
  <2> HIDE DEF kept
  <2>3. kept \in Trail => camera_settings' \in Settings
    BY <1>2, <2>2 DEF Settings
  <2>4. /\ camera_settings'.trail = kept
        /\ camera_settings'.erc = camera_settings.erc
        /\ camera_settings'.biases = camera_settings.biases
    BY <1>2, <2>2 DEF Settings
  <2> QED
    BY <2>1, <2>3, <2>4 DEF kept
<1>4. CASE Refuse("trail")
  <2>1. KeptAsAccepted' /\ WrittenAsAccepted'
    BY <1>3, <1>4 DEF Refuse, SettingsInv, KeptAsAccepted, WrittenAsAccepted
  <2>2. Typed'
    BY <1>1, <1>2, <1>3, <1>4 DEF Refuse, SettingsInv, Typed, SettingsTypeOK, recordVars,
       Groups
  <2> QED
    BY <2>1, <2>2 DEF SettingsInv
<1>5. CASE /\ request.type \in Types /\ ~GivesUp("trail", camera_settings')
           /\ Configure("trail", request)
  <2>1. /\ device' \in Device /\ settled' \subseteq Groups
        /\ refused' \subseteq Groups
        /\ accepted'.trail = request /\ accepted'.erc = accepted.erc
        /\ accepted'.biases = accepted.biases /\ DOMAIN accepted' = Groups
        /\ device'.erc = device.erc /\ device'.biases = device.biases
        /\ "erc" \in settled' => "erc" \in settled
        /\ "biases" \in settled' => "biases" \in settled
        /\ "trail" \in settled' =>
             device'.trail = Programmed(camera_settings').trail
    BY <1>2, <1>3, <1>5, ConfigureWrites DEF Groups
  <2>2. accepted' \in Requests
    <3>1. accepted' = [accepted EXCEPT !.trail = request]
      BY <1>5 DEF Configure
    <3> QED
      BY <1>2, <3>1 DEF Requests
  <2>3. TrailAsked(request, request, 1)
    BY <1>2 DEF TrailAsked, Trail
  <2>4. KeptAsAccepted'
    BY <1>3, <1>5, <2>1, <2>3 DEF SettingsInv, KeptAsAccepted
  <2>5. Programmed(camera_settings').trail =
          [camera_settings'.trail EXCEPT !.threshold = (@ * PerMs) % Word]
    BY <1>3, ProgrammedFields
  <2>e. TrailAsked(Programmed(camera_settings').trail, request, PerMs)
    BY <1>2, <1>3, <1>5, <2>3, <2>5, TrailProgrammed
  <2>6. WrittenAsAccepted'
    BY <1>3, <1>5, <2>1, <2>e DEF SettingsInv, WrittenAsAccepted
  <2>7. SettingsTypeOK'
    BY <1>1, <1>3, <2>1, DeviceFields DEF SettingsInv, Typed, SettingsTypeOK, recordVars
  <2>8. Typed'
    BY <1>3, <1>5, <2>1, <2>2, <2>7 DEF Typed
  <2> QED
    BY <2>4, <2>6, <2>8 DEF SettingsInv
<1> QED
  BY <1>1, <1>4, <1>5

\* setErcService.
LEMMA ErcServiceKeeps ==
    ASSUME SettingsInv, SetErcService
    PROVE  SettingsInv'
<1>1. PICK request \in ErcRequests :
        /\ camera_settings' = [camera_settings EXCEPT !.erc = ErcParams(request)]
        /\ Configure("erc", request)
        /\ UNCHANGED <<camera, recordVars>>
  BY DEF SetErcService
<1>2. /\ camera_settings \in Settings /\ accepted \in Requests /\ device \in Device
      /\ settled \subseteq Groups /\ refused \subseteq Groups
      /\ request \in [enabled : BOOLEAN, rate : 0..(Word - 1)]
  BY RequestsAssumption DEF SettingsInv, Typed, SettingsTypeOK
<1>3. ErcParams(request) \in Erc /\ ErcParams(request).rate \in 0..EventRateMax
  BY <1>2, ErcParamsProperties
<1>4. /\ camera_settings' \in Settings
      /\ camera_settings'.erc = ErcParams(request)
      /\ camera_settings'.trail = camera_settings.trail
      /\ camera_settings'.biases = camera_settings.biases
  BY <1>1, <1>2, <1>3 DEF Settings
<1>5. /\ device' \in Device /\ settled' \subseteq Groups
      /\ refused' \subseteq Groups
      /\ accepted'.erc = request /\ accepted'.trail = accepted.trail
      /\ accepted'.biases = accepted.biases /\ DOMAIN accepted' = Groups
      /\ device'.trail = device.trail /\ device'.biases = device.biases
      /\ "trail" \in settled' => "trail" \in settled
      /\ "biases" \in settled' => "biases" \in settled
      /\ "trail" \in refused => "trail" \in refused'
      /\ "erc" \in settled' => device'.erc = Programmed(camera_settings').erc
  BY <1>1, <1>2, <1>4, ConfigureWrites DEF Groups
<1>6. accepted' \in Requests
  <2>1. accepted' = [accepted EXCEPT !.erc = request]
    BY <1>1 DEF Configure
  <2> QED
    BY <1>2, <2>1 DEF Requests
<1>7. KeptAsAccepted'
  BY <1>4, <1>5 DEF SettingsInv, KeptAsAccepted
<1>8. Programmed(camera_settings').erc =
        [camera_settings'.erc EXCEPT !.rate = (@ * PerMev) % Word]
  BY <1>4, ProgrammedFields
<1>9. WrittenAsAccepted'
  BY <1>4, <1>5, <1>8 DEF SettingsInv, WrittenAsAccepted
<1>10. SettingsTypeOK'
  BY <1>1, <1>3, <1>4, <1>5, DeviceFields DEF SettingsInv, Typed, SettingsTypeOK, recordVars
<1>11. Typed'
  BY <1>4, <1>5, <1>6, <1>10 DEF SettingsInv, Typed
<1> QED
  BY <1>7, <1>9, <1>11 DEF SettingsInv

\* setBiasesService.
LEMMA BiasesServiceKeeps ==
    ASSUME SettingsInv, SetBiasesService
    PROVE  SettingsInv'
<1>1. PICK request \in BiasRequests :
        /\ camera_settings' = [camera_settings EXCEPT !.biases = BiasParams(request)]
        /\ Configure("biases", request)
        /\ UNCHANGED <<camera, recordVars>>
  BY DEF SetBiasesService
<1>2. /\ camera_settings \in Settings /\ accepted \in Requests /\ device \in Device
      /\ settled \subseteq Groups /\ refused \subseteq Groups
      /\ request \in Biases
  BY RequestsAssumption DEF SettingsInv, Typed, SettingsTypeOK, Biases
<1>3. /\ BiasParams(request) \in Biases
      /\ \A name \in BiasNames : BiasParams(request)[name] \in BiasMin..BiasMax
  BY <1>2, BiasParamsProperties
<1>4. /\ camera_settings' \in Settings
      /\ camera_settings'.biases = BiasParams(request)
      /\ camera_settings'.trail = camera_settings.trail
      /\ camera_settings'.erc = camera_settings.erc
  BY <1>1, <1>2, <1>3 DEF Settings
<1>5. /\ device' \in Device /\ settled' \subseteq Groups
      /\ refused' \subseteq Groups
      /\ accepted'.biases = request /\ accepted'.trail = accepted.trail
      /\ accepted'.erc = accepted.erc /\ DOMAIN accepted' = Groups
      /\ device'.trail = device.trail /\ device'.erc = device.erc
      /\ "trail" \in settled' => "trail" \in settled
      /\ "erc" \in settled' => "erc" \in settled
      /\ "trail" \in refused => "trail" \in refused'
      /\ "biases" \in settled' => device'.biases = Programmed(camera_settings').biases
  BY <1>1, <1>2, <1>4, ConfigureWrites DEF Groups
<1>6. accepted' \in Requests
  <2>1. accepted' = [accepted EXCEPT !.biases = request]
    BY <1>1 DEF Configure
  <2> QED
    BY <1>2, <2>1 DEF Requests
<1>7. KeptAsAccepted'
  BY <1>4, <1>5 DEF SettingsInv, KeptAsAccepted
<1>8. Programmed(camera_settings').biases = camera_settings'.biases
  BY <1>4, ProgrammedFields
<1>9. WrittenAsAccepted'
  BY <1>4, <1>5, <1>8 DEF SettingsInv, WrittenAsAccepted
<1>10. SettingsTypeOK'
  <2>1. DOMAIN camera_settings'.biases = BiasNames
    BY <1>4, Fields
  <2> QED
    BY <1>1, <1>3, <1>4, <1>5, <2>1, DeviceFields
       DEF SettingsInv, Typed, SettingsTypeOK, recordVars
<1>11. Typed'
  BY <1>4, <1>5, <1>6, <1>10 DEF SettingsInv, Typed
<1> QED
  BY <1>7, <1>9, <1>11 DEF SettingsInv

\* reopenCamera's openCamera and setCamera.
LEMMA ReopenKeeps ==
    ASSUME SettingsInv, Reopen
    PROVE  SettingsInv'
<1>1. PICK taken \in Attempts :
        /\ device' = SetCamera(taken)
        /\ settled' = Complete(taken) \ refused
  BY DEF Reopen
<1>2. camera_settings \in Settings /\ accepted \in Requests /\ KeptAsAccepted
  BY DEF SettingsInv, Typed
<1>3. /\ device' \in Device /\ settled' \subseteq Groups
      /\ \A g \in settled' : /\ device'[g] = Programmed(camera_settings)[g]
                             /\ g \notin refused
  BY <1>1, <1>2, SetCameraWrites
<1>4. WrittenAsAccepted'
  <2>1. UNCHANGED accepted
    BY DEF Reopen
  <2> QED
    BY <1>2, <1>3, <2>1, ProgrammedAsAccepted DEF WrittenAsAccepted
<1>5. KeptAsAccepted'
  BY <1>2 DEF Reopen, KeptAsAccepted
<1>6. Typed'
  BY <1>3, DeviceFields DEF Reopen, SettingsInv, Typed, SettingsTypeOK
<1> QED
  BY <1>4, <1>5, <1>6 DEF SettingsInv

\* The inductive invariant of the settings: every group that was written
\* completely since is in the device as it was accepted, in the device's units
\* (camera_settings.hpp and fluxeem_ros2_publisher_camera.cpp).
THEOREM SettingsInvariance == Spec => []SettingsInv
<1>1. SettingsInv /\ [Next]_vars => SettingsInv'
  <2> SUFFICES ASSUME SettingsInv, [Next]_vars PROVE SettingsInv'
    OBVIOUS
  <2>1. CASE SetTrailFilterService
    BY <2>1, TrailServiceKeeps
  <2>2. CASE SetErcService
    BY <2>2, ErcServiceKeeps
  <2>3. CASE SetBiasesService
    BY <2>3, BiasesServiceKeeps
  <2>4. CASE Reopen
    BY <2>4, ReopenKeeps
  <2>5. CASE RecordService
    BY <2>5 DEF RecordService, settingVars, SettingsInv, Typed, SettingsTypeOK,
       KeptAsAccepted, WrittenAsAccepted
  <2>6. CASE StoreRecordingPath
    BY <2>6 DEF StoreRecordingPath, settingVars, SettingsInv, Typed, SettingsTypeOK,
       KeptAsAccepted, WrittenAsAccepted
  <2>7. CASE LoseCamera
    BY <2>7 DEF LoseCamera, settingVars, SettingsInv, Typed, SettingsTypeOK,
       KeptAsAccepted, WrittenAsAccepted
  <2>8. CASE UNCHANGED vars
    BY <2>8 DEF vars, settingVars, recordVars, SettingsInv, Typed, SettingsTypeOK,
       KeptAsAccepted, WrittenAsAccepted
  <2> QED
    BY <2>1, <2>2, <2>3, <2>4, <2>5, <2>6, <2>7, <2>8 DEF Next
<1> QED
  BY <1>1, InitSettings, PTL DEF Spec

----------------------------------------------------------------------------
\* SettingsTypeOK for every limit, unit and request.
THEOREM TypeCorrect == Spec => []SettingsTypeOK
<1>1. SettingsInv => SettingsTypeOK
  BY DEF SettingsInv, Typed
<1> QED
  BY <1>1, SettingsInvariance, PTL

\* AcceptedInForce: what a service has accepted is what the camera does, in its
\* own units and within the limits, also after a reopening.
THEOREM AcceptedInForceAlways == Spec => []AcceptedInForce
<1>1. SettingsInv => AcceptedInForce
  <2> SUFFICES ASSUME SettingsInv PROVE AcceptedInForce
    OBVIOUS
  <2>1. /\ accepted.erc \in [enabled : BOOLEAN, rate : 0..(Word - 1)]
        /\ accepted.biases \in Biases /\ device \in Device
    BY RequestFields DEF SettingsInv, Typed
  <2>2. ASSUME "trail" \in settled
        PROVE  /\ InRange(accepted.trail.threshold) =>
                    device.trail.threshold = accepted.trail.threshold * PerMs
               /\ device.trail.type = accepted.trail.type
               /\ device.trail.enabled = accepted.trail.enabled
    BY <2>2 DEF SettingsInv, WrittenAsAccepted, TrailAsked
  <2>3. ASSUME "erc" \in settled
        PROVE  /\ device.erc.rate <= EventRateMax * PerMev
               /\ accepted.erc.rate < Word \div 2 =>
                    device.erc.rate = Clamp(accepted.erc.rate, 0, EventRateMax) * PerMev
               /\ device.erc.enabled = accepted.erc.enabled
    <3> DEFINE kept == ErcParams(accepted.erc)
    <3>1. /\ kept \in Erc /\ kept.rate \in 0..EventRateMax
          /\ kept.enabled = accepted.erc.enabled
          /\ accepted.erc.rate < Word \div 2 =>
               kept.rate = Clamp(accepted.erc.rate, 0, EventRateMax)
      BY <2>1, ErcParamsProperties
    <3>2. device.erc = [kept EXCEPT !.rate = (@ * PerMev) % Word]
      BY <2>3 DEF SettingsInv, WrittenAsAccepted
    <3> HIDE DEF kept
    <3>3. /\ (kept.rate * PerMev) % Word = kept.rate * PerMev
          /\ kept.rate * PerMev \in 0..(EventRateMax * PerMev)
      BY <3>1, RateFits
    <3>4. device.erc.rate = kept.rate * PerMev /\ device.erc.enabled = kept.enabled
      BY <3>1, <3>2, <3>3 DEF Erc
    <3> QED
      BY <3>1, <3>3, <3>4
  <2>4. ASSUME "biases" \in settled, NEW name \in DOMAIN device.biases
        PROVE  device.biases[name] = Clamp(accepted.biases[name], BiasMin, BiasMax)
    <3>1. device.biases = BiasParams(accepted.biases) /\ name \in BiasNames
      BY <2>1, <2>4, DeviceFields DEF SettingsInv, WrittenAsAccepted
    <3> QED
      BY <2>1, <2>4, <3>1, BiasParamsProperties
  <2> QED
    BY <2>2, <2>3, <2>4 DEF AcceptedInForce
<1> QED
  BY <1>1, SettingsInvariance, PTL

\* ReportCanBeSentBack: what camera_info_srv reports can be sent back.
THEOREM ReportCanBeSentBackAlways == Spec => []ReportCanBeSentBack
<1>1. SettingsInv /\ AcceptedInForce => ReportCanBeSentBack
  <2> SUFFICES ASSUME SettingsInv, AcceptedInForce, camera = "running"
               PROVE  /\ "trail" \in settled /\ InRange(accepted.trail.threshold) =>
                           CameraInfo.trail =
                             [accepted.trail EXCEPT !.threshold = @ * PerMs]
                      /\ "erc" \in settled =>
                           Programmed([camera_settings EXCEPT
                             !.erc = ErcParams(CameraInfo.erc)]).erc = device.erc
                      /\ "biases" \in settled =>
                           BiasParams(CameraInfo.biases) = device.biases
    BY DEF ReportCanBeSentBack
  <2>1. /\ accepted \in Requests /\ device \in Device
        /\ accepted.trail \in Trail /\ accepted.trail.threshold \in Int
        /\ accepted.erc \in [enabled : BOOLEAN, rate : 0..(Word - 1)]
        /\ accepted.biases \in Biases /\ camera_settings \in Settings
    BY RequestFields DEF SettingsInv, Typed, Trail
  <2>2. ASSUME "trail" \in settled, InRange(accepted.trail.threshold)
        PROVE  CameraInfo.trail = [accepted.trail EXCEPT !.threshold = @ * PerMs]
    <3> DEFINE p == accepted.trail.threshold * PerMs
    <3>1. /\ device.trail.threshold = p
          /\ device.trail.type = accepted.trail.type
          /\ device.trail.enabled = accepted.trail.enabled
      BY <2>2 DEF AcceptedInForce
    <3>2. p \in Nat /\ Word \div 2 \in Nat /\ p < Word \div 2
      BY <2>1, <2>2, Halved, ThresholdFits
    <3> HIDE DEF p
    <3>3. ToInt(p) = p
      BY <3>2 DEF ToInt
    <3>4. CameraInfo.trail = [device.trail EXCEPT !.threshold = p]
      BY <3>1, <3>3 DEF CameraInfo
    <3> QED
      BY <2>1, <3>1, <3>4, DeviceFields DEF p, Trail
  <2>3. ASSUME "erc" \in settled
        PROVE  Programmed([camera_settings EXCEPT
                 !.erc = ErcParams(CameraInfo.erc)]).erc = device.erc
    <3> DEFINE kept == ErcParams(accepted.erc)
               report == CameraInfo.erc
    <3>1. kept \in Erc /\ kept.rate \in 0..EventRateMax
      BY <2>1, ErcParamsProperties
    <3>2. device.erc = [kept EXCEPT !.rate = (@ * PerMev) % Word]
      BY <2>3 DEF SettingsInv, WrittenAsAccepted
    <3>3. report = [device.erc EXCEPT !.rate = @ \div PerMev]
      BY DEF CameraInfo
    <3> HIDE DEF kept
    <3>4. /\ (kept.rate * PerMev) % Word = kept.rate * PerMev
          /\ (kept.rate * PerMev) \div PerMev = kept.rate
      BY <3>1, RateFits
    <3>5. report = kept
      BY <3>1, <3>2, <3>3, <3>4 DEF Erc
    <3>6. kept \in [enabled : BOOLEAN, rate : 0..(Word - 1)]
          /\ kept.rate < Word \div 2
      <4>1. /\ EventRateMax \in Nat /\ EventRateMax < Word \div 2
            /\ Word \in Nat /\ Word \div 2 \in Nat /\ 2 * (Word \div 2) <= Word
        BY Halved, UnitsAssumption
      <4> DEFINE h == Word \div 2
                 r == kept.rate
      <4>2. r \in 0..EventRateMax
        BY <3>1
      <4> HIDE DEF h, r
      <4>3. r \in 0..(Word - 1) /\ r < h
        BY <4>1, <4>2 DEF h
      <4> QED
        BY <3>1, <4>3 DEF r, h, Erc
    <3>7. Clamp(kept.rate, 0, EventRateMax) = kept.rate
      <4>1. /\ 0 \in Int /\ EventRateMax \in Int /\ 0 <= EventRateMax
            /\ kept.rate \in Int
        BY <3>1, UnitsAssumption
      <4> QED
        BY <3>1, <4>1, Clamped
    <3>8. ErcParams(kept) = kept
      <4>1. /\ ErcParams(kept) \in Erc /\ ErcParams(kept).enabled = kept.enabled
            /\ ErcParams(kept).rate = kept.rate
        BY <3>6, <3>7, ErcParamsProperties
      <4> QED
        BY <3>1, <4>1 DEF Erc
    <3> DEFINE s == [camera_settings EXCEPT !.erc = kept]
    <3>9. s \in Settings /\ s.erc = kept
      BY <2>1, <3>1 DEF Settings
    <3> HIDE DEF s
    <3>10. Programmed(s).erc = [kept EXCEPT !.rate = (@ * PerMev) % Word]
      BY <3>9, ProgrammedFields
    <3> QED
      BY <3>2, <3>5, <3>8, <3>10 DEF s
  <2>4. ASSUME "biases" \in settled
        PROVE  BiasParams(CameraInfo.biases) = device.biases
    <3> DEFINE kept == BiasParams(accepted.biases)
    <3>1. CameraInfo.biases = kept /\ device.biases = kept
      BY <2>4 DEF CameraInfo, SettingsInv, WrittenAsAccepted
    <3>2. /\ kept \in Biases
          /\ \A name \in BiasNames : kept[name] \in BiasMin..BiasMax
      BY <2>1, BiasParamsProperties
    <3> HIDE DEF kept
    <3>3. /\ BiasParams(kept) \in Biases
          /\ \A name \in BiasNames : BiasParams(kept)[name] = kept[name]
      BY <3>2, BiasParamsProperties
    <3> QED
      BY <3>1, <3>2, <3>3 DEF Biases
  <2> QED
    BY <2>2, <2>3, <2>4
<1> QED
  BY <1>1, SettingsInvariance, AcceptedInForceAlways, PTL

\* RecordingIsNamed: while the camera writes a file and no request is under way,
\* the messages name that file (recordServiceCallback).
THEOREM RecordingIsNamedAlways == Spec => []RecordingIsNamed
<1>1. Init => RecordingUnderWay
  BY UnitsAssumption DEF Init, RecordingUnderWay, RecordingIsNamed, Nothing
<1>2. SettingsTypeOK /\ RecordingUnderWay /\ [Next]_vars => RecordingUnderWay'
  <2> SUFFICES ASSUME SettingsTypeOK, RecordingUnderWay, [Next]_vars
               PROVE  RecordingUnderWay'
    OBVIOUS
  <2> USE DEF RecordingUnderWay, RecordingIsNamed
  <2>1. Nothing # "idle" /\ Nothing \notin RecordPaths /\ "idle" \notin RecordPaths
    BY UnitsAssumption DEF Nothing
  <2>2. CASE RecordService
    BY <2>1, <2>2 DEF RecordService
  <2>3. CASE StoreRecordingPath
    BY <2>1, <2>3 DEF StoreRecordingPath, SettingsTypeOK
  <2>4. CASE LoseCamera
    BY <2>4 DEF LoseCamera
  <2>5. CASE Reopen
    BY <2>5 DEF Reopen
  <2>6. CASE SetTrailFilterService \/ SetErcService \/ SetBiasesService
              \/ UNCHANGED vars
    BY <2>6 DEF SetTrailFilterService, SetErcService, SetBiasesService, vars,
       recordVars
  <2> QED
    BY <2>2, <2>3, <2>4, <2>5, <2>6 DEF Next
<1>3. RecordingUnderWay => RecordingIsNamed
  BY DEF RecordingUnderWay
<1> QED
  BY <1>1, <1>2, <1>3, TypeCorrect, PTL DEF Spec

=============================================================================
