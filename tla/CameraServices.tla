--------------------------- MODULE CameraServices ---------------------------
(* The settings of a live camera and the services that change them: the       *)
(* requests of fluxeem_ros2_publisher_services.cpp, what camera_settings.hpp  *)
(* keeps of them, what fluxeem_ros2_publisher_camera.cpp writes into the      *)
(* device and reads back, and what a reopening restores.  In raw mode every   *)
(* service that changes something returns at once and nothing here happens.   *)
(*                                                                            *)
(* Services and the timer that reopens the camera are callbacks of one group  *)
(* of the executor, so each is one step; the SDK thread copies the name of    *)
(* the recording into its messages at any time, so a recording request is two.*)
EXTENDS Integers

CONSTANTS
    TrailRequests,    \* records [enabled, threshold, type]
    ErcRequests,      \* records [enabled, rate], rate unsigned
    BiasRequests,     \* functions from the names of biases to values
    RecordPaths,      \* file_path of recording requests
    AvailableTypes,   \* the trail filters this device has
    ThresholdMin, ThresholdMax,  \* trail thresholds a parameter may have: 1, 100
    ThresholdDefault,            \* what any other becomes: 50
    BiasMin, BiasMax, \* BIAS_..._MIN_OFFSET, BIAS_..._MAX_OFFSET
    EventRateMax,     \* EVENT_RATE_MEV_MAX: 320
    PerMev,           \* EVENTS_PER_MEV: 1000000
    PerMs,            \* microseconds of a millisecond: 1000
    Word              \* 2^32: the unsigned integers of the device

Types == {"STC_CUT_TRAIL", "STC_KEEP_TRAIL", "TRAIL"}
Groups == {"trail", "erc", "biases"}
Nothing == "nothing"

ASSUME UnitsAssumption ==
    /\ {EventRateMax, PerMev, PerMs, Word} \subseteq Nat \ {0}
    /\ EventRateMax * PerMev < Word
    /\ EventRateMax < Word \div 2
    /\ BiasMin \in Int /\ BiasMax \in Int /\ BiasMin <= BiasMax
    /\ {ThresholdMin, ThresholdMax} \subseteq Nat
    /\ ThresholdDefault \in ThresholdMin..ThresholdMax
    /\ ThresholdMax * PerMs < Word \div 2
    /\ AvailableTypes \subseteq Types
    /\ {Nothing, "idle"} \cap RecordPaths = {}

\* The types of trail filter a request may name, not all of which exist.
TypeNames == Types \cup {request.type : request \in TrailRequests}

BiasNames == UNION {DOMAIN request : request \in BiasRequests}

\* What the services' messages can carry.
ASSUME RequestsAssumption ==
    /\ TrailRequests \subseteq [enabled : BOOLEAN, threshold : Int, type : TypeNames]
    /\ ErcRequests \subseteq [enabled : BOOLEAN, rate : 0..(Word - 1)]
    /\ BiasRequests \subseteq [BiasNames -> Int]

VARIABLES
    camera_settings,   \* camera_settings_
    device,            \* the facilities of the camera that is open
    camera,            \* "running", or "lost": not is_running()
    recording,         \* the files the camera writes
    raw_file_path,     \* recording_file_path_ and raw_file_path_ of the modules
    storing,           \* the name a recording request is about to store
    accepted,          \* history: the last request of each group that was not
                       \* refused, at first the parameters
    settled,           \* history: the groups in which it succeeded
    refused            \* history: the groups with a request refused since

settingVars == <<camera_settings, device, accepted, settled, refused>>
recordVars == <<recording, raw_file_path, storing>>
vars == <<settingVars, camera, recordVars>>

----------------------------------------------------------------------------
\* static_cast<int> of a 32-bit unsigned.
ToInt(u) == IF u >= Word \div 2 THEN u - Word ELSE u

Clamp(x, low, high) == IF x < low THEN low ELSE IF x > high THEN high ELSE x

\* Variant of ErcParams: the rate is not clamped.
ErcParams_Unclamped(request) == [request EXCEPT !.rate = ToInt(@)]

\* EventRateControl::setParams, whose int parameter the unsigned rate becomes.
ErcParams(request) ==
    [request EXCEPT !.rate = Clamp(ToInt(@), 0, EventRateMax)]

\* Biases::setParams.
BiasParams(request) ==
    [name \in DOMAIN request |-> Clamp(request[name], BiasMin, BiasMax)]

\* TrailFilter::setParams: an unknown type leaves the old one, after the other
\* two fields have been assigned.
TrailParams(old, request) ==
    [request EXCEPT !.type = IF @ \in Types THEN @ ELSE old.type]

\* A threshold within the range that README.MD documents.
InRange(threshold) == threshold \in ThresholdMin..ThresholdMax

\* setCameraParams, which alone looks at the range: what is outside becomes the
\* default.
TrailParameter(parameter) ==
    [parameter EXCEPT !.threshold = IF InRange(@) THEN @ ELSE ThresholdDefault]

\* What the settings are in the device: its threshold in microseconds, its rate
\* in events per second.  The multiplications wrap at 32 bits.
Programmed(settings) ==
    [settings EXCEPT !.trail.threshold = (@ * PerMs) % Word,
                     !.erc.rate = (@ * PerMev) % Word]

\* setTrailFilter gives up before it touches the device.
GivesUp(group, settings) ==
    group = "trail" /\ \/ settings.trail.threshold < 0
                       \/ settings.trail.type \notin AvailableTypes

\* The fields of a group that the device takes: each call may fail, and an
\* exception or a missing facility ends the sequence.
Taken(group, settings) ==
    IF GivesUp(group, settings) THEN {{}} ELSE SUBSET DOMAIN settings[group]

\* setTrailFilter, setEventRateControl, setBiases: `taken' is written.
Written(dev, group, settings, taken) ==
    [dev EXCEPT ![group] = [f \in DOMAIN dev[group] |->
       IF f \in taken THEN Programmed(settings)[group][f] ELSE dev[group][f]]]

\* The state of a device that nobody has configured.
FreshDevice ==
    [trail  |-> [enabled |-> FALSE, threshold |-> 0, type |-> "TRAIL"],
     erc    |-> [enabled |-> FALSE, rate |-> 0],
     biases |-> [name \in DOMAIN camera_settings.biases |-> 0]]

\* What setCamera may write into a device, group by group.
Attempts ==
    [trail  : Taken("trail", camera_settings),
     erc    : Taken("erc", camera_settings),
     biases : Taken("biases", camera_settings)]

\* Variant of SetCamera: the biases are left to the services.
SetCamera_WithoutBiases(taken) ==
    [group \in Groups |->
       IF group = "biases" THEN FreshDevice.biases
       ELSE Written(FreshDevice, group, camera_settings, taken[group])[group]]

\* setCamera writes every group and ignores what fails.
SetCamera(taken) ==
    [group \in Groups |->
       Written(FreshDevice, group, camera_settings, taken[group])[group]]

\* The groups of which everything was written.
Complete(taken) ==
    {group \in Groups : taken[group] = DOMAIN camera_settings[group]}

\* Variant of CameraInfo: the rate is not converted back either.
CameraInfo_Raw ==
    [trail  |-> [device.trail EXCEPT !.threshold = ToInt(@)],
     erc    |-> device.erc,
     biases |-> device.biases]

\* The getters behind camera_info_srv.  The threshold is not converted back.
CameraInfo ==
    [trail  |-> [device.trail EXCEPT !.threshold = ToInt(@)],
     erc    |-> [device.erc EXCEPT !.rate = @ \div PerMev],
     biases |-> device.biases]

\* setCameraParams, where an unknown type and a rate that is negative as an int
\* are errors; then the first camera is configured.
Init ==
    /\ \E t \in TrailRequests, e \in ErcRequests, b \in BiasRequests :
         /\ t.type \in Types /\ e.rate < Word \div 2
         /\ camera_settings = [trail |-> TrailParameter(t),
                               erc |-> ErcParams(e), biases |-> BiasParams(b)]
         /\ accepted = [trail |-> t, erc |-> e, biases |-> b]
    /\ \E taken \in Attempts :
         /\ device = SetCamera(taken)
         /\ settled = Complete(taken)
    /\ camera = "running"
    /\ recording = {}
    /\ raw_file_path = Nothing
    /\ storing = "idle"
    /\ refused = {}

----------------------------------------------------------------------------
\* A service has stored its settings and writes them.
Configure(group, request) ==
    \E taken \in Taken(group, camera_settings') :
      /\ device' = Written(device, group, camera_settings', taken)
      /\ accepted' = [accepted EXCEPT ![group] = request]
      /\ settled' = IF taken = DOMAIN device[group]
                      THEN settled \cup {group} ELSE settled \ {group}
      /\ refused' = refused \ {group}

\* A service has stored some of its settings and returns.
Refuse(group) ==
    /\ refused' = refused \cup {group}
    /\ UNCHANGED <<device, accepted, settled>>

SetTrailFilterService ==
    \E request \in TrailRequests :
      /\ storing = "idle"
      /\ camera_settings' = [camera_settings EXCEPT
                               !.trail = TrailParams(@, request)]
      /\ IF request.type \notin Types \/ GivesUp("trail", camera_settings')
           THEN Refuse("trail") ELSE Configure("trail", request)
      /\ UNCHANGED <<camera, recordVars>>

SetErcService ==
    \E request \in ErcRequests :
      /\ storing = "idle"
      /\ camera_settings' = [camera_settings EXCEPT !.erc = ErcParams(request)]
      /\ Configure("erc", request)
      /\ UNCHANGED <<camera, recordVars>>

SetBiasesService ==
    \E request \in BiasRequests :
      /\ storing = "idle"
      /\ camera_settings' = [camera_settings EXCEPT
                               !.biases = BiasParams(request)]
      /\ Configure("biases", request)
      /\ UNCHANGED <<camera, recordVars>>

\* recordServiceCallback: the camera starts to write another file, or stops to
\* write any.  A call that fails changes nothing.
RecordService ==
    \E path \in RecordPaths \cup {Nothing} :
      /\ storing = "idle"
      /\ recording' = IF path = Nothing THEN {} ELSE recording \cup {path}
      /\ storing' = path
      /\ UNCHANGED <<settingVars, camera, raw_file_path>>

\* Variant of StoreRecordingPath: a name is stored, but never cleared.
StoreRecordingPath_KeepsOld ==
    /\ storing # "idle"
    /\ raw_file_path' = IF storing = Nothing \/ raw_file_path # Nothing
                          THEN raw_file_path ELSE storing
    /\ storing' = "idle"
    /\ UNCHANGED <<settingVars, camera, recording>>

\* Its second half: recording_file_path_ and configureModuleReplayMetadata.
StoreRecordingPath ==
    /\ storing # "idle"
    /\ raw_file_path' = storing
    /\ storing' = "idle"
    /\ UNCHANGED <<settingVars, camera, recording>>

\* The camera is unplugged or fails, and what it was writing ends.
LoseCamera ==
    /\ camera = "running"
    /\ camera' = "lost"
    /\ recording' = {}
    /\ UNCHANGED <<settingVars, raw_file_path, storing>>

\* reopenCamera: another camera object, configured from the settings.
Reopen ==
    /\ camera = "lost"
    /\ storing = "idle"
    /\ camera' = "running"
    /\ recording' = {}
    /\ \E taken \in Attempts :
         /\ device' = SetCamera(taken)
         /\ settled' = Complete(taken) \ refused
    /\ UNCHANGED <<camera_settings, accepted, refused, raw_file_path, storing>>

Next ==
    \/ SetTrailFilterService
    \/ SetErcService
    \/ SetBiasesService
    \/ RecordService
    \/ StoreRecordingPath
    \/ LoseCamera
    \/ Reopen

Spec == Init /\ [][Next]_vars

----------------------------------------------------------------------------
\* The state is well typed: settings are within their limits, the integers of
\* the device within 32 bits.
SettingsTypeOK ==
    /\ camera_settings.trail.type \in Types
    /\ camera_settings.erc.rate \in 0..EventRateMax
    /\ \A name \in DOMAIN camera_settings.biases :
         camera_settings.biases[name] \in BiasMin..BiasMax
    /\ device.trail.threshold \in 0..(Word - 1)
    /\ device.erc.rate \in 0..(Word - 1)
    /\ camera \in {"running", "lost"}
    /\ recording \subseteq RecordPaths
    /\ raw_file_path \in RecordPaths \cup {Nothing}
    /\ storing \in RecordPaths \cup {Nothing, "idle"}
    /\ settled \subseteq Groups /\ refused \subseteq Groups

\* What a service or a parameter file has asked for, and was not refused, is what
\* the camera does, in its own units and within the limits, also after the camera
\* was lost and reopened: setParams, the conversions of setEventRateControl and
\* setTrailFilter, and setCamera agree.  Excluded are groups with a request that
\* was refused half applied, and a threshold out of range and a rate that is
\* negative as an int, of which README.MD (line 196) says that they are clamped:
\* the code keeps the one, or replaces it by the default, and turns the other to 0.
AcceptedInForce ==
    camera = "running" =>
      /\ "trail" \in settled =>
           /\ InRange(accepted.trail.threshold) =>
                device.trail.threshold = accepted.trail.threshold * PerMs
           /\ device.trail.type = accepted.trail.type
           /\ device.trail.enabled = accepted.trail.enabled
      /\ "erc" \in settled =>
           /\ device.erc.rate <= EventRateMax * PerMev
           /\ accepted.erc.rate < Word \div 2 =>
                device.erc.rate = Clamp(accepted.erc.rate, 0, EventRateMax) * PerMev
           /\ device.erc.enabled = accepted.erc.enabled
      /\ "biases" \in settled =>
           \A name \in DOMAIN device.biases :
             device.biases[name] = Clamp(accepted.biases[name], BiasMin, BiasMax)

\* A client that reads camera_info_srv and sends what it read back to the
\* services changes nothing, except the threshold, which it has to divide: it is
\* set in milliseconds and reported in microseconds (getTrailFilterInfo).
ReportCanBeSentBack ==
    camera = "running" =>
      /\ "trail" \in settled /\ InRange(accepted.trail.threshold) =>
           CameraInfo.trail =
             [accepted.trail EXCEPT !.threshold = @ * PerMs]
      /\ "erc" \in settled =>
           Programmed([camera_settings EXCEPT
                         !.erc = ErcParams(CameraInfo.erc)]).erc = device.erc
      /\ "biases" \in settled =>
           BiasParams(CameraInfo.biases) = device.biases

\* While the camera writes a file, and no request is under way, the messages
\* name that file: recordServiceCallback and the modules agree, whatever
\* recording fails to start or stop, and whatever was recorded before.
RecordingIsNamed ==
    storing = "idle" /\ recording # {} => raw_file_path \in recording

\* And the file they name is being written: the payload of a message can be
\* reconstructed from it (ReplayWindow.msg).
NamedFileIsRecorded ==
    storing = "idle" /\ camera = "running" /\ raw_file_path # Nothing
      => raw_file_path \in recording
=============================================================================
