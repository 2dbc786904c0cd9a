---------------------------- MODULE EventWindow ----------------------------
(* The time-window mechanics every event-derived publisher inherits from     *)
(* WindowedEventModuleBase (event_topic_module.hpp): a stream of timestamped  *)
(* events is cut into windows of `timespan_' microseconds, and each window is *)
(* published once.                                                            *)
(*                                                                            *)
(* An event is its position in `stream', the timestamps handed to the module  *)
(* since its last reset.  `buffer' is the payload an event memory module      *)
(* accumulates, `drawn' the one an image module (histogram, time surface,     *)
(* event_to_image) accumulates: the two differ by keep_fraction only, so one  *)
(* instance carries both.  Region of interest and sampling are not modelled   *)
(* here.                                                                      *)
(*                                                                            *)
(* processEvents and publishUntil run under module_mutex_ and have loops; one *)
(* iteration is one step, and a new delivery waits until the module is Idle.  *)
EXTENDS Integers, Sequences

CONSTANTS
    Timespan,    \* timespan_, in microseconds
    Keep,        \* floor(timespan_ * keep_fraction_)
    Interval,    \* the longest raw slice (getRawPlaybackInterval)
    Origins,     \* timestamp origins a file may have
    MaxTime,     \* bound: timestamps are 0..MaxTime
    MaxEvents    \* bound: events of one session

\* configureTimeWindow rejects timespan <= 0, setupModule a fraction not in 0..1.
ASSUME TimespanAssumption == Timespan \in Nat \ {0} /\ Keep \in 0..Timespan
ASSUME IntervalAssumption == Interval \in Nat \ {0}
ASSUME BoundsAssumption == MaxTime \in Nat /\ MaxEvents \in Nat
ASSUME OriginsAssumption == Origins \subseteq Nat

VARIABLES
    raw,                     \* TRUE: raw file playback, FALSE: live camera
    stream,                  \* timestamps of the events handed in, in order
    current,                 \* position of current_begin
    until,                   \* the time publishUntil was last asked for
    origin,                  \* the timestamp origin of this session
    timestamp_cutoff,        \* timestamp_cutoff_
    window_start_timestamp,  \* window_start_timestamp_
    start_timestamp,         \* start_timestamp_ of an image module
    buffer,                  \* events an event memory holds, not yet published
    drawn,                   \* events an image shows, not yet published
    published                \* the windows published in this session

windowVars == <<stream, current, until, origin, timestamp_cutoff,
                window_start_timestamp, start_timestamp, buffer, drawn,
                published>>
vars == <<raw, windowVars>>

----------------------------------------------------------------------------
Ordered(s) == \A i, j \in 1..Len(s) : i <= j => s[i] <= s[j]

\* Event batches (sorted) with timestamps in lo..hi and at most n events.
Batches(lo, hi, n) ==
    {b \in UNION {[1..k -> lo..hi] : k \in 0..n} : Ordered(b)}

Pending == current..Len(stream)

\* The latest time the module has been told about.
Latest(s, t) == IF s = <<>> \/ s[Len(s)] < t THEN t ELSE s[Len(s)]
Horizon == Latest(stream, until)

\* No loop of processEvents or publishUntil is running.
Idle == current > Len(stream) /\ until < timestamp_cutoff

\* onTimestampCutoffChanged of the image modules.
KeptFrom(cutoff) == cutoff - Keep

\* processEventRange: an image skips what is older than start_timestamp_.
Shown(ids) == {i \in ids : stream[i] >= start_timestamp}

\* setReplayWindowOverride and publishCurrentWindow: the message, its replay
\* window [start, end], and what subscribers find in the payload.
Publish(events, image) ==
    published' = Append(published, [start |-> window_start_timestamp,
                                    end |-> timestamp_cutoff,
                                    events |-> events,
                                    image |-> image])

\* Variant of MoveWindow: onTimestampCutoffChanged is not called.
MoveWindow_KeepsStartTimestamp(s, c) ==
    /\ window_start_timestamp' = s
    /\ timestamp_cutoff' = c
    /\ start_timestamp' = start_timestamp

\* The cutoff is moved to c, the window to [s, c], and start_timestamp_ follows.
MoveWindow(s, c) ==
    /\ window_start_timestamp' = s
    /\ timestamp_cutoff' = c
    /\ start_timestamp' = KeptFrom(c)

\* publish: the next payload starts empty, in a new file.
ClearPayload == buffer' = {} /\ drawn' = {}

\* advanceTimestampCutoff(ts), called with ts past the cutoff: steps of
\* timespan_, at least one, to the first cutoff not before ts.  One member.
AdvancedCutoffs(ts) ==
    {c \in (timestamp_cutoff + Timespan)..(ts + Timespan - 1) :
        c >= ts /\ (c - timestamp_cutoff) % Timespan = 0}

\* Variant of ReopenAt: window_start_timestamp_ stays at the old cutoff.
ReopenAt_AfterGap(c) == MoveWindow(timestamp_cutoff, c)

\* The window opened by advanceTimestampCutoff is the one that ends at c.
ReopenAt(c) == MoveWindow(c - Timespan, c)

\* Variant of UpperBounds: the batch is not split at the cutoff.
UpperBounds_WholeBatch == {Len(stream)}

\* upper_bound: the last pending event that is not past the cutoff.
UpperBounds ==
    {u \in Pending : /\ stream[u] <= timestamp_cutoff
                     /\ \A i \in (u + 1)..Len(stream) :
                          stream[i] > timestamp_cutoff}

\* What a reset forgets, whatever the payload is.
Forget(o) ==
    /\ stream' = <<>>
    /\ current' = 1
    /\ until' = o
    /\ origin' = o
    /\ published' = <<>>

\* Variant of OpenSession: reset leaves the payload.
OpenSession_KeepsPayload(o) ==
    Forget(o) /\ MoveWindow(o, o + Timespan) /\ buffer' = buffer /\ drawn' = drawn

\* Variant of OpenSession: reset without setTimestampOrigin.
OpenSession_WithoutOrigin(o) ==
    Forget(o) /\ MoveWindow(0, Timespan) /\ ClearPayload

\* resetTimeWindow, then setTimestampOrigin in raw mode, and an empty payload.
OpenSession(o) == Forget(o) /\ MoveWindow(o, o + Timespan) /\ ClearPayload

\* A live module is never given an origin: resetTimeWindow leaves it at 0.
SessionOrigins == IF raw THEN Origins ELSE {0}

Init == raw \in BOOLEAN /\ \E o \in SessionOrigins :
    /\ stream = <<>>
    /\ current = 1
    /\ until = o
    /\ origin = o
    /\ window_start_timestamp = o
    /\ timestamp_cutoff = o + Timespan
    /\ start_timestamp = KeptFrom(o + Timespan)
    /\ buffer = {}
    /\ drawn = {}
    /\ published = <<>>

----------------------------------------------------------------------------
\* accumulateEvents from the SDK callback: a non-empty batch, sorted, not
\* older than what was delivered before.
DeliverBatch ==
    /\ ~raw
    /\ Idle
    /\ \E b \in Batches(Horizon, MaxTime, MaxEvents - Len(stream)) :
         /\ b # <<>>
         /\ stream' = stream \o b
    /\ UNCHANGED <<raw, current, until, origin, timestamp_cutoff,
                   window_start_timestamp, start_timestamp, buffer, drawn,
                   published>>

\* One iteration of rawPlaybackLoop: the events of a slice that ends at t
\* (possibly none), then publishModulesUntil(t).
DeliverSlice ==
    /\ raw
    /\ Idle
    /\ \E t \in until..(until + Interval) :
         /\ t <= MaxTime
         /\ \E b \in Batches(until, t, MaxEvents - Len(stream)) :
              stream' = stream \o b
         /\ until' = t
    /\ UNCHANGED <<raw, current, origin, timestamp_cutoff,
                   window_start_timestamp, start_timestamp, buffer, drawn,
                   published>>

\* processEvents, first branch: the next event is past the cutoff.  The open
\* window is published and the windows without events are skipped.
CloseStaleWindow ==
    /\ Pending # {}
    /\ stream[current] > timestamp_cutoff
    /\ Publish(buffer, drawn)
    /\ ClearPayload
    /\ \E c \in AdvancedCutoffs(stream[current]) : ReopenAt(c)
    /\ UNCHANGED <<raw, stream, current, until, origin>>

\* processEvents, second branch: the rest of the batch ends before the cutoff.
FinishBatch ==
    /\ Pending # {}
    /\ stream[current] <= timestamp_cutoff
    /\ stream[Len(stream)] < timestamp_cutoff
    /\ buffer' = buffer \cup Pending
    /\ drawn' = drawn \cup Shown(Pending)
    /\ current' = Len(stream) + 1
    /\ UNCHANGED <<raw, stream, until, origin, timestamp_cutoff,
                   window_start_timestamp, start_timestamp, published>>

\* processEvents, third branch: the events up to the cutoff (upper_bound) fill
\* the window, which is published, and the next window opens at the cutoff.
FillWindow ==
    /\ Pending # {}
    /\ stream[current] <= timestamp_cutoff
    /\ stream[Len(stream)] >= timestamp_cutoff
    /\ \E upper \in UpperBounds :
         /\ Publish(buffer \cup (current..upper),
                    drawn \cup Shown(current..upper))
         /\ current' = upper + 1
    /\ ClearPayload
    /\ MoveWindow(timestamp_cutoff, timestamp_cutoff + Timespan)
    /\ UNCHANGED <<raw, stream, until, origin>>

\* One iteration of publishUntil's loop, after the events of the slice.
PublishWindowUntil ==
    /\ Pending = {}
    /\ until >= timestamp_cutoff
    /\ Publish(buffer, drawn)
    /\ ClearPayload
    /\ MoveWindow(timestamp_cutoff, timestamp_cutoff + Timespan)
    /\ UNCHANGED <<raw, stream, current, until, origin>>

\* reopenCamera (live: reset) and resetModulesForTimestamp (raw: reset, then
\* setTimestampOrigin), when the playback loops or the camera is reopened.
Restart ==
    /\ Idle
    /\ \E o \in SessionOrigins : OpenSession(o)
    /\ UNCHANGED raw

Next == \/ DeliverBatch
        \/ DeliverSlice
        \/ CloseStaleWindow
        \/ FinishBatch
        \/ FillWindow
        \/ PublishWindowUntil
        \/ Restart

Spec == Init /\ [][Next]_vars

----------------------------------------------------------------------------
Window == [start : Nat, end : Nat, events : SUBSET Nat, image : SUBSET Nat]

\* The state is well typed and the cursor stays within one past the stream.
TypeOK ==
    /\ raw \in BOOLEAN
    /\ stream \in Seq(Nat)
    /\ current \in 1..(Len(stream) + 1)
    /\ {until, origin, timestamp_cutoff, window_start_timestamp,
        start_timestamp} \subseteq Nat
    /\ buffer \subseteq 1..Len(stream)
    /\ drawn \subseteq buffer
    /\ published \in Seq(Window)

\* A published window spans exactly one timespan, windows never overlap and
\* never go back, and the open one starts after all of them: what the replay
\* window of the messages promises (processEvents, publishUntil).
WindowsInOrder ==
    /\ \A i \in 1..Len(published) :
         /\ published[i].end = published[i].start + Timespan
         /\ published[i].end <= window_start_timestamp
    /\ \A i, j \in 1..Len(published) :
         i < j => published[i].end <= published[j].start

\* Playing a file in slices no longer than the timespan leaves no gap: the
\* windows tile the time line from the origin on, quiet stretches included.
\* (Live, advanceTimestampCutoff skips the windows without events.)
RawWindowsContiguous ==
    raw /\ Interval <= Timespan =>
      /\ \A i \in 1..Len(published) :
           published[i].start = IF i = 1 THEN origin ELSE published[i - 1].end
      /\ window_start_timestamp =
           IF published = <<>> THEN origin ELSE published[Len(published)].end

\* processEvents splits a batch over windows without losing an event or using
\* it twice: each one processed is in one published payload or in the open one.
EachEventOnce ==
    /\ buffer \subseteq 1..(current - 1)
    /\ \A k \in 1..(current - 1) :
         k \in buffer \/ \E i \in 1..Len(published) : k \in published[i].events
    /\ \A i \in 1..Len(published) :
         /\ published[i].events \subseteq 1..(current - 1)
         /\ published[i].events \cap buffer = {}
    /\ \A i, j \in 1..Len(published) :
         i # j => published[i].events \cap published[j].events = {}

\* What is written in the message about its window is true of the payload: it
\* holds no event from outside [start, end], and every event of the session
\* from strictly inside, even one that is still to be processed.  (An event at
\* a boundary may be in either of two windows, see the README.)
ReplayWindowFaithful ==
    \A i \in 1..Len(published) :
      /\ \A k \in published[i].events :
           stream[k] \in published[i].start..published[i].end
      /\ \A k \in 1..Len(stream) :
           stream[k] \in (published[i].start + 1)..(published[i].end - 1)
             => k \in published[i].events

\* An image shows the events of the last keep_fraction of its own window, no
\* more and no less: start_timestamp_ follows the cutoff at every place that
\* moves it.
KeepFractionHonoured ==
    \A i \in 1..Len(published) :
      published[i].image = {k \in published[i].events :
                              stream[k] >= KeptFrom(published[i].end)}

----------------------------------------------------------------------------
\* A window without its image: what the split of the stream is about.
Payload(w) == [start |-> w.start, end |-> w.end, events |-> w.events]

WS == INSTANCE WindowStream
        WITH taken <- current - 1,
             open <- buffer,
             windows <- [i \in 1..Len(published) |-> Payload(published[i])]

\* The module implements WindowStream: however batches, slices and quiet
\* stretches fall, and whichever branch of processEvents or publishUntil closes
\* a window, the stream is split over windows of the grid, each event into one,
\* and no window is closed before its events have come.
SplitsStream == WS!StreamSpec

============================================================================
