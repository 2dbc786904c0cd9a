--------------------------- MODULE TriggerWindow ---------------------------
(* Trigger publish mode (publish_strategy "trigger").  Every matching         *)
(* TriggerIn publishes the window of each module: handleTriggerIn in          *)
(* fluxeem_ros2_publisher_core.cpp.  Event memory also keeps cutting windows  *)
(* by its timespan, as in EventWindow, whose variables and loops it keeps.    *)
(* The image modules only accumulate between triggers: their window and their *)
(* start_timestamp_ both begin at trigger_window_start_timestamp_, and the    *)
(* variables drawn and start_timestamp of EventWindow stand for no module.    *)
(*                                                                            *)
(* Events and triggers arrive together, in a slice of the raw file or in a    *)
(* buffer the SDK has decoded.  processRawTriggerModeEvents merges the two in *)
(* raw mode.  In live mode they come through two callbacks, in either order.  *)
EXTENDS EventWindow

CONSTANTS
    SliceEnds,   \* the times at which a slice or a decoded buffer may end
    MaxTriggers  \* bound: matching triggers of one session

ASSUME SliceEndsAssumption == SliceEnds \subseteq 0..MaxTime
ASSUME TriggersAssumption == MaxTriggers \in Nat

VARIABLES
    slice,                 \* events of the slice still to be processed
    triggers,              \* its triggers of the accepted polarity, likewise
    slice_end,             \* slice.t
    trigger_window_start,  \* trigger_window_start_timestamp_
    image_buffer,          \* events an image module has drawn since a trigger
    images                 \* the windows an image module published

sliceVars == <<slice, triggers, slice_end>>
imageVars == <<trigger_window_start, image_buffer, images>>
triggerVars == <<vars, sliceVars, imageVars>>

----------------------------------------------------------------------------
\* The next slice is the one that ends first after this one.
NextEnds ==
    {t \in SliceEnds : /\ t > slice_end
                       /\ \A u \in SliceEnds : u > slice_end => t <= u}

\* Variant of Preceding: the triggers are handled before the events.
Preceding_None(s, t) == {0}

\* upper_bound(trigger.timestamp): how many events of s are not after t.
Preceding(s, t) ==
    {n \in 0..Len(s) : /\ \A i \in 1..n : s[i] <= t
                       /\ \A i \in (n + 1)..Len(s) : s[i] > t}

\* accumulateEvents: the batch is handed to event memory, whose loop follows,
\* and drawn by the image modules but for what is older than their window.
Accumulate(b) ==
    /\ stream' = stream \o b
    /\ image_buffer' = image_buffer \cup
         {Len(stream) + i : i \in {j \in 1..Len(b) :
                                     b[j] >= trigger_window_start}}
    /\ UNCHANGED <<current, until, origin, timestamp_cutoff,
                   window_start_timestamp, start_timestamp, buffer, drawn,
                   published, trigger_window_start, images>>

\* The partial window of event memory, which ends at the trigger.
AnnounceMemory(trigger) ==
    /\ published' = Append(published, [start |-> window_start_timestamp,
                                       end |-> trigger,
                                       events |-> buffer,
                                       image |-> drawn])
    /\ ClearPayload
    /\ UNCHANGED <<stream, current, until, origin, timestamp_cutoff,
                   start_timestamp>>

\* Variant of PublishMemoryAt: the window is not moved to the trigger.
PublishMemoryAt_KeepsStart(trigger) ==
    AnnounceMemory(trigger) /\ UNCHANGED window_start_timestamp

\* EventMemoryModule::publishTriggerWindow: the partial window is published and
\* the next one starts at the trigger.  The cutoff stays where it is.
PublishMemoryAt(trigger) ==
    AnnounceMemory(trigger) /\ window_start_timestamp' = trigger

\* Variant of PublishImagesAt: the image is not cleared.
PublishImagesAt_KeepsImage(trigger) ==
    /\ images' = Append(images, [start |-> trigger_window_start,
                                 end |-> trigger,
                                 events |-> image_buffer])
    /\ image_buffer' = image_buffer
    /\ trigger_window_start' = trigger

\* publishTriggerWindow of the image modules, with the update of
\* trigger_window_start_timestamp_ that follows.
PublishImagesAt(trigger) ==
    /\ images' = Append(images, [start |-> trigger_window_start,
                                 end |-> trigger,
                                 events |-> image_buffer])
    /\ image_buffer' = {}
    /\ trigger_window_start' = trigger

TriggerInit ==
    /\ Init
    /\ slice = <<>>
    /\ triggers = <<>>
    /\ slice_end = origin
    /\ trigger_window_start = origin
    /\ image_buffer = {}
    /\ images = <<>>

----------------------------------------------------------------------------
\* A new slice or buffer: sorted events, and triggers that convertTriggerEvents
\* sorts, between the end of the last one and its own.
NextSlice ==
    /\ Idle
    /\ slice = <<>> /\ triggers = <<>>
    /\ raw => until = slice_end
    /\ \E t \in NextEnds :
         /\ slice_end' = t
         /\ slice' \in Batches(slice_end, t, MaxEvents - Len(stream))
         /\ triggers' \in Batches(slice_end, t, MaxTriggers - Len(images))
    /\ UNCHANGED <<vars, imageVars>>

\* processRawTriggerModeEvents: the events up to the next trigger, or the rest.
\* The batch is cut at triggers of the other polarity too, which may be anywhere,
\* but never between events of one timestamp.
RawEvents ==
    /\ raw
    /\ Idle
    /\ \E n \in 1..Len(slice) :
         /\ n < Len(slice) => slice[n] < slice[n + 1]
         /\ triggers # <<>> =>
              \E last \in Preceding(slice, triggers[1]) : n <= last
         /\ Accumulate(SubSeq(slice, 1, n))
         /\ slice' = SubSeq(slice, n + 1, Len(slice))
    /\ UNCHANGED <<raw, triggers, slice_end>>

\* handleTriggerIn, in raw mode after the events that precede it.
RawTrigger ==
    /\ raw
    /\ Idle
    /\ triggers # <<>>
    /\ 0 \in Preceding(slice, triggers[1])
    /\ PublishMemoryAt(triggers[1])
    /\ PublishImagesAt(triggers[1])
    /\ triggers' = Tail(triggers)
    /\ UNCHANGED <<raw, slice, slice_end>>

\* publishEventMemoryUntil(window_end), at the end of a slice; the loop itself
\* is PublishWindowUntil.
PublishEventMemoryUntil ==
    /\ raw
    /\ Idle
    /\ slice = <<>> /\ triggers = <<>>
    /\ until # slice_end
    /\ until' = slice_end
    /\ UNCHANGED <<raw, stream, current, origin, timestamp_cutoff,
                   window_start_timestamp, start_timestamp, buffer, drawn,
                   published, sliceVars, imageVars>>

\* The event callback of a live camera, with all the events of the buffer.
LiveEvents ==
    /\ ~raw
    /\ Idle
    /\ slice # <<>>
    /\ Accumulate(slice)
    /\ slice' = <<>>
    /\ UNCHANGED <<raw, triggers, slice_end>>

\* The trigger callback of a live camera, before or after its events.
LiveTrigger ==
    /\ ~raw
    /\ Idle
    /\ triggers # <<>>
    /\ PublishMemoryAt(triggers[1])
    /\ PublishImagesAt(triggers[1])
    /\ triggers' = Tail(triggers)
    /\ UNCHANGED <<raw, slice, slice_end>>

\* The loops of EventWindow, for event memory.
MemoryLoop ==
    /\ CloseStaleWindow \/ FinishBatch \/ FillWindow \/ PublishWindowUntil
    /\ UNCHANGED <<sliceVars, imageVars>>

\* resetModulesForTimestamp when the file is played again, reopenCamera (where
\* a buffer may be lost half way) with initializeTriggerWindowStart.
TriggerRestart ==
    /\ Idle
    /\ raw => slice = <<>> /\ triggers = <<>> /\ until = slice_end
    /\ \E o \in SessionOrigins :
         /\ OpenSession(o)
         /\ slice_end' = o
         /\ trigger_window_start' = o
    /\ slice' = <<>>
    /\ triggers' = <<>>
    /\ image_buffer' = {}
    /\ images' = <<>>
    /\ UNCHANGED raw

TriggerNext == \/ NextSlice
               \/ RawEvents
               \/ RawTrigger
               \/ PublishEventMemoryUntil
               \/ LiveEvents
               \/ LiveTrigger
               \/ MemoryLoop
               \/ TriggerRestart

TriggerSpec == TriggerInit /\ [][TriggerNext]_triggerVars

----------------------------------------------------------------------------
\* The state is well typed.
TriggerTypeOK ==
    /\ TypeOK
    /\ {slice, triggers} \subseteq Seq(Nat)
    /\ {slice_end, trigger_window_start} \subseteq Nat
    /\ image_buffer \subseteq 1..Len(stream)
    /\ \A i \in 1..Len(images) :
         /\ {images[i].start, images[i].end} \subseteq Nat
         /\ images[i].events \subseteq 1..Len(stream)

\* Image windows run from one matching trigger to the next, without a gap, and
\* hold no event older than their start nor one another window holds, in
\* whichever order the callbacks bring events and triggers.
ImagesBetweenTriggers ==
    /\ \A i \in 1..Len(images) :
         /\ images[i].start = IF i = 1 THEN origin ELSE images[i - 1].end
         /\ images[i].start <= images[i].end
         /\ \A k \in images[i].events : stream[k] >= images[i].start
    /\ \A i, j \in 1..Len(images) :
         i # j => images[i].events \cap images[j].events = {}

\* An image published at a trigger shows the complete interval since the trigger
\* before (README.MD): no event from outside it, and every event from inside,
\* even one still to be handed in.  An event at a boundary may be in either
\* window.  Of raw playback only: the callbacks of a live camera are not merged.
ImagesComplete ==
    raw =>
      \A i \in 1..Len(images) :
        /\ \A k \in images[i].events :
             stream[k] \in images[i].start..images[i].end
        /\ \A k \in 1..Len(stream) :
             stream[k] \in (images[i].start + 1)..(images[i].end - 1)
               => k \in images[i].events

\* The windows of event memory in raw playback, cut at triggers as well as at
\* its cutoffs, still hold every event from strictly inside and no other.
MemoryWindowsFaithful == raw => ReplayWindowFaithful

\* In raw playback event memory publishes per timespan and, at a trigger, the
\* partial window so far: its windows still follow one another, and none ends
\* before it starts, lasts longer than a timespan or reaches into the next.
MemoryWindowsInOrder ==
    raw =>
      /\ \A i \in 1..Len(published) :
           /\ published[i].start <= published[i].end
           /\ published[i].end <= published[i].start + Timespan
           /\ published[i].end <= window_start_timestamp
      /\ \A i, j \in 1..Len(published) :
           i < j => published[i].end <= published[j].start

============================================================================
