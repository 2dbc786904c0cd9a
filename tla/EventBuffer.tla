---------------------------- MODULE EventBuffer ----------------------------
(* The payload of event memory (EventMemoryModule in event_memory.cpp): which *)
(* of the events handed in are written, into how much memory, and what the    *)
(* message says about it.  Events outside the region of interest are skipped, *)
(* the others are sampled in time.  A timer adapts the sampling rate to the   *)
(* event counts of the last windows, so that a target rate is met.            *)
(*                                                                            *)
(* processEventRange, publishCurrentWindow, setupMessage and adjust exclude   *)
(* each other (shared_memory_mutex_) and are one step each.  Where a window   *)
(* ends is EventWindow's business: here it may end after any batch.  Doubles  *)
(* are exact.                                                                 *)
EXTENDS Integers, Sequences, SequencesExt

CONSTANTS
    RateMin,        \* temporal_sample_rate_min_
    MaxRate,        \* numeric_limits<int>::max()
    Target,         \* target_num_events_per_sec_, 0 for none
    TargetWindows,  \* target_window_size: windows per second
    Chunk,          \* DATA_SIZE_PER_UINT * timespan_
    Faults,         \* which calls may fail: see below
    MaxTime,        \* bound: timestamps are 0..MaxTime
    MaxEvents,      \* bound: events of one session
    MaxWindows      \* bound: windows of one session

ASSUME RatesAssumption ==
    RateMin \in Nat \ {0} /\ MaxRate \in Nat /\ RateMin <= MaxRate
ASSUME TargetAssumption == Target \in Nat /\ TargetWindows \in Nat \ {0}
ASSUME ChunkAssumption == Chunk \in Nat \ {0}
\* skip and stop: fstat or munmap, ftruncate or mmap of ensureEventCapacity,
\* resize: ftruncate of setupMessage, create: createSharedMemory.
ASSUME FaultsAssumption == Faults \subseteq {"skip", "stop", "resize", "create"}
ASSUME BoundsAssumption == {MaxTime, MaxEvents, MaxWindows} \subseteq Nat

VARIABLES
    initialized,               \* initialized_
    accumulation_start,        \* accumulation_start_timestamp_, 0 for unset
    temporal_sample_rate,      \* temporal_sample_rate_
    captured,                  \* replay_window_state_captured_
    replay_start,              \* replay_window_accumulation_start_timestamp_
    replay_rate,               \* replay_window_temporal_sample_rate_
    events,                    \* timestamps in events_, event_count_ of them
    reserved_data_multiplier,  \* reserved_data_multiplier_
    interval_event_count,      \* interval_event_count_
    event_count_history,       \* event_count_history_, newest first
    window,                    \* the events handed in since the last publish
    counts,                    \* how many each published window had
    latest,                    \* the time of the last event handed in
    disturbed,                 \* see PayloadReplayableUnlessAdjusted
    message                    \* the last message and the window it is about

sampling == <<accumulation_start, temporal_sample_rate>>
replay == <<captured, replay_start, replay_rate>>
history == <<interval_event_count, event_count_history>>
observed == <<window, counts, latest, disturbed, message>>
vars == <<initialized, sampling, replay, events, reserved_data_multiplier,
          history, observed>>

----------------------------------------------------------------------------
\* An event: its timestamp, and whether it is in the region of interest.
Event == [t : Nat, inside : BOOLEAN]

Capacity(size) == Chunk * size

\* Variant of Full: one event more than there is room for.
Full_OneMore(m) == Len(m.events) > Capacity(m.size)

Full(m) == Len(m.events) >= Capacity(m.size)

\* Variant of NextSample: the clock is restarted at the event.
NextSample_AtEvent(c, t, rate) == t

\* The sampling clock moves by whole rates, past what would be before t.
NextSample(c, t, rate) == c + ((t - c + rate - 1) \div rate) * rate

\* processEventRange, for one event: m is the state of the module.  The event is
\* written when the clock says so.  A full buffer has to grow first, and
\* ensureEventCapacity may leave it as it is, or stop the module.
Written(m, e, rate, growth) ==
    LET clock == IF m.clock = 0 THEN e.t ELSE m.clock
    IN IF ~e.inside \/ ~m.ok THEN m
       ELSE IF rate > 1 /\ e.t > clock
            THEN [m EXCEPT !.clock = NextSample(clock, e.t, rate)]
       ELSE IF rate > 1 /\ e.t < clock
            THEN m
       ELSE IF ~Full(m)
            THEN [m EXCEPT !.clock = clock, !.events = Append(@, e.t)]
       ELSE CASE growth = "ok" -> [m EXCEPT !.clock = clock,
                                            !.size = @ + 1,
                                            !.events = Append(@, e.t)]
              [] growth = "skip" -> [m EXCEPT !.clock = clock, !.lost = TRUE]
              [] growth = "stop" -> [m EXCEPT !.clock = clock,
                                              !.size = @ + 1,
                                              !.ok = FALSE]

\* The module after the events of batch.
Processed(m, batch, rate, growth) ==
    FoldLeft(LAMBDA n, e : Written(n, e, rate, growth), m, batch)

\* What a subscriber rebuilds from the events of a window and the message, with
\* the same rule and memory enough.
Rebuilt(batch, start, rate) ==
    Processed([clock |-> start, events |-> <<>>, size |-> Len(batch) + 1,
               ok |-> TRUE, lost |-> FALSE], batch, rate, "ok").events

\* Variant of CaptureReplayWindowState: the state at the last batch is taken.
CaptureReplayWindowState_Always ==
    /\ captured' = TRUE
    /\ replay_start' = accumulation_start
    /\ replay_rate' = temporal_sample_rate

\* captureReplayWindowState: the first call of a window remembers the state.
CaptureReplayWindowState ==
    /\ captured' = TRUE
    /\ replay_start' = IF captured THEN replay_start ELSE accumulation_start
    /\ replay_rate' = IF captured THEN replay_rate ELSE temporal_sample_rate

\* Variant of GroupSums: the middle third overlaps the recent one.
GroupSums_Overlapping(h) ==
    LET n == Len(h)
        g == n \div 3
    IN [recent |-> SumFunctionOnSet(h, 1..g),
        middle |-> SumFunctionOnSet(h, g..(2 * g)),
        oldest |-> SumFunctionOnSet(h, (2 * g + 1)..n)]

\* The sums of the recent third, the middle third and the rest of a history.
GroupSums(h) ==
    LET n == Len(h)
        g == n \div 3
    IN [recent |-> SumFunctionOnSet(h, 1..g),
        middle |-> SumFunctionOnSet(h, (g + 1)..(2 * g)),
        oldest |-> SumFunctionOnSet(h, (2 * g + 1)..n)]

\* weighted_event_count, in tenths.
WeightedSum(h) ==
    LET s == GroupSums(h) IN 15 * s.recent + 12 * s.middle + 3 * s.oldest

\* The rates adjust can set: RateMin at least, and an int.
Clamped(scale) == IF scale > MaxRate THEN MaxRate
                  ELSE IF scale > RateMin THEN scale ELSE RateMin

\* adjust: the average count over the count aimed at, as an int.
AdjustedRate(h) ==
    LET scale == (WeightedSum(h) * TargetWindows) \div (10 * Len(h) * Target)
    IN Clamped(scale)

Nothing == [start |-> 0, rate |-> RateMin, events |-> <<>>, window |-> <<>>,
            disturbed |-> FALSE]

Init ==
    /\ initialized = TRUE
    /\ accumulation_start = 0
    /\ temporal_sample_rate = RateMin
    /\ captured = FALSE
    /\ replay_start = 0
    /\ replay_rate = RateMin
    /\ events = <<>>
    /\ reserved_data_multiplier = 1
    /\ interval_event_count = 0
    /\ event_count_history = <<>>
    /\ window = <<>>
    /\ counts = <<>>
    /\ latest = 0
    /\ disturbed = FALSE
    /\ message = Nothing

----------------------------------------------------------------------------
\* How many events have been handed in since the last reset.
Handed == Len(window) + SumFunction(counts)

\* Sorted batches, of at most n events that are not before t.
Batches(t, n) ==
    {b \in UNION {[1..k -> [t : t..MaxTime, inside : BOOLEAN]] : k \in 1..n} :
       \A i, j \in DOMAIN b : i < j => b[i].t <= b[j].t}

\* processEventRange of a batch.  A module that has stopped still counts it.
ProcessEventRange ==
    /\ \E batch \in Batches(latest, MaxEvents - Handed),
          growth \in {"ok"} \cup (Faults \cap {"skip", "stop"}) :
         LET m == Processed([clock |-> accumulation_start, events |-> events,
                             size |-> reserved_data_multiplier,
                             ok |-> initialized, lost |-> FALSE],
                            batch, temporal_sample_rate, growth)
         IN /\ growth # "ok" => m.lost \/ (initialized /\ ~m.ok)
            /\ accumulation_start' = m.clock
            /\ events' = m.events
            /\ reserved_data_multiplier' = m.size
            /\ initialized' = m.ok
            /\ interval_event_count' = interval_event_count + Len(batch)
            /\ window' = window \o batch
            /\ latest' = batch[Len(batch)].t
            /\ disturbed' = (disturbed \/ m.lost)
    /\ CaptureReplayWindowState
    /\ UNCHANGED <<temporal_sample_rate, event_count_history, counts, message>>

\* Variant of RecordCount: the count runs on.
RecordCount_RunsOn ==
    /\ interval_event_count' = interval_event_count
    /\ event_count_history' =
         IF Target = 0 THEN event_count_history
                       ELSE <<interval_event_count>> \o event_count_history

\* publishCurrentWindow: the count of the window goes to the history.
RecordCount ==
    /\ interval_event_count' = 0
    /\ event_count_history' =
         IF Target = 0 THEN event_count_history
                       ELSE <<interval_event_count>> \o event_count_history

\* publish: the message says what was captured, and the payload is dropped.
Announce ==
    /\ message' = [start |-> replay_start', rate |-> replay_rate',
                   events |-> events, window |-> window,
                   disturbed |-> disturbed]
    /\ events' = <<>>
    /\ window' = <<>>
    /\ counts' = <<Len(window)>> \o counts

\* publishCurrentWindow and publishTriggerWindow: the file is handed over and a
\* new one is set up, if it can be created.
PublishWindow ==
    /\ initialized
    /\ Len(counts) < MaxWindows
    /\ RecordCount
    /\ replay_start' = IF captured THEN replay_start ELSE accumulation_start
    /\ replay_rate' = IF captured THEN replay_rate ELSE temporal_sample_rate
    /\ Announce
    /\ captured' = FALSE
    /\ reserved_data_multiplier' = 1
    /\ initialized' \in {TRUE} \cup {f # "create" : f \in Faults}
    /\ disturbed' = FALSE
    /\ UNCHANGED <<sampling, latest>>

\* The same when ftruncate fails in setupMessage: the message goes out, but the
\* buffer keeps its file and size, and what was captured stays captured.
PublishWithoutResize ==
    /\ initialized
    /\ "resize" \in Faults
    /\ Len(counts) < MaxWindows
    /\ RecordCount
    /\ CaptureReplayWindowState
    /\ Announce
    /\ disturbed' = TRUE
    /\ UNCHANGED <<initialized, sampling, reserved_data_multiplier, latest>>

\* adjust, with enough history: the rate follows the load.
Adjust ==
    /\ initialized
    /\ Target # 0
    /\ Len(event_count_history) >= TargetWindows
    /\ temporal_sample_rate' = AdjustedRate(event_count_history)
    /\ event_count_history' = SubSeq(event_count_history, 1, TargetWindows)
    /\ disturbed' = \/ disturbed
                    \/ captured /\ temporal_sample_rate' # temporal_sample_rate
    /\ UNCHANGED <<initialized, accumulation_start, replay, events,
                   reserved_data_multiplier, interval_event_count, window,
                   counts, latest, message>>

\* reset: another camera, or the raw file from its start.
Reset ==
    /\ accumulation_start' = 0
    /\ temporal_sample_rate' = RateMin
    /\ captured' = FALSE
    /\ replay_start' = 0
    /\ replay_rate' = RateMin
    /\ events' = <<>>
    /\ interval_event_count' = 0
    /\ event_count_history' = <<>>
    /\ window' = <<>>
    /\ counts' = <<>>
    /\ latest' = 0
    /\ disturbed' = FALSE
    /\ message' = Nothing
    /\ UNCHANGED <<initialized, reserved_data_multiplier>>

\* publishCurrentWindow of a module that stopped within its last window.
DropCount ==
    /\ ~initialized
    /\ interval_event_count' = 0
    /\ UNCHANGED <<initialized, sampling, replay, events,
                   reserved_data_multiplier, event_count_history, observed>>

Next == \/ ProcessEventRange
        \/ PublishWindow
        \/ PublishWithoutResize
        \/ DropCount
        \/ Adjust
        \/ Reset

Spec == Init /\ [][Next]_vars

----------------------------------------------------------------------------
\* The state is well typed and no event is written behind the end of the file.
BufferTypeOK ==
    /\ {initialized, captured, disturbed} \subseteq BOOLEAN
    /\ {accumulation_start, replay_start, latest, interval_event_count}
         \subseteq Nat
    /\ {temporal_sample_rate, replay_rate} \subseteq RateMin..MaxRate
    /\ events \in Seq(Nat)
    /\ initialized => Len(events) <= Capacity(reserved_data_multiplier)
    /\ reserved_data_multiplier \in Nat \ {0}
    /\ event_count_history \in Seq(Nat)
    /\ counts \in Seq(Nat)
    /\ window \in Seq(Event)

\* The message of a window carries what is required to reconstruct its payload
\* from the raw file (ReplayWindow.msg): the sampling rule, started from the
\* announced clock and rate over the events of the window, gives the payload.
PayloadReplayable ==
    message.events = Rebuilt(message.window, message.start, message.rate)

\* The same, of the windows in which the rate was not adjusted after the first
\* event, no event was lost for want of memory, and setupMessage has run to its
\* end since the window before.
PayloadReplayableUnlessAdjusted == ~message.disturbed => PayloadReplayable

\* The events of a payload lie on one grid of the announced sample rate, however
\* they came in batches and however long the gaps between them: the clock of
\* processEventRange only moves by whole rates.  An event at 0 is left out: the
\* clock is at 0 before it and after it, which the code takes for not set.
SampledOnGrid ==
    (~message.disturbed /\ \A i \in DOMAIN message.window : message.window[i].t # 0)
      =>
      \A i, j \in DOMAIN message.events :
        (message.events[j] - message.events[i]) % message.rate = 0

\* What adjust averages over are the event counts of the last windows, each
\* event of the session counted once, in the window it came in, whether or not
\* it was written.
HistoryOfLastWindows ==
    /\ Len(event_count_history) <= Len(counts)
    /\ \A i \in DOMAIN event_count_history : event_count_history[i] = counts[i]
    /\ initialized => interval_event_count = Len(window)

\* adjust never samples more sparsely than the busiest window it remembers asks
\* for, and under a constant load it meets the target (when the history splits
\* into three equal groups: the remainder goes to the one with the least weight).
AdjustMeetsTarget ==
    [][Adjust =>
         LET h == event_count_history
             Needed(c) == (c * TargetWindows) \div Target
         IN /\ \/ temporal_sample_rate' = RateMin
               \/ \E i \in DOMAIN h : temporal_sample_rate' <= Needed(h[i])
            /\ (Len(h) % 3 = 0 /\ \A i \in DOMAIN h : h[i] = h[1])
                 => temporal_sample_rate' = Clamped(Needed(h[1]))]_vars

============================================================================
