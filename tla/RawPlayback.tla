---------------------------- MODULE RawPlayback ----------------------------
(* Replaying a raw file (openRawFile, rawPlaybackLoop and stopRawPlayback in  *)
(* fluxeem_ros2_publisher_core.cpp): the playback thread hands the file slice *)
(* by slice to the modules, each slice when its time has come, and the signal *)
(* thread stops it before it releases the modules (cleanShutdown).            *)
(*                                                                            *)
(* What a slice does to the modules is EventWindow's and TriggerWindow's      *)
(* business: here it is handed in and the windows are closed up to its end.   *)
(* stopRawPlayback notifies without raw_playback_mutex_, so that a            *)
(* notification may come between the waiter's test and its sleep.             *)
EXTENDS Integers, FiniteSetsExt

CONSTANTS
    Interval,  \* getRawPlaybackInterval(), in microseconds of the file
    Rate,      \* raw_playback_rate_: microseconds of the file per tick
    MaxTime    \* bound: timestamps in the file are 0..MaxTime

ASSUME IntervalAssumption == Interval \in Nat \ {0}
ASSUME RateAssumption == Rate \in Nat \ {0}
ASSUME BoundAssumption == MaxTime \in Nat

VARIABLES
    file,                  \* the file, and what openRawFile found out about it
    raw_playback_loop,     \* raw_playback_loop_
    raw_playback_running,  \* raw_playback_running_
    write_enabled,         \* write_enabled_
    shutdown_requested,    \* shutdown_requested_
    context_ok,            \* rclcpp::ok()
    playback,              \* where the playback thread is
    slice,                 \* the number of the slice it is at
    playback_start,        \* playback_start, -1 while it is not known
    elapsed,               \* the time since wall_start, in ticks
    module_origin,         \* the origin the modules were reset to, -1 for none
    raw_file_start,        \* raw_file_start_timestamp_ of the modules
    handed,                \* the slices of this pass that were handed in
    closed_until,          \* what the windows were last closed up to, or -1
    failed,                \* reading the file has failed
    modules,               \* the modules have not been released
    signal                 \* where the signal thread is

thread == <<playback, slice, playback_start>>
effects == <<module_origin, raw_file_start, handed, closed_until>>
flags == <<raw_playback_running, write_enabled, shutdown_requested, context_ok>>
input == <<file, raw_playback_loop>>
vars == <<input, flags, thread, elapsed, effects, failed, modules, signal>>

----------------------------------------------------------------------------
\* A file: the timestamps of its events and triggers, and whether an event at
\* the end of a slice belongs to that slice or to the next.  known says if
\* there are offline controls, which give a range that spans the timestamps.
Files ==
    {f \in [times : (SUBSET (0..MaxTime)) \ {{}}, closed : BOOLEAN,
            known : BOOLEAN, start : 0..MaxTime, end : 0..MaxTime] :
       IF f.known THEN f.start <= Min(f.times) /\ Max(f.times) <= f.end
                  ELSE f.start = 0 /\ f.end = 0}

\* The slice of time t.
SliceOf(t) ==
    IF file.closed THEN Max({1, (t + Interval - 1) \div Interval})
                   ELSE t \div Interval + 1

\* What the slicer yields: every slice up to the one of the last event.
LastSlice == SliceOf(Max(file.times))
SliceEnd(k) == k * Interval
TimesIn(k) == {t \in file.times : SliceOf(t) = k}

\* getSliceTimestampOrigin: the first timestamp of an event or a trigger.
SliceOrigin(k) == Min(TimesIn(k))

\* window_end: not before the playback starts.
WindowEnd(k) == Max({SliceEnd(k), playback_start})

\* release_time of the slice, in ticks since wall_start.
ReleaseTime(k) == (WindowEnd(k) - playback_start) \div Rate

MaxElapsed == SliceEnd(MaxTime \div Interval + 1) \div Rate + 1

\* setParams has configured the modules, and startRawPlayback the thread.
Init ==
    /\ file \in Files
    /\ raw_playback_loop \in BOOLEAN
    /\ raw_playback_running = TRUE
    /\ write_enabled = TRUE
    /\ shutdown_requested = FALSE
    /\ context_ok = TRUE
    /\ playback = "begin"
    /\ slice = 0
    /\ playback_start = -1
    /\ elapsed = 0
    /\ module_origin = IF file.known THEN file.start ELSE -1
    /\ raw_file_start = module_origin
    /\ handed = {}
    /\ closed_until = -1
    /\ failed = FALSE
    /\ modules = TRUE
    /\ signal = "waiting"

----------------------------------------------------------------------------
(* The playback thread.                                                       *)

\* Variant of BeginPass: the modules go on with what the last pass left.
BeginPass_WithoutReset ==
    /\ playback = "begin"
    /\ playback_start' = IF file.known THEN file.start ELSE -1
    /\ UNCHANGED <<module_origin, handed, closed_until>>
    /\ playback' = "next"
    /\ slice' = 0
    /\ elapsed' = 0
    /\ UNCHANGED <<input, flags, raw_file_start, failed, modules, signal>>

\* A pass begins.  The modules are reset, unless the start has to be found.
BeginPass ==
    /\ playback = "begin"
    /\ playback_start' = IF file.known THEN file.start ELSE -1
    /\ IF file.known
       THEN /\ module_origin' = file.start
            /\ closed_until' = -1
       ELSE UNCHANGED <<module_origin, closed_until>>
    /\ handed' = {}
    /\ playback' = "next"
    /\ slice' = 0
    /\ elapsed' = 0
    /\ UNCHANGED <<input, flags, raw_file_start, failed, modules, signal>>

\* The iterator of the slicer has no more slices.
EndOfFile ==
    /\ playback = "next"
    /\ slice = LastSlice
    /\ playback' = "passed"
    /\ UNCHANGED <<input, flags, slice, playback_start, elapsed, effects,
                   failed, modules, signal>>

\* from_file or the iterator throws.
ReadFails ==
    /\ playback = "next"
    /\ playback' = "ended"
    /\ raw_playback_running' = FALSE
    /\ failed' = TRUE
    /\ UNCHANGED <<input, write_enabled, shutdown_requested, context_ok, slice,
                   playback_start, elapsed, effects, modules, signal>>

\* The next slice.  It is not looked at when the playback is to stop, and it
\* is passed over when the start is not known and it has no timestamp.
NextSlice ==
    /\ playback = "next"
    /\ slice < LastSlice
    /\ slice' = slice + 1
    /\ IF ~raw_playback_running \/ ~context_ok
       THEN /\ playback' = "passed"
            /\ UNCHANGED <<playback_start, elapsed, effects>>
       ELSE IF playback_start # -1
       THEN /\ playback' = "test"
            /\ UNCHANGED <<playback_start, elapsed, effects>>
       ELSE IF TimesIn(slice') = {}
       THEN UNCHANGED <<playback, playback_start, elapsed, effects>>
       ELSE /\ playback_start' = SliceOrigin(slice')
            /\ module_origin' = playback_start'
            /\ raw_file_start' = playback_start'
            /\ elapsed' = 0
            /\ closed_until' = -1
            /\ playback' = "test"
            /\ UNCHANGED handed
    /\ UNCHANGED <<input, flags, failed, modules, signal>>

\* The predicate of waitForRawPlaybackTime.
Stopping == ~raw_playback_running \/ shutdown_requested

\* The test before the sleep.  A wait that finds that it has to stop ends the
\* thread, which leaves raw_playback_running_ as it is.
TestBeforeSleep ==
    /\ playback = "test"
    /\ playback' = IF Stopping THEN "ended" ELSE "tested"
    /\ UNCHANGED <<input, flags, slice, playback_start, elapsed, effects,
                   failed, modules, signal>>

\* The sleep begins.  A notification that came after the test is lost.
FallAsleep ==
    /\ playback = "tested"
    /\ playback' = "asleep"
    /\ UNCHANGED <<input, flags, slice, playback_start, elapsed, effects,
                   failed, modules, signal>>

\* A wakeup before the time has come without a notification.
WakeUp ==
    /\ playback = "asleep"
    /\ elapsed < ReleaseTime(slice)
    /\ playback' = "test"
    /\ UNCHANGED <<input, flags, slice, playback_start, elapsed, effects,
                   failed, modules, signal>>

\* Variant of Timeout: the time is that of the slice before.
Timeout_SliceBefore ==
    /\ playback = "asleep"
    /\ elapsed >= ReleaseTime(slice - 1)
    /\ playback' = IF Stopping THEN "ended" ELSE "hand"
    /\ UNCHANGED <<input, flags, slice, playback_start, elapsed, effects,
                   failed, modules, signal>>

\* Variant of Timeout: only a notification ends the sleep.
Timeout_Never ==
    /\ playback = "asleep"
    /\ elapsed > MaxElapsed
    /\ UNCHANGED vars

\* The time has come; the predicate is tested once more.
Timeout ==
    /\ playback = "asleep"
    /\ elapsed >= ReleaseTime(slice)
    /\ playback' = IF Stopping THEN "ended" ELSE "hand"
    /\ UNCHANGED <<input, flags, slice, playback_start, elapsed, effects,
                   failed, modules, signal>>

\* accumulateEvents, or processRawTriggerModeEvents: the slice is handed in.
HandIn ==
    /\ playback = "hand"
    /\ handed' = IF write_enabled THEN handed \cup {slice} ELSE handed
    /\ playback' = "close"
    /\ UNCHANGED <<input, flags, slice, playback_start, elapsed, module_origin,
                   raw_file_start, closed_until, failed, modules, signal>>

\* Variant of AtEnd: the range is looked at although it is not known.
AtEnd_Unknown == WindowEnd(slice) >= file.end

\* The slice reaches the end of the known range.
AtEnd == file.known /\ WindowEnd(slice) >= file.end

\* publishModulesUntil, or publishEventMemoryUntil.
CloseWindows ==
    /\ playback = "close"
    /\ closed_until' = IF write_enabled THEN WindowEnd(slice) ELSE closed_until
    /\ playback' = IF AtEnd THEN "passed" ELSE "next"
    /\ UNCHANGED <<input, flags, slice, playback_start, elapsed, module_origin,
                   raw_file_start, handed, failed, modules, signal>>

\* The condition of the loop.
Repeats == raw_playback_loop /\ raw_playback_running /\ context_ok

\* Variant of EndPass: the flag is left set.
EndPass_KeepsRunning ==
    /\ playback = "passed"
    /\ playback' = IF Repeats THEN "begin" ELSE "ended"
    /\ UNCHANGED <<input, flags, slice, playback_start, elapsed, effects,
                   failed, modules, signal>>

\* The file starts over, or the thread ends.
EndPass ==
    /\ playback = "passed"
    /\ IF Repeats
       THEN /\ playback' = "begin"
            /\ UNCHANGED raw_playback_running
       ELSE /\ playback' = "ended"
            /\ raw_playback_running' = FALSE
    /\ UNCHANGED <<input, write_enabled, shutdown_requested, context_ok, slice,
                   playback_start, elapsed, effects, failed, modules, signal>>

\* What the thread does when it is scheduled.
Playback ==
    \/ BeginPass
    \/ EndOfFile
    \/ NextSlice
    \/ TestBeforeSleep
    \/ FallAsleep
    \/ Timeout
    \/ HandIn
    \/ CloseWindows
    \/ EndPass

----------------------------------------------------------------------------
(* The signal thread, in cleanShutdown.                                       *)

RequestShutdown ==
    /\ signal = "waiting"
    /\ shutdown_requested' = TRUE
    /\ signal' = "requested"
    /\ UNCHANGED <<input, raw_playback_running, write_enabled, context_ok,
                   thread, elapsed,
                   effects, failed, modules>>

DisableWriting ==
    /\ signal = "requested"
    /\ write_enabled' = FALSE
    /\ signal' = "stop"
    /\ UNCHANGED <<input, raw_playback_running, shutdown_requested, context_ok,
                   thread, elapsed,
                   effects, failed, modules>>

\* stopRawPlayback: the flag, then the notification, then the join.
ClearRunning ==
    /\ signal = "stop"
    /\ raw_playback_running' = FALSE
    /\ signal' = "notify"
    /\ UNCHANGED <<input, write_enabled, shutdown_requested, context_ok, thread,
                   elapsed, effects, failed, modules>>

Notify ==
    /\ signal = "notify"
    /\ playback' = IF playback = "asleep" THEN "test" ELSE playback
    /\ signal' = "join"
    /\ UNCHANGED <<input, flags, slice, playback_start, elapsed, effects,
                   failed, modules>>

\* Variant of Join: the thread is not waited for.
Join_NotWaiting ==
    /\ signal = "join"
    /\ signal' = "release"
    /\ UNCHANGED <<input, flags, thread, elapsed,
                   effects, failed, modules>>

Join ==
    /\ signal = "join"
    /\ playback = "ended"
    /\ signal' = "release"
    /\ UNCHANGED <<input, flags, thread, elapsed,
                   effects, failed, modules>>

\* The modules are destroyed; then rclcpp::shutdown.
ReleaseModules ==
    /\ signal = "release"
    /\ modules' = FALSE
    /\ signal' = "shutdown"
    /\ UNCHANGED <<input, flags, thread, elapsed, effects, failed>>

ShutdownContext ==
    /\ signal = "shutdown"
    /\ context_ok' = FALSE
    /\ signal' = "done"
    /\ UNCHANGED <<input, raw_playback_running, write_enabled,
                   shutdown_requested, thread, elapsed,
                   effects, failed, modules>>

Signal ==
    \/ DisableWriting
    \/ ClearRunning
    \/ Notify
    \/ Join
    \/ ReleaseModules
    \/ ShutdownContext

Tick ==
    /\ elapsed < MaxElapsed
    /\ elapsed' = elapsed + 1
    /\ UNCHANGED <<input, flags, thread, effects, failed, modules, signal>>

Next == Playback \/ ReadFails \/ WakeUp \/ RequestShutdown \/ Signal \/ Tick

\* Both threads are scheduled, and time passes.  Nobody has to send a signal.
Fairness == WF_vars(Playback) /\ WF_vars(Signal) /\ WF_vars(Tick)

Spec == Init /\ [][Next]_vars /\ Fairness

----------------------------------------------------------------------------
\* The state is well typed, and when the playback thread has ended
\* raw_playback_running_ says so, or a shutdown is about to clear it.
TypeOK ==
    /\ file \in Files
    /\ {raw_playback_running, write_enabled, shutdown_requested, context_ok,
        raw_playback_loop, failed, modules} \subseteq BOOLEAN
    /\ playback \in {"begin", "next", "test", "tested", "asleep", "hand",
                     "close", "passed", "ended"}
    /\ playback = "ended" => ~raw_playback_running \/ shutdown_requested
    /\ slice \in 0..LastSlice
    /\ {playback_start, module_origin, raw_file_start, closed_until}
         \subseteq Nat \cup {-1}
    /\ elapsed \in 0..MaxElapsed
    /\ handed \subseteq 1..LastSlice
    /\ signal \in {"waiting", "requested", "stop", "notify", "join", "release",
                   "shutdown", "done"}

\* When a slice is handed in, the modules have been reset to the start of this
\* pass, which the messages name as the start of the raw file and no time in the
\* file precedes, and have closed no window that the slice has events for.
ModulesReady ==
    playback = "hand" =>
      /\ module_origin = playback_start
      /\ raw_file_start = playback_start
      /\ \A t \in file.times : playback_start <= t
      /\ \A t \in TimesIn(slice) : closed_until <= t

\* A pass that nobody cut short has played the file: every event has been handed
\* in, or with a known range every event before its end (rawPlaybackLoop leaves
\* there even if the slicer has more), and the windows are closed as far.
WholeFilePlayed ==
    playback = "passed" /\ raw_playback_running /\ write_enabled =>
      \A t \in file.times :
        t < file.end \/ ~file.known
          => SliceOf(t) \in handed /\ t <= closed_until

\* The modules are not released while the playback thread may still use them.
NoUseAfterRelease == ~modules => playback = "ended"

\* Playback is not faster than the file at the playback rate: a slice is handed
\* in when as much time has passed since the start as lies between the start
\* and the slice's end.
Paced ==
    [][HandIn => elapsed * Rate + Rate > WindowEnd(slice) - playback_start]_vars

\* A shutdown ends the playback thread and releases the modules, although
\* the notification may be missed.
ShutdownEnds == shutdown_requested ~> ~modules
============================================================================
