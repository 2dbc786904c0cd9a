# Verification of fluxeem_ros2_driver_eb

TLA+ models of the ROS 2 driver for Fluxeem event cameras, checked with TLC and
proved with TLAPS.  Paths are relative to the repository; `publisher/` stands for
`fluxeem_ros2_publisher/`.

## 1. The system

A camera (or a raw file) yields *events*, pixels with a microsecond timestamp.
The publisher node cuts the stream into time windows, writes each window into a
file of `/dev/shm`, and publishes a small message that names the file.
Subscribers, such as the viewer, map the file.  `README.MD` is the project's own
description; what follows is what the code does.

| Component | State it keeps | Operations | Talks to |
|---|---|---|---|
| Event windows (`event_topic_module.hpp`, `WindowedEventModuleBase`; `modules.hpp`, `event_to_image.cpp`) | `timestamp_cutoff_`, `window_start_timestamp_`, `start_timestamp_`, the payload | `processEvents`, `publishUntil`, `reset`, `setTimestampOrigin` | called under `module_mutex_` by the node; publishes through the files |
| Trigger windows (`fluxeem_ros2_publisher_core.cpp`) | `trigger_window_start_timestamp_` | `handleTriggerIn`, `processRawTriggerModeEvents`, `publishEventMemoryUntil` | event windows of every module |
| Shared-memory files (`EventTopicModule`, `event_memory.cpp`) | file in use, two queues (files, times), message count | `publish`, `setupMessage`, `createSharedMemory`, `cleanSharedMemory` | the kernel, subscribers |
| Event buffer (`event_memory.cpp`) | capacity, sampling clock and rate, event-count history | `processEventRange`, `ensureEventCapacity`, `adjust` | executor timer, window loop |
| Node lifecycle (`fluxeem_ros2_publisher.cpp`) | `camera_`, `write_enabled_`, `shutdown_requested_`, the modules | SDK callbacks, `publishCameraInfo`, `reopenCamera`, `cleanShutdown`, `main` | everything |
| Raw playback (`fluxeem_ros2_publisher_core.cpp`) | playback thread, `raw_playback_running_`, start and end of the file | `openRawFile`, `rawPlaybackLoop`, `stopRawPlayback` | modules, `cleanShutdown` |
| Camera settings, services (`..._camera.cpp`, `..._services.cpp`, `camera_settings.hpp`) | `camera_settings_`, `recording_file_path_`, what the device was told | four services that set, one that reports, `setCamera` on reopening | `camera_`, the replay metadata of the modules |
| Pixel operations (`pixel_operations.cpp`) | none | histogram and time surface of an event range | image modules |
| Parameters and construction (`..._setup.cpp`, the constructor) | none after construction | declare, validate, open the camera, build modules, install the signal bridge | all modules |
| Viewer (`fluxeem_ros2_viewer`) | images on display, `camera_info_initialized_` | message callbacks that map, copy and unmap, user interface loop | the files |

Threads of the publisher: the SDK thread calls back with events, triggers and
errors; the raw playback thread takes its place for a file; the executor runs
timers and services (one mutually exclusive callback group, so one at a time); a
detached signal thread runs `cleanShutdown`; `main` waits in `spin` and destroys
the node.  `module_mutex_` protects the modules, nothing protects `camera_`.

What is hard, and where it bites, is listed under `hazards` in `PROJECT.json`.
The kinds that matter most:

* boundaries: an event exactly at a cutoff, gaps of many windows, slices that end
  inside a window, triggers between two cutoffs;
* two queues that have to stay in step although system calls fail between them;
* a crash between any two steps, and names that are used again after it;
* a reopening of the camera that overlaps a shutdown, callbacks that wait for a
  lock while the world changes.

## 2. What each part has to guarantee

* *Event windows*: every event is in exactly one window; the `[start, end]` of a
  message is true of its payload, in both directions; windows follow one another
  on a fixed grid; images show the kept fraction of their own window.
* *Trigger windows*: the same with windows cut at triggers; images cover the whole
  interval between two triggers.
* *Shared memory*: a published file can be read for its lifetime and holds what
  the message says; it is gone soon after; none is left by a clean shutdown.
* *Viewer*: an image shows the window its message announced; a message that comes
  too late loses an image, no more.
* *Event buffer*: what is written is what the sampling rule selects, the message
  says enough to select it again, and the rate follows the load.
* *Raw playback*: the file is played whole and not too fast, into modules that were
  reset for it, and a shutdown ends it before the modules go.
* *Camera services*: what was accepted is what the device does, in the device's
  units, also after the camera was replaced; what is reported can be sent back;
  the messages name the file that is being recorded.
* *Lifecycle*: nobody uses modules that are being reset or destroyed; released
  memory stays released; a lost camera comes back; a signal ends the process.

## 3. Modules

| Module | Models | Runs |
|---|---|---|
| `WindowStream` | abstract: what a windowed publisher promises of a stream | implemented by `EventWindow` (`SplitsStream`) |
| `EventWindow` | the window mechanics of one module | `MCEventWindow`: `EventWindow.cfg` |
| `EventWindow_proofs` | theorems about it, and that it implements `WindowStream` | |
| `TriggerWindow` | trigger mode, on top of `EventWindow` | `MCTriggerWindow`: `TriggerWindow.cfg`, `TriggerWindowOvertaken.cfg` |
| `TriggerWindow_proofs` | theorems about it | |
| `SharedMemory` | the files of one module over several runs of the process | `SharedMemoryResize.cfg`, and in composition |
| `SharedMemory_proofs` | theorems about it | |
| `Viewer` | a subscriber, composed with `SharedMemory` | `Viewer.cfg` |
| `Viewer_proofs` | theorems about the composition | |
| `EventBuffer` | sampling, growth and rate adaption of event memory | `EventBuffer.cfg`, `EventBufferAdjusted.cfg` |
| `EventBuffer_proofs` | theorems about it | |
| `RawPlayback` | the playback thread of a raw file, and its shutdown | `RawPlayback.cfg` |
| `RawPlayback_proofs` | theorems about it | |
| `NodeLifecycle` | the threads of a node with a live camera, from its constructor to its end | `NodeLifecycle.cfg`, `NodeLifecycleReopen.cfg` |
| `NodeLifecycle_proofs` | theorems about it | |
| `CameraServices` | settings, their services, recording, and what a reopening restores | `MCCameraServices`: `CameraServices.cfg`, `CameraServicesRecording.cfg` |
| `CameraServices_proofs` | theorems about it | |

Definitions called `X_Something` are variants of `X` with a plausible mistake in
them.  They are used in no specification; each property is known to fail when the
variant that `PROJECT.json` names takes the place of `X`.

### WindowStream

The promise, without how it is kept: events arrive in order, some of them are
taken into the open window, the open window is closed and published as one cell of
the session's grid with exactly the events taken for it, and what comes later is not
before its end.  A new session starts over at its origin.  That no event is lost or
published twice, that windows do not overlap or go back, and that they lie on the
grid are all in it, so the runs do not ask for them one by one.

### EventWindow

An event is its position in `stream`, the timestamps handed to the module since
its last reset; payloads are sets of positions.  `raw` says whether the session is
one of a raw file, which comes in slices and is closed by `publishUntil`, or of a
camera, which comes in batches; a node is one or the other for its life.  `current` is the loop variable of
`processEvents`, `until` the argument of `publishUntil`.  One iteration of either
loop is one step, so the invariants hold between iterations too.  The three
branches of `processEvents` are `CloseStaleWindow`, `FinishBatch` and
`FillWindow`; in the code the first is followed by one of the others in the same
iteration, which here is the next step, and nothing can come between because a
new delivery waits for `Idle`, as callers wait for `module_mutex_`.

`buffer` is the payload of event memory, `drawn` that of the images.  They go
through the same steps and differ in one thing: images skip events older than
`start_timestamp_`, which follows the cutoff by `keep_fraction` of a timespan.
Both are kept in one instance, and a record of `published` holds both payloads.

`advanceTimestampCutoff` is a loop that adds `timespan_`; `AdvancedCutoffs`
describes the value it ends with.

An event with the timestamp of a cutoff belongs to the window that ends there
when it comes in the same batch as what fills the window.  When `publishUntil`
closes the window before (raw), or an earlier batch has filled it (live), it goes
to the next one.  So `ReplayWindowFaithful` asks for all events strictly inside
and for none outside the closed interval: a consumer that rebuilds a payload from
a raw file cannot decide about the events at the two ends.

### TriggerWindow

Extends `EventWindow` and uses its loops for event memory.  `slice` and
`triggers` are what one slice of the file, or one decoded buffer of the SDK,
still has to hand over.  `RawEvents` and `RawTrigger` are the loop of
`processRawTriggerModeEvents`; `LiveEvents` and `LiveTrigger` the two callbacks of
a live camera, in either order, because nothing in the code orders them.  The
polarity test only drops triggers, so `triggers` are those it accepts; but the loop
over a slice ends a batch of events at a trigger of the other polarity too, so
`RawEvents` may end one wherever the timestamp changes.
`trigger_window_start_timestamp_` and the `start_timestamp_` and
`window_start_timestamp_` of every image module are always set together under the
mutex and are one variable.

### SharedMemory

`files` is `/dev/shm`, a function from the number in a name to a payload
`<<run, n>>`, the n-th window of a run: this is how the model sees a file
overwritten by a later window or left by an earlier run.  `Publish` is the whole of
`EventTopicModule::publish`: the time is queued, the message names the current
file, `setupMessage` creates the next one, and `cleanSharedMemory(false)` pops what
is too old.  Its failures are actions of their own: `PublishWithoutSuccessor`
(`createSharedMemory` returns null), `PublishWithoutResize` (the early return after
`ftruncate` in `event_memory.cpp`), `GrowFails`.  `Faults` selects which system
calls may fail in a run.  `failed` is history, the calls that have failed since the
process started: properties that a failed resize breaks are stated of the runs in
which none has failed (`Sound`), and so they can be checked, and proved, in an
instance in which everything may fail.

### Viewer

`EXTENDS SharedMemory`; the publisher goes on at its own pace (`PublisherStep`)
while messages wait in a queue of depth one (`Arrive` replaces what is not taken,
and need not choose a message at all: the subscription is best effort).  A callback
maps the file of its message (`Map`), or fails to (`MapFails`: the file is gone, or
`shm_open` or `mmap` itself fails on a file that is there), copies, and unmaps (`Unmap`).
A mapping is a file without a name, so it outlives `unlink`; it does not outlive a writer
that opens the same name again, because `createSharedMemory`
opens with `O_CREAT` and without `O_EXCL` (`Rewritten`).  In the code the image
callbacks return after such a failure, and `calculateHistogramFromMemory` logs it
and reads through `MAP_FAILED`: both outcomes are allowed of every failure, the second
only once `camera_info` has come, as the callback requires.  So a message may kill the
viewer however early it comes, and what the publisher's bookkeeping can promise is
`TimelyMessagesFindTheirFile`: a failure with a timely message of a sound run is one
of the viewer's own calls, never a file that is gone.

### CameraServices

Settings come as parameters of the node or as requests.  Of the parameters,
`setCameraParams` replaces a threshold out of range by the default (`TrailParameter`);
of the requests nobody looks at it.  Then settings go through three forms: the request
as it came in, what `setParams` keeps of it (clamped, or half assigned when the type is
unknown:
`TrailParams`), and what the device is told (`Programmed`, in microseconds and events
per second, modulo 2^32).  A device call may fail, and the code goes on or gives up
depending on the group: `Taken` lists what may have been written.  `setCamera` after a
reopening writes all groups from what is kept, into a device that knows nothing.
`accepted`, `settled` and `refused` are history: the last request that was not
refused, whether all of it was written, and whether a refused one has left its
traces since.

### EventBuffer

What `EventWindow` leaves out of event memory: which events are written, into how
much memory, and what the message says about it.  An event is its timestamp and
whether it is in the region of interest.  `processEventRange` of a batch is one
step: `Written` is one turn of its loop, `Processed` the fold over the batch.
Where a window ends is not decided here: `PublishWindow` may follow any batch.

`window`, `counts`, `latest` and `disturbed` are history: the events handed in
since the last message, how many there were in each window before, and whether
something happened to this window that `PayloadReplayableUnlessAdjusted` exempts.
`Rebuilt` is a subscriber that applies the sampling rule to the events of a window,
starting from the rate and the clock in the message.

Doubles are exact rationals here: `WeightedSum` is in tenths, and the division that
truncates to `int` is the only rounding.  The code's weights over thirds are 1.5,
1.2 and 0.3, half, two fifths and a tenth of the whole; its comments
(`event_memory.cpp`, lines 349 to 359) say 60, 30 and 10 percent.  Two more things
the model shows of the code: an event that comes after a gap only moves the clock,
even when it lies exactly on the tick the clock moves to, so of a stream with one
event per tick only the first is written; and a failed `ftruncate` in
`setupMessage` leaves the captured state of the old window for the next message.

### RawPlayback

`file` is the content of a raw file together with what `openRawFile` finds out: a
range that spans it, or nothing (`known`).  `SliceOf` is the SDK's slicer: slices end
at multiples of the interval, and `closed` leaves open to which of two slices an
event at an end belongs.  The playback thread has a step for each place at which
the signal thread could come before it.  `waitForRawPlaybackTime` is the loop that
the standard library makes of it: a test, a sleep, a wakeup by notification, by
itself, or by the clock, and a last test.  `stopRawPlayback` sets the flag and
notifies without the waiter's mutex, so `Notify` may find the thread between
`TestBeforeSleep` and `FallAsleep`, where it has no effect: the thread then sleeps on
until the clock wakes it.

What a slice does to the modules is left to `EventWindow` and `TriggerWindow`.  Kept
are the numbers of the slices handed in (`handed`), how far windows were closed
(`closed_until`), and what the modules were reset to.  `write_enabled_` is looked
at once per call: `accumulateEvents` in trigger mode is called several times for a
slice, and a shutdown that comes between drops the rest.

### NodeLifecycle

Program counters for the SDK thread, the executor and the signal thread, with a
step for each statement that another thread could come before.  It begins with the
constructor, which waits for a camera, builds the modules, starts the camera and
installs the signal bridge, and may throw on the way (`process = "failed"`).  After
that, main is the executor: it runs one callback of its group at a time, a request
(`BeginService`), an adjustment of event memory (`BeginAdjust`) or the timer that
notices a lost camera and reopens it.  A second signal ends the process at once,
wherever the first one's `cleanShutdown` is (`process = "killed"`).

`camera` is the optional `camera_`, which the executor reads and writes without a
lock while the signal thread does; `adjust_timer_` is bound to the raw pointer of a
module that the signal thread destroys.  Using what is not there is undefined: in the
model the call has no effect, or the process crashes (`Crash`).  `UsedUntilShutdown`
says that this cannot happen unless a shutdown is under way, and
`MemoryStaysReleased` that by then the files are gone.  The test-and-use of `camera_`
within `publishCameraInfo` is one step.

Assumed of the SDK: `stop` returns only when no callback is running, callbacks do
not overlap, and a camera that has reported a runtime error stops.  A camera may also
stop without having reported one (`StopsSilently`).

## 4. Runs

All passing runs explore their whole state space.

| Run | Bounds | Distinct states | Result |
|---|---|---|---|
| `event_window` | timespan 3, kept 2, time 0..9, 4 events, live batches and slices up to 2, origins 0 and 2 | 28871 | passes |
| `trigger_window` | timespan 3, 3 events, 2 triggers, slices ending at 2, 3, 6, 9 | 501677 | passes |
| `trigger_overtakes_cutoff` | the same, slices ending at 2, 4, 6, 8 | | violated |
| `viewer` | lifetime 1, time 0..2, 3 messages, 2 runs of the process, every fault | 5195395 | passes |
| `shared_memory_resize` | lifetime 2, time 0..7, 5 messages, 2 runs, `ftruncate` fails | | violated |
| `event_buffer` | rates 2..4, target 1 in 3 windows, capacity 1 per step of growth, times 0..4, 4 events, 4 windows | 1055012 | passes |
| `event_buffer_adjusted` | the same, rates 1..4, nothing fails | | violated |
| `raw_playback` | interval 2, rate 2, times 0..4, every file | 375176 | passes |
| `node_lifecycle` | 2 camera faults | 2528 | passes |
| `node_lifecycle_reopen` | the same | | violated |
| `camera_services` | 4 trail, 3 rate and 2 bias requests, 2 files, thresholds 1..3 with default 2, rates up to 3, both in units of 10, 6-bit words | 1275120 | passes |
| `camera_recording` | the same | | violated |

Why the bounds are enough.  Three timespans of 3 hold an event before, at and
after a cutoff, a gap that skips a window, and a window kept only in part; slices
shorter than a timespan end before, at and after cutoffs; a second origin shows
what forgets the first.  Four events fill one window, straddle its end and leave
one for the next.  A lifetime of 1 with three instants and three messages lets files be
live together and expire together or one by one, within a run or after it; two runs
let a run meet the files, the messages and the mappings that one that crashed has left
behind.  What these bounds leave out is covered by the proofs, which have none.
Four windows are one more than `adjust` keeps, so that
the history is cut and its thirds are unequal; of four events at a lowest rate of 2
some are sampled and some not, with events left when the capture ends, and they fill a
buffer of one event twice (`event_buffer_adjusted` starts at a rate of 1).  Times up to 4 at an
interval of 2 give up to three slices, empty ones before, between and after, and
events on their ends.  Two camera faults let a reopening fail and be tried
again.  Of the requests some are in range or at a limit, some are clamped, one has an
unknown type, and two have a threshold out of range, -1 and 7; 7 times 10 does not fit
six bits, so a rate that is not clamped wraps, as that threshold does, and 40 is
negative as an `int` of six bits.

`CHECK_DEADLOCK FALSE` in the viewer, shared-memory and event-buffer runs: when the
clock and the counts reach their bounds the model stops, as the bounds want it to.
In `raw_playback` the system stops when the playback has ended and the node is shut
down.  The camera runs say so too although their system never stops.

Bounds end up in guards that carry their names (`MaxTime`, `MaxEvents`, `MaxMessages`,
`MaxRuns`, `MaxWindows`, `MaxTriggers`, `MaxFaults`); none of them stands for a limit
the code has.

The violations are findings, quoted with the text they contradict in
`PROJECT.json`:

1. `trigger_overtakes_cutoff`: a trigger that lies past a cutoff no event has
   reached gives event memory a window longer than its timespan; the trace ends
   there.  `window_start_timestamp_` has moved and `timestamp_cutoff_` has not, so the
   next window ends before it starts.  With slices that end at every cutoff it cannot
   happen in playback: that is what `trigger_window` shows and
   `MemoryWindowsInOrderAlways` proves.  Live, it can happen whenever no event lies
   between cutoff and trigger.
2. `shared_memory_resize`: after a failed `ftruncate` the time queue is one ahead of
   the file queue for the rest of the run, and files go before their lifetime is
   over.
3. `node_lifecycle_reopen`: `reopenCamera` finishes after `cleanShutdown` and
   leaves a camera running.  `MemoryStaysReleased` holds all the same: modules that
   were destroyed write nothing.
4. `event_buffer_adjusted`: the adjust timer changes the sampling rate within a
   window whose message announces the rate of its start, so the message does not
   tell how its payload came about.  `event_buffer` shows that this, a lost event and
   a failed `ftruncate` are the only ways to get there.
5. `camera_recording`: a camera that is lost while it records is reopened and does
   not record, and the messages go on naming the old file, which holds none of their
   events.

One more disagreement with a document needs no run to be seen, and so has none.
`README.MD` (lines 186 and 196) says that a trail threshold outside 1..100 ms is
silently clamped.  A parameter out of range becomes 50 (`setCameraParams`; this is also
what `param.yaml`, line 20, says of it), and a threshold from the service is not looked
at (`TrailFilter::setParams`, `camera_settings.hpp`, line 54): 200 is written as 200000,
and -1 as -1000 modulo 2^32.  The sentence fails for rates too: a request of 2^31 or more is
negative as an `int` and becomes 0, not the maximum, so that the stream is shut off, and
a negative `camera.erc_rate` ends the node with an exception.  The model does all of
this except the exception (`TrailParameter`, `TrailParams`, `ErcParams`), the requests of
`camera_services` include thresholds of -1 and 7 and a rate that is negative, and
`AcceptedInForce` claims what the document says only of thresholds in range and of rates
below 2^31.

Observations that contradict no document:

* the trail filter's threshold is set in milliseconds (`README.MD`, line 186) and
  reported by `camera_info_srv` in microseconds: `ReportCanBeSentBack` says what a
  client has to divide;
* the viewer of event memory dies when its own `shm_open` or `mmap` fails, with a
  timely message too, because it reads through `MAP_FAILED`;
* a message handled after its publisher was restarted may lead to a file of the new
  run under the old name, and the image shows another window: `ImageAsAnnounced`
  speaks of one run;
* a constructor that throws after the modules were built leaves their files in
  `/dev/shm` until the next clean shutdown of the same identifier.

`ImagesComplete` and the two properties of event memory are claimed of raw
playback only.  With a live camera an event may be delivered after its trigger,
and an image then never shows it.

### Fairness

`NodeLifecycle` and `RawPlayback` have liveness properties.  Weak fairness of the threads' steps:
the operating system runs every thread that can run.  Strong fairness of the steps
that wait for `module_mutex_`, or for the SDK thread to be between two callbacks:
callbacks may come for ever, and a thread that waits is let in between two of them
sooner or later.  Strong fairness of the timer that looks for the camera: the
executor takes a timer that is due before it takes a request, so requests and
adjustments do not keep it away for ever.  Weak fairness of `Plug`: `reopenCamera` waits for a camera for
ever, and neither `Reconnects` nor `Terminates` can be had when none comes.  In
`RawPlayback` time passes, and a sleeping thread is woken when its time has come;
this, and not the notification, is what `ShutdownEnds` rests on.  No fairness is
assumed of signals, faults, wakeups or events.

## 5. Proofs

TLAPS proves, for every value of the constants and without the bounds of the runs
being used:

* `EventWindow_proofs`, for every timespan, keep fraction, slice length and stream:
  `TypeOK`, `WindowsInOrder`, `EachEventOnce`, `ReplayWindowFaithful`,
  `KeepFractionHonoured`, `RawWindowsContiguous`.  The inductive invariant says
  that the open window is one timespan that ends at the cutoff and starts no later
  than what the module has heard of (`OpenWindow`); that the cursor splits the
  ordered stream into what is not past the cutoff and what is not before the
  window (`CursorSplitsStream`), slices bounding what is to come
  (`SlicesBoundStream`); that the payload belongs to the open window
  (`PayloadOfWindow`); and, for each published window, everything the properties
  say of it (`PublishedSettled`).  Without `CursorSplitsStream` a window could be
  published and an event inside it arrive later, so `ReplayWindowFaithful` is not
  inductive alone.  Every step that publishes goes through `ClosingStep`, whose
  hypothesis `ClosesWindow` says what closing a window needs.
* `EventWindow_proofs` too: `Implements`, that every step of the loops is a step of
  `WindowStream` or changes nothing of it, under the mapping that forgets the images
  and takes the module's cursor for what has been taken.  It rests on the invariant
  above and on the windows' distances from the origin being multiples of the timespan.
* `SharedMemory_proofs`, whatever call fails: `TypeOK`, `OwnFilesQueued`,
  `OwnFilesReleased`, `NoOrphansAfterShutdown`.  `ReleaseInv` says that the file in
  use is queued and that every file of this run is either queued or gone; the release
  walks the queue.  Of the runs of the process in which no resize has failed:
  `LiveMessagesReadable`, `QueuesAligned` and `NoFileOutlivesNextPublish`.  `QueueInv`
  says that files are queued in the order of their numbers with the file in use last
  (`QueueNumbered`, `CurrentFileLast`), that each but the last is paired with the time
  of its own message (`TimesOfMessages`, `MessagesQueued`), and that what has been
  unlinked had expired.  After a failed resize `QueuesAligned` is false, as
  `shared_memory_resize` shows: the exemption is needed.
* `Viewer_proofs`: `PublisherRuns`, that the composition implements `SharedMemory`
  alone, so that all of the above holds in it; `ImageAsAnnounced`; and the action
  property `TimelyMessagesFindTheirFile`.  The invariant says what a message of the run
  announces and which file holds it (`PublisherInv`), that the queued message is not
  of a later run and was sent if it is of this one (`InboxOfRun`), and the same of a
  mapped image (`ImageOfRun`).  That a live message can be opened is
  `LiveMessagesReadable`, used here across the two components.
* `RawPlayback_proofs`, for every file, interval and rate: `TypeOK`,
  `NoUseAfterRelease`, `ModulesReady`, `WholeFilePlayed` and the action property
  `Paced`.  The invariant adds the order of the shutdown (`ShutdownOrder`), that while
  the start is unknown no slice so far had a time (`StartKnown`), and which slices
  have been handed in and how far windows are closed at each place of the loop
  (`HandedSoFar`, `ClosedBehind`).  The lemmas on slices turn division into products:
  `SliceOfFacts`, `SliceOfMonotonic`, `BeforeSliceEnd`.
* `NodeLifecycle_proofs`, for any number of faults: `TypeOK`, `EventsOfOneSession`,
  `MemoryStaysReleased`, `UsedUntilShutdown` and the action property
  `ModulesStableInCallback`.  The invariant adds that nothing else runs while main
  constructs the node (`AloneWhileStarting`), which threads can be where while a camera
  runs (`CallbackNeedsCamera`, `NoCameraWhileReopening`), that `camera_` is empty only
  where the executor expects it or at the end, and an adjusted module destroyed only
  after the release (`EmptyCamera`, `AdjustedModule`: why a crash finds the memory
  released), and that the end comes after the release.
* `CameraServices_proofs`, for all limits, units and requests that the messages can
  carry: `SettingsTypeOK`, `AcceptedInForce`, `ReportCanBeSentBack`, `RecordingIsNamed`.  The
  invariant says that what is kept of a group is what was accepted, unless a refused
  request was stored over it (`KeptAsAccepted`, of thresholds in range: `TrailAsked`),
  and that a group written completely
  holds what was accepted in the device's units (`WrittenAsAccepted`).  The second does
  not follow from the first, because a refused request changes what is kept and not the
  device.  That neither a threshold in range nor a rate wraps is `ThresholdFits` and
  `RateFits`, from `UnitsAssumption`: the limit, in the
  device's unit, fits a word, and the limit itself half of one.

* `TriggerWindow_proofs`, for every timespan and every cut of the events into slices:
  `TriggerTypeOK`, `ImagesBetweenTriggers`, `ImagesComplete`, `MemoryWindowsFaithful`.
  The invariant says that nothing still to be handed over is older than what was,
  and in raw mode no trigger either (`HandedOverInOrder`), what the open image and the
  open window of event memory hold (`OpenImage`, `OpenMemory`), and what is known of
  every published one (`ImagesSettled`, `MemorySettled`).  A trigger may put the
  window's start after the cutoff, so `OpenWindow` of `EventWindow_proofs` does not
  hold here: `OpenMemory` bounds the events by the window's start and by the cutoff,
  each for itself.  `MemoryWindowsInOrder` needs one hypothesis, `SlicesEndAtCutoffs`:
  no slice runs across a cutoff, as when the playback interval divides the timespan and
  the origin.  Then the end of the slice at hand never passes the cutoff (`InStep`),
  which stays a whole number of timespans after the origin (`CutoffOnGrid`), so that a
  trigger always falls into the open window.  The instance of `trigger_window` satisfies
  the hypothesis, that of `trigger_overtakes_cutoff` does not, and there the property is
  violated.
* `EventBuffer_proofs`, for every rate, target, memory, batch and fault: `BufferTypeOK`,
  `PayloadReplayableUnlessAdjusted`, `SampledOnGrid`, `HistoryOfLastWindows` and the
  action property `AdjustMeetsTarget`.  `processEventRange` is a fold over its batch,
  and so is the subscriber that rebuilds a payload: what they compute needs induction
  over the events.  The induction theorems of the library cannot be used, as they take
  an operator, but induction can be stated of sets: a set of numbers has a least one
  (`LeastNumber`), hence `UpTo`.  From it, the function that a fold describes exists
  (`FoldExists`) and keeps in a set what each of its steps keeps there (`FoldKeeps`),
  and a batch is a run of the states the module goes through (`RunExists`).  The
  invariant says that a subscriber who stops at any time is where the module is: same
  clock, same rate, same events (`SubscriberKeepsUp`).  Without it the payload property
  is not inductive, as it speaks of published windows only.  `AdjustMeetsTarget` rests
  on bounds for the sums over a history (`SumBounds`), which hold for each third and
  hence for their weighted sum (`WeightedSumBound`), and on what the division that
  truncates does to them (`ScaleBound`, `ScaleOfEquals`).

Only model-checked: the liveness properties (`Terminates`, `Reconnects`,
`ShutdownEnds`), which are out of the proof system's reach.  Every other property of
the passing runs is stated by a theorem.

## 6. Not modelled

* *Parameters*: their declaration and validation runs once, in sequence; what it
  ensures are the assumptions of the modules (a positive timespan, a keep fraction
  within it, a lifetime).
* *A signal before the bridge*: rclcpp's own handlers are in force, and what they do is
  not in this repository.
* *Pixel operations*: the saturating counts and colours of one pixel are functions
  without state; the filter that decides which events are counted is in `EventWindow`
  and `TriggerWindow`.
* *Viewer*: the size of its images, which the first message fixes, the descriptor that
  an image callback leaks when `mmap` fails, and the windows on screen.  A file of an
  earlier run that is mapped while a new run truncates it is `Rewritten` in the model;
  that the pages are gone for a moment is not modelled.
* *Sampling and its target*: `AdjustMeetsTarget` is about the rate that `adjust`
  computes from past windows, not about the events then written, which depend on
  windows to come.
* *The end of a raw file*: `WholeFilePlayed` says nothing of an event exactly at
  `file.end`, because which slice it belongs to is the SDK's.
* *The length of the history*: windows are added to it between two runs of `adjust`,
  which cuts it; that it stays short rests on the timer's period, which has no
  counterpart in the model.
* *Spatial sampling and the region's coordinates*: they scale or select events and keep
  no state; `EventBuffer` has the selection.
* *Names*: one identifier and one topic; two nodes that share a prefix would delete
  each other's files (`cleanOwnedSharedMemoryFiles`), which is the user's to avoid.
* Message definitions, the construction of image messages, logging.
