--------------------------- MODULE NodeLifecycle ---------------------------
(* The life of a node with a live camera, from its constructor until the      *)
(* process ends (fluxeem_ros2_publisher.cpp): the SDK thread that calls back  *)
(* with events, the executor thread that serves requests, adjusts the event   *)
(* memory, notices a lost camera and reopens it, the signal thread that runs  *)
(* cleanShutdown, and main, which is the executor thread.  The timers and the *)
(* services are callbacks of one group: one of them runs at a time.           *)
(*                                                                            *)
(* camera_ is a std::optional that the executor and the signal thread use     *)
(* without a lock, and adjust_timer_ is bound to the raw pointer of a module  *)
(* that the signal thread destroys.  Using what is not there is undefined     *)
(* behaviour: the call has no effect, or the process crashes (Crash).  A      *)
(* signal before installSignalBridge is rclcpp's and is not modelled.         *)
EXTENDS Naturals

CONSTANT MaxFaults  \* bound: camera errors and failed starts, after the first

ASSUME MaxFaultsAssumption == MaxFaults \in Nat

VARIABLES
    camera,              \* camera_: "none", "stopped" (opened), "running"
    session,             \* how many cameras have been opened
    plugged,             \* the device is there to be opened
    faults,              \* how many faults there have been
    write_enabled,       \* write_enabled_
    shutdown_requested,  \* shutdown_requested_
    module_mutex,        \* who holds module_mutex_
    modules,             \* the camera session the modules were reset for, or 0
                         \* once cleanShutdown has destroyed them
    shared_memory,       \* files of this node are in /dev/shm
    context_ok,          \* rclcpp::ok()
    callback,            \* where the SDK thread is
    executor,            \* where main is: in the constructor, in a callback
    signal,              \* where the signal thread is
    process              \* "up", "exited", "crashed", "killed" by _exit, or
                         \* "failed": the constructor threw

vars == <<camera, session, plugged, faults, write_enabled, shutdown_requested,
          module_mutex, modules, shared_memory, context_ok, callback, executor,
          signal, process>>

device == <<plugged, faults>>
flags == <<write_enabled, shutdown_requested, context_ok>>
memory == <<modules, shared_memory>>

Init ==
    /\ camera = "none"
    /\ session = 0
    /\ plugged \in BOOLEAN
    /\ faults = 0
    /\ write_enabled = TRUE
    /\ shutdown_requested = FALSE
    /\ module_mutex = "nobody"
    /\ modules = 0
    /\ shared_memory = FALSE
    /\ context_ok = TRUE
    /\ callback = "idle"
    /\ executor = "constructing"
    /\ signal = "waiting"
    /\ process = "up"

----------------------------------------------------------------------------
(* main constructs the node and installs the signal bridge.                   *)

\* openCamera, tried again and again until it succeeds.
OpenFirstCamera ==
    /\ process = "up"
    /\ executor = "constructing"
    /\ plugged
    /\ camera' = "stopped"
    /\ session' = session + 1
    /\ executor' = "building"
    /\ UNCHANGED <<device, flags, module_mutex, memory, callback, signal,
                   process>>

\* setParams builds the modules with their first files, and publishers and
\* services follow.  A parameter it does not accept is an exception that main
\* does not catch: the files of the modules built before it stay.
BuildModules ==
    /\ process = "up"
    /\ executor = "building"
    /\ \/ /\ modules' = session
          /\ shared_memory' = TRUE
          /\ executor' = "launching"
          /\ UNCHANGED process
       \/ /\ shared_memory' \in BOOLEAN
          /\ process' = "failed"
          /\ UNCHANGED <<modules, executor>>
    /\ UNCHANGED <<camera, session, device, flags, module_mutex, callback,
                   signal>>

\* camera_->start(), or another exception that main does not catch.
LaunchCamera ==
    /\ process = "up"
    /\ executor = "launching"
    /\ \/ /\ camera' = "running"
          /\ executor' = "installing"
          /\ UNCHANGED process
       \/ /\ process' = "failed"
          /\ UNCHANGED <<camera, executor>>
    /\ UNCHANGED <<session, device, flags, module_mutex, memory, callback,
                   signal>>

\* main installs the bridge and its executor begins to spin.
InstallSignalBridge ==
    /\ process = "up"
    /\ executor = "installing"
    /\ executor' = "idle"
    /\ UNCHANGED <<camera, session, device, flags, module_mutex, memory,
                   callback, signal, process>>

----------------------------------------------------------------------------
(* The SDK thread.                                                            *)

\* The event callback: the check before the batch is converted, and the one at
\* the head of accumulateEvents.
EventsArrive ==
    /\ process = "up"
    /\ camera = "running" /\ callback = "idle"
    /\ write_enabled
    /\ callback' = "checked"
    /\ UNCHANGED <<camera, session, device, flags, module_mutex, memory,
                   executor, signal, process>>

\* accumulateEvents: the lock, and the check under it.
LockModules ==
    /\ process = "up"
    /\ callback = "checked"
    /\ module_mutex = "nobody"
    /\ \/ /\ write_enabled
          /\ module_mutex' = "callback" /\ callback' = "processing"
       \/ /\ ~write_enabled
          /\ callback' = "idle" /\ UNCHANGED module_mutex
    /\ UNCHANGED <<camera, session, device, flags, memory, executor, signal,
                   process>>

\* accumulateEvents: modules that exist write to their files and make new ones.
ProcessEvents ==
    /\ process = "up"
    /\ callback = "processing"
    /\ shared_memory' = (shared_memory \/ modules # 0)
    /\ module_mutex' = "nobody" /\ callback' = "idle"
    /\ UNCHANGED <<camera, session, device, flags, modules, executor, signal,
                   process>>

\* The runtime error callback.  The device may be gone for a while.
RuntimeError ==
    /\ process = "up"
    /\ camera = "running" /\ callback = "idle"
    /\ faults < MaxFaults
    /\ faults' = faults + 1
    /\ plugged' \in {TRUE, FALSE}
    /\ write_enabled' = FALSE
    /\ callback' = "failing"
    /\ UNCHANGED <<camera, session, shutdown_requested, context_ok,
                   module_mutex, memory, executor, signal, process>>

\* After the error the SDK stops the camera: is_running() is false.
CameraStops ==
    /\ process = "up"
    /\ callback = "failing"
    /\ callback' = "idle"
    /\ camera' = "stopped"
    /\ UNCHANGED <<session, device, flags, module_mutex, memory, executor,
                   signal, process>>

\* Or the camera stops without an error: write_enabled_ stays.
StopsSilently ==
    /\ process = "up"
    /\ camera = "running" /\ callback = "idle"
    /\ faults < MaxFaults
    /\ faults' = faults + 1
    /\ plugged' \in {TRUE, FALSE}
    /\ camera' = "stopped"
    /\ UNCHANGED <<session, flags, module_mutex, memory, callback, executor,
                   signal, process>>

\* Someone plugs the camera in again.
Plug ==
    /\ ~plugged
    /\ plugged' = TRUE
    /\ UNCHANGED <<camera, session, faults, flags, module_mutex, memory,
                   callback, executor, signal, process>>

----------------------------------------------------------------------------
(* The executor thread: services, the adjust timer, publishCameraInfo every   *)
(* 33 ms, and reopenCamera.                                                   *)

\* A service that reads or writes the camera tests camera_ first.
BeginService ==
    /\ process = "up" /\ context_ok
    /\ executor = "idle"
    /\ camera # "none"
    /\ executor' = "serving"
    /\ UNCHANGED <<camera, session, device, flags, module_mutex, memory,
                   callback, signal, process>>

\* adjust_timer_ fires while its module, which owns it, exists.
BeginAdjust ==
    /\ process = "up" /\ context_ok
    /\ executor = "idle"
    /\ modules # 0
    /\ executor' = "adjusting"
    /\ UNCHANGED <<camera, session, device, flags, module_mutex, memory,
                   callback, signal, process>>

\* The callback returns.
EndCallback ==
    /\ process = "up"
    /\ executor \in {"serving", "adjusting"}
    /\ executor' = "idle"
    /\ UNCHANGED <<camera, session, device, flags, module_mutex, memory,
                   callback, signal, process>>

\* publish_timer_ fires, unless cleanShutdown has cancelled it.
TimerFires ==
    /\ process = "up" /\ context_ok
    /\ executor = "idle"
    /\ ~shutdown_requested
    /\ executor' = "inspecting"
    /\ UNCHANGED <<camera, session, device, flags, module_mutex, memory,
                   callback, signal, process>>

\* The camera is there and does not run: it has to be reopened.
FindCameraLost ==
    /\ process = "up"
    /\ executor = "inspecting"
    /\ \/ /\ camera = "stopped"
          /\ write_enabled' = FALSE
          /\ executor' = "closing"
       \/ /\ camera # "stopped"
          /\ executor' = "idle" /\ UNCHANGED write_enabled
    /\ UNCHANGED <<camera, session, device, shutdown_requested, context_ok,
                   module_mutex, memory, callback, signal, process>>

\* camera_->stop() of a camera that is not running, and camera_.reset().
CloseCamera ==
    /\ process = "up"
    /\ executor = "closing"
    /\ camera' = "none"
    /\ executor' = "opening"
    /\ UNCHANGED <<session, device, flags, module_mutex, memory, callback,
                   signal, process>>

\* Variant of OpenCamera: tried once.
OpenCamera_Once ==
    /\ process = "up"
    /\ executor = "opening"
    /\ \/ /\ plugged
          /\ camera' = "stopped"
          /\ session' = session + 1
       \/ /\ ~plugged
          /\ UNCHANGED <<camera, session>>
    /\ executor' = "configuring"
    /\ UNCHANGED <<device, flags, module_mutex, memory, callback, signal,
                   process>>

\* openCamera, tried again and again until it succeeds.
OpenCamera ==
    /\ process = "up"
    /\ executor = "opening"
    /\ plugged
    /\ camera' = "stopped"
    /\ session' = session + 1
    /\ executor' = "configuring"
    /\ UNCHANGED <<device, flags, module_mutex, memory, callback, signal,
                   process>>

\* setCamera catches what it can catch; the settings are not modelled here.
ConfigureCamera ==
    /\ process = "up"
    /\ executor = "configuring"
    /\ executor' = "resetting"
    /\ UNCHANGED <<camera, session, device, flags, module_mutex, memory,
                   callback, signal, process>>

\* Variant of ResetModules: the modules go on where the last camera stopped.
ResetModules_Forgotten ==
    /\ process = "up"
    /\ executor = "resetting"
    /\ module_mutex = "nobody"
    /\ modules' = modules
    /\ executor' = "starting"
    /\ UNCHANGED <<camera, session, device, flags, module_mutex, shared_memory,
                   callback, signal, process>>

\* The modules that exist are reset, under the lock.
ResetModules ==
    /\ process = "up"
    /\ executor = "resetting"
    /\ module_mutex = "nobody"
    /\ modules' = (IF modules = 0 THEN 0 ELSE session)
    /\ executor' = "starting"
    /\ UNCHANGED <<camera, session, device, flags, module_mutex, shared_memory,
                   callback, signal, process>>

\* Variant of StartCamera: a camera that does not start is dropped.
StartCamera_DropsFailed ==
    /\ process = "up"
    /\ executor = "starting"
    /\ \/ /\ camera' = IF camera = "none" THEN "none" ELSE "running"
          /\ executor' = "enabling"
          /\ UNCHANGED faults
       \/ /\ faults < MaxFaults
          /\ faults' = faults + 1
          /\ executor' = "idle"
          /\ camera' = "none"
    /\ UNCHANGED <<session, plugged, flags, module_mutex, memory, callback,
                   signal, process>>

\* camera_->start(), or the exception that publishCameraInfo catches: the camera
\* stays, does not run, and is reopened at the next tick.
StartCamera ==
    /\ process = "up"
    /\ executor = "starting"
    /\ \/ /\ camera' = IF camera = "none" THEN "none" ELSE "running"
          /\ executor' = "enabling"
          /\ UNCHANGED faults
       \/ /\ faults < MaxFaults
          /\ faults' = faults + 1
          /\ executor' = "idle"
          /\ UNCHANGED camera
    /\ UNCHANGED <<session, plugged, flags, module_mutex, memory, callback,
                   signal, process>>

\* The last line of reopenCamera.
EnableWriting ==
    /\ process = "up"
    /\ executor = "enabling"
    /\ write_enabled' = TRUE
    /\ executor' = "idle"
    /\ UNCHANGED <<camera, session, device, shutdown_requested, context_ok,
                   module_mutex, memory, callback, signal, process>>

----------------------------------------------------------------------------
(* The signal thread: cleanShutdown, then rclcpp::shutdown.                   *)

\* main is before installSignalBridge.
Starting == {"constructing", "building", "launching", "installing"}

\* SIGINT or SIGTERM: cleanShutdown wins the compare-and-exchange.
RequestShutdown ==
    /\ process = "up"
    /\ executor \notin Starting
    /\ signal = "waiting"
    /\ shutdown_requested' = TRUE
    /\ signal' = "requested"
    /\ UNCHANGED <<camera, session, device, write_enabled, context_ok,
                   module_mutex, memory, callback, executor, process>>

\* A second signal ends the process at once (signalRelayHandler), and whatever
\* has not been released by then stays.
SecondSignal ==
    /\ process = "up"
    /\ signal # "waiting"
    /\ process' = "killed"
    /\ UNCHANGED <<camera, session, device, flags, module_mutex, memory,
                   callback, executor, signal>>

DisableWriting ==
    /\ process = "up"
    /\ signal = "requested"
    /\ write_enabled' = FALSE
    /\ signal' = "disabled"
    /\ UNCHANGED <<camera, session, device, shutdown_requested, context_ok,
                   module_mutex, memory, callback, executor, process>>

\* Variant of LockForRelease: module_mutex_ is not taken.
LockForRelease_Unlocked ==
    /\ process = "up"
    /\ signal = "disabled"
    /\ module_mutex' = module_mutex
    /\ signal' = "releasing"
    /\ UNCHANGED <<camera, session, device, flags, memory, callback, executor,
                   process>>

\* cleanShutdown takes module_mutex_.
LockForRelease ==
    /\ process = "up"
    /\ signal = "disabled"
    /\ module_mutex = "nobody"
    /\ module_mutex' = "signal"
    /\ signal' = "releasing"
    /\ UNCHANGED <<camera, session, device, flags, memory, callback, executor,
                   process>>

\* Variant of ReleaseModules: the mutex is held until the camera has stopped.
ReleaseModules_KeepsLock ==
    /\ process = "up"
    /\ signal = "releasing"
    /\ shared_memory' = FALSE
    /\ modules' = 0
    /\ module_mutex' = module_mutex
    /\ signal' = "released"
    /\ UNCHANGED <<camera, session, device, flags, callback, executor, process>>

\* Variant of ReleaseModules: the files are unlinked, the modules stay.
ReleaseModules_KeepsModules ==
    /\ process = "up"
    /\ signal = "releasing"
    /\ shared_memory' = FALSE
    /\ modules' = modules
    /\ module_mutex' = "nobody"
    /\ signal' = "released"
    /\ UNCHANGED <<camera, session, device, flags, callback, executor, process>>

\* cleanSharedMemory(true), and the modules are destroyed.
ReleaseModules ==
    /\ process = "up"
    /\ signal = "releasing"
    /\ shared_memory' = FALSE
    /\ modules' = 0
    /\ module_mutex' = "nobody"
    /\ signal' = "released"
    /\ UNCHANGED <<camera, session, device, flags, callback, executor, process>>

\* if (camera_): without one, there is nothing to stop or to reset.
FindCamera ==
    /\ process = "up"
    /\ signal = "released"
    /\ signal' = IF camera = "none" THEN "done" ELSE "stopping"
    /\ UNCHANGED <<camera, session, device, flags, module_mutex, memory,
                   callback, executor, process>>

\* camera_->stop() returns when the SDK thread is out of its callbacks.
StopCamera ==
    /\ process = "up"
    /\ signal = "stopping"
    /\ callback = "idle"
    /\ camera' = IF camera = "none" THEN "none" ELSE "stopped"
    /\ signal' = "dropping"
    /\ UNCHANGED <<session, device, flags, module_mutex, memory, callback,
                   executor, process>>

\* camera_.reset(), which also stops a camera that was started in between.
DropCamera ==
    /\ process = "up"
    /\ signal = "dropping"
    /\ callback = "idle"
    /\ camera' = "none"
    /\ signal' = "done"
    /\ UNCHANGED <<session, device, flags, module_mutex, memory, callback,
                   executor, process>>

\* rclcpp::shutdown(); its callback finds cleanShutdown already run.
ShutdownContext ==
    /\ process = "up"
    /\ signal = "done"
    /\ context_ok
    /\ context_ok' = FALSE
    /\ UNCHANGED <<camera, session, device, write_enabled, shutdown_requested,
                   module_mutex, memory, callback, executor, signal, process>>

\* spin returns when the executor is idle; main destroys the node and returns.
MainReturns ==
    /\ process = "up"
    /\ ~context_ok
    /\ executor = "idle"
    /\ process' = "exited"
    /\ UNCHANGED <<camera, session, device, flags, module_mutex, memory,
                   callback, executor, signal>>

----------------------------------------------------------------------------
\* A thread is about to use camera_, and it holds no camera any more.
UsesNoCamera ==
    /\ camera = "none"
    /\ \/ executor \in {"closing", "configuring", "starting", "serving"}
       \/ signal = "stopping"

\* The executor is inside a module that has been destroyed.
UsesNoModule == executor = "adjusting" /\ modules = 0

\* One thing the undefined behaviour may come to.
Crash ==
    /\ process = "up"
    /\ UsesNoCamera \/ UsesNoModule
    /\ process' = "crashed"
    /\ UNCHANGED <<camera, session, device, flags, module_mutex, memory,
                   callback, executor, signal>>

\* spin waits for work, or the process has ended.
Rest ==
    /\ (context_ok /\ executor = "idle") \/ process # "up"
    /\ UNCHANGED vars

Construction ==
    OpenFirstCamera \/ BuildModules \/ LaunchCamera \/ InstallSignalBridge

SdkSteps == LockModules \/ ProcessEvents \/ CameraStops

ExecutorSteps ==
    \/ EndCallback \/ TimerFires \/ FindCameraLost \/ CloseCamera \/ OpenCamera
    \/ ConfigureCamera \/ StartCamera \/ EnableWriting

SignalSteps ==
    DisableWriting \/ ReleaseModules \/ FindCamera \/ ShutdownContext

Next == \/ Construction
        \/ EventsArrive
        \/ RuntimeError
        \/ StopsSilently
        \/ Plug
        \/ SdkSteps
        \/ BeginService
        \/ BeginAdjust
        \/ ExecutorSteps
        \/ ResetModules
        \/ RequestShutdown
        \/ SecondSignal
        \/ SignalSteps
        \/ LockForRelease
        \/ StopCamera
        \/ DropCamera
        \/ MainReturns
        \/ Crash
        \/ Rest

\* Every thread goes on; the executor takes a timer that is due before it takes
\* a request; a thread that waits for module_mutex_, or for the SDK thread
\* to be between two callbacks, is not passed over for ever; a camera that was
\* unplugged is plugged in again.
Fairness ==
    /\ WF_vars(Construction)
    /\ WF_vars(SdkSteps) /\ WF_vars(ExecutorSteps) /\ WF_vars(SignalSteps)
    /\ SF_vars(TimerFires)
    /\ SF_vars(LockModules) /\ SF_vars(ResetModules) /\ SF_vars(LockForRelease)
    /\ SF_vars(StopCamera) /\ SF_vars(DropCamera)
    /\ WF_vars(MainReturns)
    /\ WF_vars(Plug)

Spec == Init /\ [][Next]_vars /\ Fairness

----------------------------------------------------------------------------
\* The state is well typed, and module_mutex_ is held by who is inside.
TypeOK ==
    /\ camera \in {"none", "stopped", "running"}
    /\ session \in Nat /\ modules \in Nat /\ faults \in Nat
    /\ plugged \in BOOLEAN /\ write_enabled \in BOOLEAN
    /\ shutdown_requested \in BOOLEAN /\ context_ok \in BOOLEAN
    /\ shared_memory \in BOOLEAN
    /\ module_mutex \in {"nobody", "callback", "signal"}
    /\ callback \in {"idle", "checked", "processing", "failing"}
    /\ executor \in Starting \cup
                    {"idle", "serving", "adjusting", "inspecting", "closing",
                     "opening", "configuring", "resetting", "starting",
                     "enabling"}
    /\ signal \in {"waiting", "requested", "disabled", "releasing", "released",
                   "stopping", "dropping", "done"}
    /\ process \in {"up", "exited", "crashed", "killed", "failed"}
    /\ module_mutex = "callback" <=> callback = "processing"
    /\ module_mutex = "signal" <=> signal = "releasing"

\* Neither cleanShutdown nor reopenCamera destroys or resets the modules while
\* an event callback is in the middle of them.
ModulesStableInCallback == [][callback = "processing" => modules' = modules]_vars

\* The events of a reopened camera, whose clock starts again, never reach
\* modules that still have the cutoffs of the camera before.
EventsOfOneSession ==
    callback = "processing" => modules \in {0, session}

\* From the moment cleanShutdown has released the shared memory none comes back,
\* though a reopening that overlaps it may enable writing again and start a
\* camera; and when the process exits or crashes none is left.  Only a second
\* signal, or a constructor that throws, may leave files behind.
MemoryStaysReleased ==
    shared_memory =>
      /\ signal \notin {"released", "stopping", "dropping", "done"}
      /\ process \notin {"exited", "crashed"}

\* The camera that a service or a reopening uses is there, and so is the module
\* that is adjusted, whatever fails and is unplugged: only cleanShutdown, which
\* waits for neither, takes them away.
UsedUntilShutdown == UsesNoCamera \/ UsesNoModule => shutdown_requested

\* A signal is answered: cleanShutdown and the context's shutdown run to their
\* end, the executor comes back from a reopening, and the process ends, provided
\* that a camera being waited for is plugged in again.
Terminates == shutdown_requested ~> process # "up"

\* A lost camera is found and reopened until events are written again, whatever
\* step of the reopening fails (README.MD: the node reconnects by itself).
Reconnects ==
    \/ []<>(camera = "running" /\ write_enabled)
    \/ <>(shutdown_requested \/ process = "failed")

\* What cleanShutdown is for: when it returns no camera of this node runs.
CameraReleased == signal = "done" => camera # "running"

============================================================================
