------------------------ MODULE NodeLifecycle_proofs ------------------------
(* Proofs about NodeLifecycle, for any number of camera faults.               *)
EXTENDS NodeLifecycle, TLAPS

\* Where the signal thread is once the modules are gone.
AfterRelease == {"released", "stopping", "dropping", "done"}

\* Where the executor is while it has no camera running.
Reopening == {"closing", "opening", "configuring", "resetting", "starting"}

\* The SDK thread only runs while a camera does.
CallbackNeedsCamera == callback # "idle" => camera = "running"

\* main constructs the node before there is anything to signal.
AloneWhileStarting ==
    /\ executor \in Starting => signal = "waiting"
    /\ executor \in {"constructing", "building"} => modules = 0
    /\ signal # "waiting" <=> shutdown_requested

\* While it reopens, the executor is the one that can start a camera, and so is
\* the constructor.
NoCameraWhileReopening ==
    executor \in Reopening \cup {"constructing", "building", "launching"}
      => camera # "running"

\* The modules follow the camera, but for the time between openCamera and the
\* reset of the modules.
ModulesFollowCamera ==
    modules \in {0, session} \/ executor \in {"configuring", "resetting"}

\* Once released, the modules are gone, and so are their files.
ModulesGone ==
    signal \in AfterRelease => modules = 0 /\ ~shared_memory

\* camera_ is empty where the executor expects it to be, or after cleanShutdown.
EmptyCamera ==
    camera = "none" => executor \in {"constructing", "opening"} \/ signal = "done"

\* The module that is adjusted exists until the release.
AdjustedModule ==
    executor = "adjusting" => modules # 0 \/ signal \in AfterRelease

\* The context is shut down, and the process ends, after the release.
EndsAfterRelease ==
    /\ ~context_ok => signal = "done"
    /\ process \in {"exited", "crashed"} => signal \in AfterRelease

\* The inductive invariant.
IInv ==
    /\ TypeOK
    /\ CallbackNeedsCamera
    /\ AloneWhileStarting
    /\ NoCameraWhileReopening
    /\ ModulesFollowCamera
    /\ ModulesGone
    /\ EmptyCamera
    /\ AdjustedModule
    /\ EndsAfterRelease

USE DEF AfterRelease, Reopening, Starting, CallbackNeedsCamera,
        AloneWhileStarting, NoCameraWhileReopening, ModulesFollowCamera,
        ModulesGone, EmptyCamera, AdjustedModule, EndsAfterRelease, device, flags,
        memory

----------------------------------------------------------------------------
\* The constructor begins with nothing.
LEMMA InitIInv == Init => IInv
<1> SUFFICES ASSUME Init
             PROVE  IInv
  OBVIOUS
<1>1. session \in Nat /\ modules \in Nat /\ faults \in Nat
  BY DEF Init
<1>2. TypeOK
  BY <1>1, Zenon DEF Init, TypeOK
<1>3. CallbackNeedsCamera /\ NoCameraWhileReopening /\ ModulesFollowCamera
  BY DEF Init
<1>4. AloneWhileStarting /\ ModulesGone /\ EmptyCamera /\ AdjustedModule
        /\ EndsAfterRelease
  BY Zenon DEF Init
<1> QED
  BY <1>2, <1>3, <1>4 DEF IInv

\* The constructor: it opens and starts the camera the modules are built for.
LEMMA ConstructionStep == IInv /\ Construction => IInv'
<1> SUFFICES ASSUME IInv, Construction
             PROVE  IInv'
  OBVIOUS
<1>1. CASE OpenFirstCamera
  BY <1>1 DEF OpenFirstCamera, IInv, TypeOK
<1>2. CASE BuildModules
  <2>1. shared_memory' \in BOOLEAN
    BY <1>2, Zenon DEF BuildModules
  <2> QED
    BY <1>2, <2>1 DEF BuildModules, IInv, TypeOK
<1>3. CASE LaunchCamera
  BY <1>3 DEF LaunchCamera, IInv, TypeOK
<1>4. CASE InstallSignalBridge
  BY <1>4 DEF InstallSignalBridge, IInv, TypeOK
<1> QED
  BY <1>1, <1>2, <1>3, <1>4 DEF Construction

\* The SDK thread: it changes the files only while the modules exist.
LEMMA SdkStep ==
  IInv /\ (EventsArrive \/ RuntimeError \/ StopsSilently \/ Plug \/ SdkSteps)
    => IInv'
<1> SUFFICES ASSUME IInv,
                    EventsArrive \/ RuntimeError \/ StopsSilently \/ Plug
                      \/ SdkSteps
             PROVE  IInv'
  OBVIOUS
<1>1. CASE EventsArrive
  BY <1>1 DEF EventsArrive, IInv, TypeOK
<1>2. CASE RuntimeError
  <2>1. faults' \in Nat
    BY <1>2 DEF RuntimeError, IInv, TypeOK
  <2>2. plugged' \in BOOLEAN /\ write_enabled' \in BOOLEAN
    BY <1>2, Zenon DEF RuntimeError
  <2> QED
    BY <1>2, <2>1, <2>2 DEF RuntimeError, IInv, TypeOK
<1>3. CASE Plug
  BY <1>3 DEF Plug, IInv, TypeOK
<1>4. CASE LockModules
  BY <1>4 DEF LockModules, IInv, TypeOK
<1>5. CASE ProcessEvents
  BY <1>5 DEF ProcessEvents, IInv, TypeOK
<1>6. CASE CameraStops
  BY <1>6 DEF CameraStops, IInv, TypeOK
<1>7. CASE StopsSilently
  <2>1. faults' \in Nat
    BY <1>7 DEF StopsSilently, IInv, TypeOK
  <2>2. plugged' \in BOOLEAN
    BY <1>7, Zenon DEF StopsSilently
  <2> QED
    BY <1>7, <2>1, <2>2 DEF StopsSilently, IInv, TypeOK
<1> QED
  BY <1>1, <1>2, <1>3, <1>4, <1>5, <1>6, <1>7 DEF SdkSteps

\* The executor: it never resets modules under a callback, and it starts a
\* camera only for modules that were reset for it.
LEMMA ExecutorStep ==
  IInv /\ (BeginService \/ BeginAdjust \/ ExecutorSteps \/ ResetModules) => IInv'
<1> SUFFICES ASSUME IInv,
                    BeginService \/ BeginAdjust \/ ExecutorSteps \/ ResetModules
             PROVE  IInv'
  OBVIOUS
<1>1. CASE TimerFires
  BY <1>1 DEF TimerFires, IInv, TypeOK
<1>2. CASE FindCameraLost
  <2>1. CASE camera = "stopped"
    BY <1>2, <2>1 DEF FindCameraLost, IInv, TypeOK
  <2>2. CASE camera # "stopped"
    BY <1>2, <2>2 DEF FindCameraLost, IInv, TypeOK
  <2> QED
    BY <2>1, <2>2
<1>3. CASE CloseCamera
  BY <1>3 DEF CloseCamera, IInv, TypeOK
<1>4. CASE OpenCamera
  BY <1>4 DEF OpenCamera, IInv, TypeOK
<1>5. CASE ConfigureCamera
  BY <1>5 DEF ConfigureCamera, IInv, TypeOK
<1>6. CASE ResetModules
  BY <1>6 DEF ResetModules, IInv, TypeOK
<1>7. CASE StartCamera
  BY <1>7 DEF StartCamera, IInv, TypeOK
<1>8. CASE EnableWriting
  BY <1>8 DEF EnableWriting, IInv, TypeOK
<1>9. CASE BeginService
  BY <1>9 DEF BeginService, IInv, TypeOK
<1>10. CASE BeginAdjust
  BY <1>10 DEF BeginAdjust, IInv, TypeOK
<1>11. CASE EndCallback
  BY <1>11 DEF EndCallback, IInv, TypeOK
<1> QED
  BY <1>1, <1>2, <1>3, <1>4, <1>5, <1>6, <1>7, <1>8, <1>9, <1>10, <1>11
     DEF ExecutorSteps

\* The signal thread and main: the modules and their files go first, then the
\* camera, then the context and the process.
LEMMA SignalStep ==
  IInv /\ (RequestShutdown \/ SecondSignal \/ SignalSteps \/ LockForRelease
             \/ StopCamera \/ DropCamera \/ MainReturns \/ Crash)
    => IInv'
<1> SUFFICES ASSUME IInv,
                    RequestShutdown \/ SecondSignal \/ SignalSteps
                      \/ LockForRelease \/ StopCamera \/ DropCamera \/ MainReturns \/ Crash
             PROVE  IInv'
  OBVIOUS
<1>1. CASE RequestShutdown
  BY <1>1 DEF RequestShutdown, IInv, TypeOK
<1>2. CASE DisableWriting
  BY <1>2 DEF DisableWriting, IInv, TypeOK
<1>3. CASE LockForRelease
  BY <1>3 DEF LockForRelease, IInv, TypeOK
<1>4. CASE ReleaseModules
  BY <1>4 DEF ReleaseModules, IInv, TypeOK
<1>5. CASE FindCamera
  BY <1>5 DEF FindCamera, IInv, TypeOK
<1>6. CASE StopCamera
  BY <1>6 DEF StopCamera, IInv, TypeOK
<1>7. CASE DropCamera
  BY <1>7 DEF DropCamera, IInv, TypeOK
<1>8. CASE ShutdownContext
  BY <1>8 DEF ShutdownContext, IInv, TypeOK
<1>9. CASE MainReturns
  BY <1>9 DEF MainReturns, IInv, TypeOK
<1>10. CASE Crash
  BY <1>10 DEF Crash, UsesNoCamera, UsesNoModule, IInv, TypeOK
<1>11. CASE SecondSignal
  BY <1>11 DEF SecondSignal, IInv, TypeOK
<1> QED
  BY <1>1, <1>2, <1>3, <1>4, <1>5, <1>6, <1>7, <1>8, <1>9, <1>10, <1>11
     DEF SignalSteps

\* Every step of the node preserves the invariant.
LEMMA NextStep == IInv /\ [Next]_vars => IInv'
<1> SUFFICES ASSUME IInv, [Next]_vars
             PROVE  IInv'
  OBVIOUS
<1>1. CASE UNCHANGED vars
  BY <1>1 DEF vars, IInv, TypeOK
<1>2. CASE Rest
  BY <1>1, <1>2 DEF Rest
<1> QED
  BY <1>1, <1>2, ConstructionStep, SdkStep, ExecutorStep, SignalStep DEF Next

\* The inductive invariant: who runs while the camera does, what the modules
\* were reset for, and what is gone once cleanShutdown has released it.
THEOREM Invariance == Spec => []IInv
  BY InitIInv, NextStep, PTL DEF Spec

\* The node's state is well typed, and module_mutex_ is held by the thread that
\* is inside the modules.
THEOREM TypeCorrect == Spec => []TypeOK
<1>1. IInv => TypeOK
  BY DEF IInv
<1> QED
  BY <1>1, Invariance, PTL

\* A reopened camera's events never reach modules with the old cutoffs.
THEOREM EventsOfOneSessionAlways == Spec => []EventsOfOneSession
<1>1. IInv => EventsOfOneSession
  BY DEF IInv, EventsOfOneSession
<1> QED
  BY <1>1, Invariance, PTL

\* What cleanShutdown released stays released, whatever reopenCamera does at the
\* same time and however the process ends.
THEOREM MemoryStaysReleasedAlways == Spec => []MemoryStaysReleased
<1>1. IInv => MemoryStaysReleased
  BY DEF IInv, MemoryStaysReleased
<1> QED
  BY <1>1, Invariance, PTL

\* A camera or a module that a callback uses is there until a shutdown.
THEOREM UsedUntilShutdownAlways == Spec => []UsedUntilShutdown
<1>1. IInv => UsedUntilShutdown
  BY DEF IInv, UsedUntilShutdown, UsesNoCamera, UsesNoModule
<1> QED
  BY <1>1, Invariance, PTL

\* The modules are neither reset nor destroyed under a running event callback.
THEOREM ModulesStable == Spec => ModulesStableInCallback
<1>1. IInv /\ [Next]_vars => [callback = "processing" => modules' = modules]_vars
  <2> SUFFICES ASSUME IInv, Next, callback = "processing"
               PROVE  modules' = modules
    OBVIOUS
  <2>1. module_mutex = "callback" /\ signal # "releasing" /\ camera = "running"
    BY DEF IInv, TypeOK
  <2>2. ~BuildModules /\ ~ResetModules /\ ~ReleaseModules
    BY <2>1 DEF BuildModules, ResetModules, ReleaseModules, IInv
  <2> QED
    BY <2>2
       DEF Next, Construction, OpenFirstCamera, LaunchCamera,
           InstallSignalBridge, BeginService, BeginAdjust, EndCallback,
           SecondSignal, EventsArrive, RuntimeError, StopsSilently, Plug,
           SdkSteps, LockModules, ProcessEvents, CameraStops, ExecutorSteps, TimerFires,
           FindCameraLost, CloseCamera, OpenCamera, ConfigureCamera,
           StartCamera, EnableWriting, RequestShutdown, SignalSteps,
           DisableWriting, FindCamera, ShutdownContext, LockForRelease,
           StopCamera, DropCamera, MainReturns, Crash, Rest, vars
<1> QED
  BY <1>1, Invariance, PTL DEF Spec, ModulesStableInCallback
============================================================================
