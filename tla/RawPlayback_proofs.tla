------------------------ MODULE RawPlayback_proofs ------------------------
(* Proofs about RawPlayback, for every file, interval and rate.               *)
EXTENDS RawPlayback, WellFoundedInduction, TLAPS

----------------------------------------------------------------------------
(* Arithmetic, and the operators on a file.                                   *)

\* The least number of a set of naturals is in it.
LEMMA MinNat ==
    ASSUME NEW S \in SUBSET Nat, S # {}
    PROVE  Min(S) \in S /\ \A t \in S : Min(S) <= t
<1> DEFINE R == {ss \in Nat \X Nat : ss[1] < ss[2]}
<1>1. IsWellFoundedOn(R, Nat)
  BY NatLessThanWellFounded DEF OpToRel
<1>2. PICK x \in S : \A y \in S : ~(<<y, x>> \in R)
  <2> HIDE DEF R
  <2> QED
    BY <1>1, WFMin
<1>3. \A y \in S : x <= y
  <2> SUFFICES ASSUME NEW y \in S, y < x
               PROVE  FALSE
    OBVIOUS
  <2>1. <<y, x>> \in Nat \X Nat /\ <<y, x>>[1] < <<y, x>>[2]
    OBVIOUS
  <2>2. <<y, x>> \in R
    BY <2>1
  <2> QED
    BY <1>2, <2>2
<1> QED
  BY <1>3 DEF Min

\* The greater of two numbers.
LEMMA MaxTwo ==
    ASSUME NEW a \in Int, NEW b \in Int
    PROVE  Max({a, b}) \in {a, b} /\ Max({a, b}) >= a /\ Max({a, b}) >= b
<1>1. \E x \in {a, b} : \A y \in {a, b} : x >= y
  OBVIOUS
<1> QED
  BY <1>1 DEF Max

\* Division, as multiplication.
LEMMA Division ==
    ASSUME NEW a \in Nat, NEW n \in Nat \ {0}
    PROVE  /\ a \div n \in Nat
           /\ n * (a \div n) <= a
           /\ a < n * (a \div n) + n
  OBVIOUS

\* A later number is not in an earlier slice.
LEMMA DivisionMonotonic ==
    ASSUME NEW a \in Nat, NEW b \in Nat, NEW n \in Nat \ {0}, a <= b
    PROVE  a \div n <= b \div n
  OBVIOUS

\* What openRawFile found out.
LEMMA FileFacts ==
    ASSUME file \in Files
    PROVE  /\ file.times \in SUBSET Nat
           /\ file.times # {}
           /\ file.start \in Nat
           /\ file.end \in Nat
           /\ file.known \in BOOLEAN
           /\ file.known => \A t \in file.times : file.start <= t
<1>1. /\ file.times \in SUBSET Nat
      /\ file.times # {}
      /\ file.start \in Nat
      /\ file.end \in Nat
      /\ file.known \in BOOLEAN
  <2>1. file \in [times : (SUBSET (0..MaxTime)) \ {{}}, closed : BOOLEAN,
                  known : BOOLEAN, start : 0..MaxTime, end : 0..MaxTime]
    BY DEF Files
  <2>2. 0..MaxTime \subseteq Nat
    BY BoundAssumption
  <2>3. /\ file.times \in (SUBSET (0..MaxTime)) \ {{}}
        /\ file.known \in BOOLEAN
        /\ file.start \in 0..MaxTime
        /\ file.end \in 0..MaxTime
    BY <2>1
  <2> QED
    BY <2>2, <2>3
<1>2. file.known => file.start <= Min(file.times)
  BY DEF Files
<1>3. Min(file.times) \in file.times /\ \A t \in file.times : Min(file.times) <= t
  BY <1>1, MinNat
<1> QED
  BY <1>1, <1>2, <1>3

\* Where the slice of a time begins.
LEMMA SliceOfFacts ==
    ASSUME NEW t \in Nat
    PROVE  /\ SliceOf(t) \in Nat \ {0}
           /\ SliceEnd(SliceOf(t) - 1) <= t
           /\ t <= SliceEnd(SliceOf(t))
<1>1. CASE file.closed
  <2> DEFINE q == (t + Interval - 1) \div Interval
  <2>1. /\ q \in Nat
        /\ Interval * q <= t + Interval - 1
        /\ t + Interval - 1 < Interval * q + Interval
    <3>1. t + Interval - 1 \in Nat
      BY IntervalAssumption
    <3> QED
      BY <3>1, IntervalAssumption, Division
  <2>2. SliceOf(t) = Max({1, q})
    BY <1>1 DEF SliceOf
  <2>3. Max({1, q}) \in {1, q} /\ Max({1, q}) >= 1 /\ Max({1, q}) >= q
    <3>1. q \in Int
      BY <2>1
    <3> HIDE DEF q
    <3> QED
      BY <3>1, MaxTwo
  <2>4. CASE Max({1, q}) = q
    <3>1. (q - 1) * Interval = Interval * q - Interval
      BY <2>1, IntervalAssumption
    <3>2. q * Interval = Interval * q
      BY <2>1, IntervalAssumption
    <3> HIDE DEF q
    <3> QED
      BY <2>1, <2>2, <2>3, <2>4, <3>1, <3>2, IntervalAssumption DEF SliceEnd
  <2>5. CASE Max({1, q}) = 1
    <3>1. q = 0 \/ q = 1
      BY <2>1, <2>3, <2>5
    <3>2. t <= Interval
      BY <2>1, <3>1, IntervalAssumption
    <3> HIDE DEF q
    <3> QED
      BY <2>2, <2>5, <3>2, IntervalAssumption DEF SliceEnd
  <2> QED
    BY <2>3, <2>4, <2>5
<1>2. CASE ~file.closed
  <2> DEFINE q == t \div Interval
  <2>1. /\ q \in Nat
        /\ Interval * q <= t
        /\ t < Interval * q + Interval
    BY IntervalAssumption, Division
  <2>2. SliceOf(t) = q + 1
    BY <1>2 DEF SliceOf
  <2>3. /\ (q + 1 - 1) * Interval = Interval * q
        /\ (q + 1) * Interval = Interval * q + Interval
    BY <2>1, IntervalAssumption
  <2> HIDE DEF q
  <2> QED
    BY <2>1, <2>2, <2>3, IntervalAssumption DEF SliceEnd
<1> QED
  BY <1>1, <1>2

\* Slices follow each other in time.
LEMMA SliceOfMonotonic ==
    ASSUME NEW s \in Nat, NEW t \in Nat, s <= t
    PROVE  SliceOf(s) <= SliceOf(t)
<1>1. CASE file.closed
  <2> DEFINE p == (s + Interval - 1) \div Interval
             q == (t + Interval - 1) \div Interval
  <2>1. p \in Nat /\ q \in Nat /\ p <= q
    <3>1. /\ s + Interval - 1 \in Nat
          /\ t + Interval - 1 \in Nat
          /\ s + Interval - 1 <= t + Interval - 1
      BY IntervalAssumption
    <3> QED
      BY <3>1, IntervalAssumption, Division, DivisionMonotonic
  <2>2. SliceOf(s) = Max({1, p}) /\ SliceOf(t) = Max({1, q})
    BY <1>1 DEF SliceOf
  <2>3. /\ Max({1, p}) \in {1, p} /\ Max({1, p}) >= 1 /\ Max({1, p}) >= p
        /\ Max({1, q}) \in {1, q} /\ Max({1, q}) >= 1 /\ Max({1, q}) >= q
    <3>1. p \in Int /\ q \in Int
      BY <2>1
    <3> HIDE DEF p, q
    <3>2. Max({1, p}) \in {1, p} /\ Max({1, p}) >= 1 /\ Max({1, p}) >= p
      BY <3>1, MaxTwo
    <3>3. Max({1, q}) \in {1, q} /\ Max({1, q}) >= 1 /\ Max({1, q}) >= q
      BY <3>1, MaxTwo
    <3> QED
      BY <3>2, <3>3
  <2> HIDE DEF p, q
  <2> QED
    BY <2>1, <2>2, <2>3
<1>2. CASE ~file.closed
  <2>1. s \div Interval <= t \div Interval
    BY IntervalAssumption, DivisionMonotonic
  <2>2. s \div Interval \in Nat /\ t \div Interval \in Nat
    BY IntervalAssumption, Division
  <2> QED
    BY <1>2, <2>1, <2>2 DEF SliceOf
<1> QED
  BY <1>1, <1>2

\* Slices end one after the other.
LEMMA SliceEndMonotonic ==
    ASSUME NEW j \in Nat, NEW k \in Nat, j <= k
    PROVE  SliceEnd(j) <= SliceEnd(k)
  BY IntervalAssumption DEF SliceEnd

\* What is before the end of a slice is not of a later slice.
LEMMA BeforeSliceEnd ==
    ASSUME NEW t \in Nat, NEW k \in Nat, t < SliceEnd(k)
    PROVE  SliceOf(t) <= k
<1> SUFFICES ASSUME SliceOf(t) > k
             PROVE  FALSE
  BY SliceOfFacts
<1>1. SliceOf(t) - 1 \in Nat /\ k <= SliceOf(t) - 1
  BY SliceOfFacts
<1>2. SliceEnd(k) <= SliceEnd(SliceOf(t) - 1)
  BY <1>1, SliceEndMonotonic
<1>3. SliceEnd(k) \in Nat /\ SliceEnd(SliceOf(t) - 1) \in Nat
  BY <1>1, IntervalAssumption DEF SliceEnd
<1> QED
  BY <1>2, <1>3, SliceOfFacts

\* The end of a slice, and of its window.
LEMMA WindowEndFacts ==
    ASSUME NEW k \in Nat, playback_start \in Nat
    PROVE  /\ SliceEnd(k) \in Nat
           /\ WindowEnd(k) \in {SliceEnd(k), playback_start}
           /\ WindowEnd(k) >= SliceEnd(k)
           /\ WindowEnd(k) >= playback_start
<1>1. SliceEnd(k) \in Nat
  BY IntervalAssumption DEF SliceEnd
<1> QED
  BY <1>1, MaxTwo DEF WindowEnd

\* The greatest of a bounded set of naturals is in it.
LEMMA MaxNat ==
    ASSUME NEW n \in Nat, NEW S \in SUBSET (0..n), S # {}
    PROVE  Max(S) \in S /\ \A t \in S : Max(S) >= t
<1> DEFINE T == {n - t : t \in S}
<1>1. T \in SUBSET Nat /\ T # {}
  <2>1. \A t \in S : n - t \in Nat
    OBVIOUS
  <2>2. T \subseteq Nat
    BY <2>1
  <2>3. PICK t \in S : TRUE
    OBVIOUS
  <2>4. n - t \in T
    OBVIOUS
  <2> QED
    BY <2>2, <2>4
<1>2. PICK m \in T : \A u \in T : m <= u
  BY <1>1, MinNat
<1>3. PICK x \in S : m = n - x
  BY <1>2
<1>4. \A t \in S : x >= t
  <2> TAKE t \in S
  <2>1. n - x <= n - t
    BY <1>2, <1>3
  <2> QED
    BY <2>1
<1> QED
  BY <1>4 DEF Max

\* The last slice is the one of the last event.
LEMMA LastSliceFacts ==
    ASSUME file \in Files
    PROVE  /\ LastSlice \in Nat \ {0}
           /\ \A t \in file.times : SliceOf(t) <= LastSlice
<1>1. file.times \in SUBSET (0..MaxTime) /\ file.times # {}
  <2>1. file \in [times : (SUBSET (0..MaxTime)) \ {{}}, closed : BOOLEAN,
                  known : BOOLEAN, start : 0..MaxTime, end : 0..MaxTime]
    BY DEF Files
  <2> QED
    BY <2>1
<1>2. Max(file.times) \in file.times /\ \A t \in file.times : Max(file.times) >= t
  BY <1>1, MaxNat, BoundAssumption
<1>3. file.times \in SUBSET Nat
  BY FileFacts
<1>4. \A t \in file.times : SliceOf(t) <= LastSlice
  BY <1>2, <1>3, SliceOfMonotonic DEF LastSlice
<1> QED
  BY <1>2, <1>3, <1>4, SliceOfFacts DEF LastSlice

\* The first time of a slice that has one.
LEMMA SliceOriginFacts ==
    ASSUME file \in Files, NEW k \in Nat, TimesIn(k) # {}
    PROVE  /\ SliceOrigin(k) \in file.times
           /\ SliceOrigin(k) \in Nat
           /\ SliceOf(SliceOrigin(k)) = k
           /\ \A t \in file.times : SliceOf(t) >= k => SliceOrigin(k) <= t
<1>1. TimesIn(k) \in SUBSET Nat /\ TimesIn(k) \subseteq file.times
  BY FileFacts DEF TimesIn
<1>2. /\ SliceOrigin(k) \in TimesIn(k)
      /\ \A t \in TimesIn(k) : SliceOrigin(k) <= t
  BY <1>1, MinNat DEF SliceOrigin
<1>3. SliceOf(SliceOrigin(k)) = k
  BY <1>2 DEF TimesIn
<1>4. ASSUME NEW t \in file.times, SliceOf(t) >= k
      PROVE  SliceOrigin(k) <= t
  <2>1. t \in Nat /\ SliceOrigin(k) \in Nat
    BY <1>1, <1>2, FileFacts
  <2>2. CASE SliceOf(t) = k
    BY <1>2, <2>2 DEF TimesIn
  <2>3. CASE SliceOf(t) # k
    <3>1. ~(t <= SliceOrigin(k))
      BY <1>3, <1>4, <2>1, <2>3, SliceOfMonotonic, SliceOfFacts
    <3> QED
      BY <2>1, <3>1
  <2> QED
    BY <2>2, <2>3
<1> QED
  BY <1>1, <1>2, <1>3, <1>4

\* The bound of the clock.
LEMMA MaxElapsedNat == MaxElapsed \in Nat
<1>1. MaxTime \div Interval + 1 \in Nat
  BY BoundAssumption, IntervalAssumption, Division
<1>2. SliceEnd(MaxTime \div Interval + 1) \in Nat
  BY <1>1, IntervalAssumption DEF SliceEnd
<1> QED
  BY <1>2, RateAssumption, Division DEF MaxElapsed

\* When a slice is released.
LEMMA ReleaseTimeFacts ==
    ASSUME NEW k \in Nat, playback_start \in Nat
    PROVE  /\ ReleaseTime(k) \in Nat
           /\ WindowEnd(k) - playback_start < ReleaseTime(k) * Rate + Rate
<1>1. WindowEnd(k) - playback_start \in Nat
  BY WindowEndFacts
<1>2. /\ ReleaseTime(k) \in Nat
      /\ WindowEnd(k) - playback_start < Rate * ReleaseTime(k) + Rate
  BY <1>1, RateAssumption, Division DEF ReleaseTime
<1>3. Rate * ReleaseTime(k) = ReleaseTime(k) * Rate
  BY <1>2, RateAssumption
<1> QED
  BY <1>2, <1>3

----------------------------------------------------------------------------
(* The inductive invariant.                                                   *)

\* The threads: in which order a shutdown does what.
ShutdownOrder ==
    /\ signal # "waiting" => shutdown_requested
    /\ signal \in {"notify", "join", "release", "shutdown", "done"}
         => ~raw_playback_running
    /\ signal \in {"release", "shutdown", "done"} => playback = "ended"
    /\ ~modules => signal \in {"shutdown", "done"}
    /\ ~context_ok => signal = "done"

\* Where the playback thread is at a slice.
AtSlice == {"test", "tested", "asleep", "hand", "close"}

\* At a slice, there is one and the start is known.
SliceKnown == playback \in AtSlice => slice >= 1 /\ playback_start # -1

\* A slice is handed in when its time has come.
Released == playback = "hand" => elapsed >= ReleaseTime(slice)

\* The start of a pass: what the modules know of it, and while it is not known,
\* that no slice so far had a time.
StartKnown ==
    /\ file.known => raw_file_start = file.start
    /\ file.known /\ playback # "begin" => playback_start # -1
    /\ playback_start # -1 =>
         /\ module_origin = playback_start
         /\ raw_file_start = playback_start
         /\ \A t \in file.times : playback_start <= t
    /\ playback = "next" /\ playback_start = -1 =>
         \A t \in file.times : SliceOf(t) > slice

\* Windows are closed up to the slice before at most.
ClosedBehind ==
    /\ playback \in AtSlice => closed_until <= WindowEnd(slice - 1)
    /\ playback = "next" /\ playback_start # -1 =>
         closed_until <= WindowEnd(slice)

\* What has been handed in and closed so far.
HandedSoFar ==
    write_enabled =>
      /\ playback \in {"test", "tested", "asleep", "hand"} =>
           \A t \in file.times : SliceOf(t) < slice => SliceOf(t) \in handed
      /\ playback = "close" =>
           \A t \in file.times : SliceOf(t) <= slice => SliceOf(t) \in handed
      /\ playback = "next" /\ playback_start # -1 =>
           \A t \in file.times : SliceOf(t) <= slice
                                   => SliceOf(t) \in handed /\ t <= closed_until

IInv ==
    /\ TypeOK
    /\ ShutdownOrder
    /\ SliceKnown
    /\ Released
    /\ StartKnown
    /\ ClosedBehind
    /\ HandedSoFar
    /\ WholeFilePlayed

\* The invariant holds at the start.
LEMMA InitIInv == Init => IInv
<1> SUFFICES ASSUME Init
             PROVE  IInv
  OBVIOUS
<1>1. /\ file.start \in Nat
      /\ file.known \in BOOLEAN
      /\ file.known => \A t \in file.times : file.start <= t
  BY FileFacts DEF Init
<1>2. LastSlice \in Nat \ {0} /\ MaxElapsed \in Nat
  BY LastSliceFacts, MaxElapsedNat DEF Init
<1>3. TypeOK
  <2>1. {raw_playback_running, write_enabled, shutdown_requested, context_ok,
         raw_playback_loop, failed, modules} \subseteq BOOLEAN
    BY DEF Init
  <2>2. {playback_start, module_origin, raw_file_start, closed_until}
          \subseteq Nat \cup {-1}
    BY <1>1 DEF Init
  <2>3. slice \in 0..LastSlice /\ elapsed \in 0..MaxElapsed
    BY <1>2 DEF Init
  <2> QED
    BY <2>1, <2>2, <2>3 DEF Init, TypeOK
<1>4. StartKnown
  BY DEF Init, StartKnown
<1> QED
  BY <1>3, <1>4 DEF Init, IInv, ShutdownOrder, SliceKnown, AtSlice, Released,
                   ClosedBehind, HandedSoFar, WholeFilePlayed

----------------------------------------------------------------------------
(* Steps keep the invariant.                                                  *)

\* A step keeps the order of the shutdown.
LEMMA ShutdownOrderStep ==
    ASSUME IInv, [Next]_vars
    PROVE  ShutdownOrder'
<1> USE DEF IInv
<1>1. CASE BeginPass
  BY <1>1 DEF BeginPass, vars, input, thread, effects, flags,
    ShutdownOrder, TypeOK
<1>2. CASE EndOfFile
  BY <1>2 DEF EndOfFile, vars, input, thread, effects, flags,
    ShutdownOrder, TypeOK
<1>3. CASE NextSlice
  BY <1>3 DEF NextSlice, vars, input, thread, effects, flags,
    ShutdownOrder, TypeOK
<1>4. CASE TestBeforeSleep
  BY <1>4 DEF TestBeforeSleep, vars, input, thread, effects, flags,
    ShutdownOrder, TypeOK
<1>5. CASE Timeout
  BY <1>5 DEF Timeout, vars, input, thread, effects, flags,
    ShutdownOrder, TypeOK
<1>6. CASE HandIn
  BY <1>6 DEF HandIn, vars, input, thread, effects, flags,
    ShutdownOrder, TypeOK
<1>7. CASE CloseWindows
  BY <1>7 DEF CloseWindows, vars, input, thread, effects, flags,
    ShutdownOrder, TypeOK
<1>8. CASE EndPass
  BY <1>8 DEF EndPass, vars, input, thread, effects, flags,
    ShutdownOrder, TypeOK
<1>9. CASE ReadFails
  BY <1>9 DEF ReadFails, vars, input, thread, effects, flags,
    ShutdownOrder, TypeOK
<1>10. CASE WakeUp
  BY <1>10 DEF WakeUp, vars, input, thread, effects, flags,
    ShutdownOrder, TypeOK
<1>11. CASE RequestShutdown
  BY <1>11 DEF RequestShutdown, vars, input, thread, effects, flags,
    ShutdownOrder, TypeOK
<1>12. CASE DisableWriting
  BY <1>12 DEF DisableWriting, vars, input, thread, effects, flags,
    ShutdownOrder, TypeOK
<1>13. CASE ClearRunning
  BY <1>13 DEF ClearRunning, vars, input, thread, effects, flags,
    ShutdownOrder, TypeOK
<1>14. CASE Notify
  BY <1>14 DEF Notify, vars, input, thread, effects, flags,
    ShutdownOrder, TypeOK
<1>15. CASE Join
  BY <1>15 DEF Join, vars, input, thread, effects, flags,
    ShutdownOrder, TypeOK
<1>16. CASE ReleaseModules
  BY <1>16 DEF ReleaseModules, vars, input, thread, effects, flags,
    ShutdownOrder, TypeOK
<1>17. CASE ShutdownContext
  BY <1>17 DEF ShutdownContext, vars, input, thread, effects, flags,
    ShutdownOrder, TypeOK
<1>18. CASE Tick
  BY <1>18 DEF Tick, vars, input, thread, effects, flags,
    ShutdownOrder, TypeOK
<1>19. CASE UNCHANGED vars
  BY <1>19 DEF vars, input, thread, effects, flags, ShutdownOrder, TypeOK
<1>20. CASE FallAsleep
  BY <1>20 DEF FallAsleep, vars, input, thread, effects, flags,
    ShutdownOrder, TypeOK
<1> QED
  BY <1>1, <1>2, <1>3, <1>4, <1>5, <1>6, <1>7, <1>8, <1>9, <1>10,
     <1>11, <1>12, <1>13, <1>14, <1>15, <1>16, <1>17, <1>18, <1>19,
     <1>20
  DEF Next, Playback, Signal

\* NextSlice, if it finds out nothing about the start.
PassesOn ==
    /\ UNCHANGED <<playback_start, effects, elapsed>>
    /\ \/ /\ playback' = "passed"
          /\ ~raw_playback_running \/ ~context_ok
       \/ /\ playback' = "test"
          /\ playback_start # -1
       \/ /\ playback' = "next"
          /\ playback_start = -1
          /\ TimesIn(slice') = {}

\* NextSlice, if it discovers the start.
Discovers ==
    /\ playback_start = -1
    /\ TimesIn(slice') # {}
    /\ playback' = "test"
    /\ playback_start' = SliceOrigin(slice')
    /\ module_origin' = playback_start'
    /\ raw_file_start' = playback_start'
    /\ elapsed' = 0
    /\ closed_until' = -1
    /\ UNCHANGED handed

\* The two kinds of NextSlice.
LEMMA NextSliceCases ==
    ASSUME TypeOK, NextSlice
    PROVE  /\ slice' \in Nat \ {0}
           /\ slice' = slice + 1
           /\ slice \in Nat
           /\ slice < LastSlice
           /\ playback = "next"
           /\ UNCHANGED <<file, raw_playback_loop, raw_playback_running,
                          write_enabled, shutdown_requested, context_ok, failed,
                          modules, signal>>
           /\ PassesOn \/ Discovers
<1>1. slice \in Nat /\ slice' = slice + 1 /\ slice < LastSlice
  BY LastSliceFacts DEF NextSlice, TypeOK
<1>2. PassesOn \/ Discovers
  BY DEF NextSlice, PassesOn, Discovers, effects
<1> QED
  BY <1>1, <1>2 DEF NextSlice, input, flags

\* A step keeps what is known at a slice.
LEMMA SliceKnownStep ==
    ASSUME IInv, [Next]_vars
    PROVE  SliceKnown'
<1> USE DEF IInv
<1>1. CASE BeginPass
  BY <1>1 DEF BeginPass, vars, input, thread, effects, flags,
    SliceKnown, AtSlice, TypeOK
<1>2. CASE EndOfFile
  BY <1>2 DEF EndOfFile, vars, input, thread, effects, flags,
    SliceKnown, AtSlice, TypeOK
<1>3. CASE NextSlice
  <2>1. /\ slice' \in Nat \ {0}
        /\ slice' = slice + 1
        /\ slice \in Nat
        /\ slice < LastSlice
        /\ playback = "next"
        /\ UNCHANGED <<file, raw_playback_loop, raw_playback_running,
                       write_enabled, shutdown_requested, context_ok, failed,
                       modules, signal>>
        /\ PassesOn \/ Discovers
    BY <1>3, NextSliceCases
  <2>2. CASE PassesOn
    BY <2>1, <2>2 DEF PassesOn, SliceKnown, AtSlice
  <2>3. CASE Discovers
    <3>1. /\ SliceOrigin(slice') \in file.times
          /\ SliceOrigin(slice') \in Nat
          /\ SliceOf(SliceOrigin(slice')) = slice'
          /\ \A t \in file.times : SliceOf(t) >= slice'
                                    => SliceOrigin(slice') <= t
      BY <2>1, <2>3, SliceOriginFacts DEF Discovers, TypeOK
    <3> QED
      BY <2>1, <2>3, <3>1 DEF Discovers, SliceKnown, AtSlice
  <2> QED
    BY <2>1, <2>2, <2>3
<1>4. CASE TestBeforeSleep
  BY <1>4 DEF TestBeforeSleep, vars, input, thread, effects, flags,
    SliceKnown, AtSlice, TypeOK
<1>5. CASE Timeout
  BY <1>5 DEF Timeout, vars, input, thread, effects, flags,
    SliceKnown, AtSlice, TypeOK
<1>6. CASE HandIn
  BY <1>6 DEF HandIn, vars, input, thread, effects, flags,
    SliceKnown, AtSlice, TypeOK
<1>7. CASE CloseWindows
  BY <1>7 DEF CloseWindows, vars, input, thread, effects, flags,
    SliceKnown, AtSlice, TypeOK
<1>8. CASE EndPass
  BY <1>8 DEF EndPass, vars, input, thread, effects, flags,
    SliceKnown, AtSlice, TypeOK
<1>9. CASE ReadFails
  BY <1>9 DEF ReadFails, vars, input, thread, effects, flags,
    SliceKnown, AtSlice, TypeOK
<1>10. CASE WakeUp
  BY <1>10 DEF WakeUp, vars, input, thread, effects, flags,
    SliceKnown, AtSlice, TypeOK
<1>11. CASE RequestShutdown
  BY <1>11 DEF RequestShutdown, vars, input, thread, effects, flags,
    SliceKnown, AtSlice, TypeOK
<1>12. CASE DisableWriting
  BY <1>12 DEF DisableWriting, vars, input, thread, effects, flags,
    SliceKnown, AtSlice, TypeOK
<1>13. CASE ClearRunning
  BY <1>13 DEF ClearRunning, vars, input, thread, effects, flags,
    SliceKnown, AtSlice, TypeOK
<1>14. CASE Notify
  BY <1>14 DEF Notify, vars, input, thread, effects, flags,
    SliceKnown, AtSlice, TypeOK
<1>15. CASE Join
  BY <1>15 DEF Join, vars, input, thread, effects, flags,
    SliceKnown, AtSlice, TypeOK
<1>16. CASE ReleaseModules
  BY <1>16 DEF ReleaseModules, vars, input, thread, effects, flags,
    SliceKnown, AtSlice, TypeOK
<1>17. CASE ShutdownContext
  BY <1>17 DEF ShutdownContext, vars, input, thread, effects, flags,
    SliceKnown, AtSlice, TypeOK
<1>18. CASE Tick
  BY <1>18 DEF Tick, vars, input, thread, effects, flags,
    SliceKnown, AtSlice, TypeOK
<1>19. CASE UNCHANGED vars
  BY <1>19 DEF vars, input, thread, effects, flags, SliceKnown, AtSlice, TypeOK
<1>20. CASE FallAsleep
  BY <1>20 DEF FallAsleep, vars, input, thread, effects, flags,
    SliceKnown, AtSlice, TypeOK
<1> QED
  BY <1>1, <1>2, <1>3, <1>4, <1>5, <1>6, <1>7, <1>8, <1>9, <1>10,
     <1>11, <1>12, <1>13, <1>14, <1>15, <1>16, <1>17, <1>18, <1>19,
     <1>20
  DEF Next, Playback, Signal

\* A step does not hand in a slice before its time.
LEMMA ReleasedStep ==
    ASSUME IInv, [Next]_vars
    PROVE  Released'
<1> USE DEF IInv
<1>1. CASE BeginPass
  BY <1>1 DEF BeginPass, vars, input, thread, effects, flags,
    Released, ReleaseTime, WindowEnd
<1>2. CASE EndOfFile
  BY <1>2 DEF EndOfFile, vars, input, thread, effects, flags,
    Released, ReleaseTime, WindowEnd
<1>3. CASE NextSlice
  BY <1>3 DEF NextSlice, vars, input, thread, effects, flags,
    Released, ReleaseTime, WindowEnd
<1>4. CASE TestBeforeSleep
  BY <1>4 DEF TestBeforeSleep, vars, input, thread, effects, flags,
    Released, ReleaseTime, WindowEnd
<1>5. CASE Timeout
  BY <1>5 DEF Timeout, vars, input, thread, effects, flags,
    Released, ReleaseTime, WindowEnd
<1>6. CASE HandIn
  BY <1>6 DEF HandIn, vars, input, thread, effects, flags,
    Released, ReleaseTime, WindowEnd
<1>7. CASE CloseWindows
  BY <1>7 DEF CloseWindows, vars, input, thread, effects, flags,
    Released, ReleaseTime, WindowEnd
<1>8. CASE EndPass
  BY <1>8 DEF EndPass, vars, input, thread, effects, flags,
    Released, ReleaseTime, WindowEnd
<1>9. CASE ReadFails
  BY <1>9 DEF ReadFails, vars, input, thread, effects, flags,
    Released, ReleaseTime, WindowEnd
<1>10. CASE WakeUp
  BY <1>10 DEF WakeUp, vars, input, thread, effects, flags,
    Released, ReleaseTime, WindowEnd
<1>11. CASE RequestShutdown
  BY <1>11 DEF RequestShutdown, vars, input, thread, effects, flags,
    Released, ReleaseTime, WindowEnd
<1>12. CASE DisableWriting
  BY <1>12 DEF DisableWriting, vars, input, thread, effects, flags,
    Released, ReleaseTime, WindowEnd
<1>13. CASE ClearRunning
  BY <1>13 DEF ClearRunning, vars, input, thread, effects, flags,
    Released, ReleaseTime, WindowEnd
<1>14. CASE Notify
  BY <1>14 DEF Notify, vars, input, thread, effects, flags,
    Released, ReleaseTime, WindowEnd
<1>15. CASE Join
  BY <1>15 DEF Join, vars, input, thread, effects, flags,
    Released, ReleaseTime, WindowEnd
<1>16. CASE ReleaseModules
  BY <1>16 DEF ReleaseModules, vars, input, thread, effects, flags,
    Released, ReleaseTime, WindowEnd
<1>17. CASE ShutdownContext
  BY <1>17 DEF ShutdownContext, vars, input, thread, effects, flags,
    Released, ReleaseTime, WindowEnd
<1>18. CASE Tick
  <2>1. playback = "hand" => playback_start \in Nat /\ slice \in Nat
    BY LastSliceFacts DEF SliceKnown, AtSlice, TypeOK
  <2>2. playback = "hand" => ReleaseTime(slice) \in Nat
    BY <2>1, ReleaseTimeFacts
  <2>3. elapsed \in Nat
    BY MaxElapsedNat DEF TypeOK
  <2> QED
    BY <1>18, <2>2, <2>3
    DEF Tick, vars, input, thread, effects, flags, Released, ReleaseTime, WindowEnd
<1>19. CASE UNCHANGED vars
  BY <1>19
  DEF vars, input, thread, effects, flags, Released, ReleaseTime, WindowEnd
<1>20. CASE FallAsleep
  BY <1>20 DEF FallAsleep, vars, input, thread, effects, flags,
    Released, ReleaseTime, WindowEnd
<1> QED
  BY <1>1, <1>2, <1>3, <1>4, <1>5, <1>6, <1>7, <1>8, <1>9, <1>10,
     <1>11, <1>12, <1>13, <1>14, <1>15, <1>16, <1>17, <1>18, <1>19,
     <1>20
  DEF Next, Playback, Signal

\* A step keeps what is known of the start.
LEMMA StartKnownStep ==
    ASSUME IInv, [Next]_vars
    PROVE  StartKnown'
<1> USE DEF IInv
<1>1. CASE BeginPass
  <2>1. file.known => file.start # -1 /\ \A t \in file.times : file.start <= t
    BY FileFacts DEF TypeOK
  <2>2. \A t \in file.times : SliceOf(t) > 0
    BY FileFacts, SliceOfFacts DEF TypeOK
  <2> QED
    BY <1>1, <2>1, <2>2 DEF BeginPass, StartKnown, input, SliceOf
<1>2. CASE EndOfFile
  BY <1>2 DEF EndOfFile, vars, input, thread, effects, flags,
    StartKnown, SliceKnown, AtSlice, TypeOK, SliceOf
<1>3. CASE NextSlice
  <2>1. /\ slice' \in Nat \ {0}
        /\ slice' = slice + 1
        /\ slice \in Nat
        /\ slice < LastSlice
        /\ playback = "next"
        /\ UNCHANGED <<file, raw_playback_loop, raw_playback_running,
                       write_enabled, shutdown_requested, context_ok, failed,
                       modules, signal>>
        /\ PassesOn \/ Discovers
    BY <1>3, NextSliceCases
  <2>2. CASE PassesOn
    <3>1. \A t \in file.times : SliceOf(t) \in Nat
      BY FileFacts, SliceOfFacts DEF TypeOK
    <3>2. \A t \in file.times : SliceOf(t)' = SliceOf(t)
      BY <2>1 DEF SliceOf
    <3>3. CASE playback' = "next"
      <4>1. playback_start = -1 /\ TimesIn(slice') = {}
        BY <2>2, <3>3 DEF PassesOn
      <4>2. \A t \in file.times : SliceOf(t) > slice'
        BY <2>1, <3>1, <4>1 DEF StartKnown, TimesIn
      <4> QED
        BY <2>1, <2>2, <3>2, <4>1, <4>2 DEF PassesOn, StartKnown, effects
    <3>4. CASE playback' # "next"
      BY <2>1, <2>2, <3>4 DEF PassesOn, StartKnown, effects
    <3> QED
      BY <3>3, <3>4
  <2>3. CASE Discovers
    <3>1. /\ SliceOrigin(slice') \in file.times
          /\ SliceOrigin(slice') \in Nat
          /\ SliceOf(SliceOrigin(slice')) = slice'
          /\ \A t \in file.times : SliceOf(t) >= slice'
                                    => SliceOrigin(slice') <= t
      BY <2>1, <2>3, SliceOriginFacts DEF Discovers, TypeOK
    <3>2. \A t \in file.times : SliceOf(t) >= slice'
      <4>1. \A t \in file.times : SliceOf(t) \in Nat
        BY FileFacts, SliceOfFacts DEF TypeOK
      <4> QED
        BY <2>1, <2>3, <4>1 DEF Discovers, StartKnown
    <3>3. ~file.known
      BY <2>1, <2>3 DEF Discovers, StartKnown
    <3> QED
      BY <2>1, <2>3, <3>1, <3>2, <3>3 DEF Discovers, StartKnown
  <2> QED
    BY <2>1, <2>2, <2>3
<1>4. CASE TestBeforeSleep
  BY <1>4 DEF TestBeforeSleep, vars, input, thread, effects, flags,
    StartKnown, SliceKnown, AtSlice, TypeOK, SliceOf
<1>5. CASE Timeout
  BY <1>5 DEF Timeout, vars, input, thread, effects, flags,
    StartKnown, SliceKnown, AtSlice, TypeOK, SliceOf
<1>6. CASE HandIn
  BY <1>6 DEF HandIn, vars, input, thread, effects, flags,
    StartKnown, SliceKnown, AtSlice, TypeOK, SliceOf
<1>7. CASE CloseWindows
  BY <1>7 DEF CloseWindows, vars, input, thread, effects, flags,
    StartKnown, SliceKnown, AtSlice, TypeOK, SliceOf
<1>8. CASE EndPass
  BY <1>8 DEF EndPass, vars, input, thread, effects, flags,
    StartKnown, SliceKnown, AtSlice, TypeOK, SliceOf
<1>9. CASE ReadFails
  BY <1>9 DEF ReadFails, vars, input, thread, effects, flags,
    StartKnown, SliceKnown, AtSlice, TypeOK, SliceOf
<1>10. CASE WakeUp
  BY <1>10 DEF WakeUp, vars, input, thread, effects, flags,
    StartKnown, SliceKnown, AtSlice, TypeOK, SliceOf
<1>11. CASE RequestShutdown
  BY <1>11 DEF RequestShutdown, vars, input, thread, effects, flags,
    StartKnown, SliceKnown, AtSlice, TypeOK, SliceOf
<1>12. CASE DisableWriting
  BY <1>12 DEF DisableWriting, vars, input, thread, effects, flags,
    StartKnown, SliceKnown, AtSlice, TypeOK, SliceOf
<1>13. CASE ClearRunning
  BY <1>13 DEF ClearRunning, vars, input, thread, effects, flags,
    StartKnown, SliceKnown, AtSlice, TypeOK, SliceOf
<1>14. CASE Notify
  BY <1>14 DEF Notify, vars, input, thread, effects, flags,
    StartKnown, SliceKnown, AtSlice, TypeOK, SliceOf
<1>15. CASE Join
  BY <1>15 DEF Join, vars, input, thread, effects, flags,
    StartKnown, SliceKnown, AtSlice, TypeOK, SliceOf
<1>16. CASE ReleaseModules
  BY <1>16 DEF ReleaseModules, vars, input, thread, effects, flags,
    StartKnown, SliceKnown, AtSlice, TypeOK, SliceOf
<1>17. CASE ShutdownContext
  BY <1>17 DEF ShutdownContext, vars, input, thread, effects, flags,
    StartKnown, SliceKnown, AtSlice, TypeOK, SliceOf
<1>18. CASE Tick
  BY <1>18 DEF Tick, vars, input, thread, effects, flags,
    StartKnown, SliceKnown, AtSlice, TypeOK, SliceOf
<1>19. CASE UNCHANGED vars
  BY <1>19
  DEF vars, input, thread, effects, flags, StartKnown, SliceKnown, AtSlice, TypeOK, SliceOf
<1>20. CASE FallAsleep
  BY <1>20 DEF FallAsleep, vars, input, thread, effects, flags,
    StartKnown, SliceKnown, AtSlice, TypeOK, SliceOf
<1> QED
  BY <1>1, <1>2, <1>3, <1>4, <1>5, <1>6, <1>7, <1>8, <1>9, <1>10,
     <1>11, <1>12, <1>13, <1>14, <1>15, <1>16, <1>17, <1>18, <1>19,
     <1>20
  DEF Next, Playback, Signal

\* A step closes no window ahead of its slice.
LEMMA ClosedBehindStep ==
    ASSUME IInv, [Next]_vars
    PROVE  ClosedBehind'
<1> USE DEF IInv
<1>1. CASE BeginPass
  <2>1. file.known => file.start \in Nat
    BY FileFacts DEF TypeOK
  <2>2. file.known => Max({SliceEnd(0), file.start}) >= file.start
    BY <2>1, MaxTwo, IntervalAssumption DEF SliceEnd
  <2>3. file.known => Max({SliceEnd(0), file.start}) >= -1
    BY <2>1, <2>2, MaxTwo, IntervalAssumption DEF SliceEnd
  <2> QED
    BY <1>1, <2>1, <2>3
    DEF BeginPass, ClosedBehind, AtSlice, WindowEnd, SliceEnd
<1>2. CASE EndOfFile
  BY <1>2 DEF EndOfFile, vars, input, thread, effects, flags,
    ClosedBehind, AtSlice, WindowEnd, SliceEnd
<1>3. CASE NextSlice
  <2>1. /\ slice' \in Nat \ {0}
        /\ slice' = slice + 1
        /\ slice \in Nat
        /\ slice < LastSlice
        /\ playback = "next"
        /\ UNCHANGED <<file, raw_playback_loop, raw_playback_running,
                       write_enabled, shutdown_requested, context_ok, failed,
                       modules, signal>>
        /\ PassesOn \/ Discovers
    BY <1>3, NextSliceCases
  <2>2. CASE PassesOn
    <3>1. slice' - 1 = slice
      BY <2>1
    <3> QED
      BY <2>1, <2>2, <3>1
      DEF PassesOn, ClosedBehind, AtSlice, WindowEnd, SliceEnd, effects
  <2>3. CASE Discovers
    <3>1. /\ SliceOrigin(slice') \in file.times
          /\ SliceOrigin(slice') \in Nat
          /\ SliceOf(SliceOrigin(slice')) = slice'
          /\ \A t \in file.times : SliceOf(t) >= slice'
                                    => SliceOrigin(slice') <= t
      BY <2>1, <2>3, SliceOriginFacts DEF Discovers, TypeOK
    <3>2. /\ slice' - 1 \in Nat
          /\ SliceEnd(slice' - 1) \in Nat
      BY <2>1, IntervalAssumption DEF SliceEnd
    <3>3. Max({SliceEnd(slice' - 1), SliceOrigin(slice')})
            \in {SliceEnd(slice' - 1), SliceOrigin(slice')}
      BY <3>1, <3>2, MaxTwo
    <3>4. -1 <= Max({SliceEnd(slice' - 1), SliceOrigin(slice')})
      BY <3>1, <3>2, <3>3
    <3> QED
      BY <2>1, <2>3, <3>4
      DEF Discovers, ClosedBehind, AtSlice, WindowEnd, SliceEnd
  <2> QED
    BY <2>1, <2>2, <2>3
<1>4. CASE TestBeforeSleep
  BY <1>4 DEF TestBeforeSleep, vars, input, thread, effects, flags,
    ClosedBehind, AtSlice, WindowEnd, SliceEnd
<1>5. CASE Timeout
  BY <1>5 DEF Timeout, vars, input, thread, effects, flags,
    ClosedBehind, AtSlice, WindowEnd, SliceEnd
<1>6. CASE HandIn
  BY <1>6 DEF HandIn, vars, input, thread, effects, flags,
    ClosedBehind, AtSlice, WindowEnd, SliceEnd
<1>7. CASE CloseWindows
  <2>1. slice \in Nat /\ slice >= 1 /\ playback_start \in Nat
    BY <1>7, LastSliceFacts DEF CloseWindows, SliceKnown, AtSlice, TypeOK
  <2>2. SliceEnd(slice - 1) <= SliceEnd(slice)
    BY <2>1, IntervalAssumption DEF SliceEnd
  <2>3. WindowEnd(slice - 1) <= WindowEnd(slice)
    <3>1. SliceEnd(slice) \in Int /\ SliceEnd(slice - 1) \in Int
      BY <2>1, IntervalAssumption DEF SliceEnd
    <3>2. /\ WindowEnd(slice) >= SliceEnd(slice)
          /\ WindowEnd(slice) >= playback_start
          /\ WindowEnd(slice) \in Int
      BY <2>1, <3>1, WindowEndFacts
    <3>3. WindowEnd(slice - 1) \in {SliceEnd(slice - 1), playback_start}
      BY <2>1, <3>1, WindowEndFacts
    <3> QED
      BY <2>1, <2>2, <3>1, <3>2, <3>3
  <2>4. CASE write_enabled
    <3>1. closed_until' = WindowEnd(slice) /\ WindowEnd(slice) \in Int
      BY <1>7, <2>1, <2>4, WindowEndFacts DEF CloseWindows
    <3> QED
      BY <1>7, <3>1 DEF CloseWindows, ClosedBehind, AtSlice, WindowEnd, SliceEnd
  <2>5. CASE ~write_enabled
    <3>1. closed_until' = closed_until /\ closed_until <= WindowEnd(slice - 1)
      BY <1>7, <2>5 DEF CloseWindows, ClosedBehind, AtSlice
    <3>2. closed_until <= WindowEnd(slice)
      <4>1. WindowEnd(slice - 1) \in Int /\ WindowEnd(slice) \in Int
        BY <2>1, WindowEndFacts
      <4> QED
        BY <2>3, <3>1, <4>1 DEF TypeOK
    <3> QED
      BY <1>7, <3>1, <3>2
      DEF CloseWindows, ClosedBehind, AtSlice, WindowEnd, SliceEnd
  <2> QED
    BY <2>4, <2>5
<1>8. CASE EndPass
  BY <1>8 DEF EndPass, vars, input, thread, effects, flags,
    ClosedBehind, AtSlice, WindowEnd, SliceEnd
<1>9. CASE ReadFails
  BY <1>9 DEF ReadFails, vars, input, thread, effects, flags,
    ClosedBehind, AtSlice, WindowEnd, SliceEnd
<1>10. CASE WakeUp
  BY <1>10 DEF WakeUp, vars, input, thread, effects, flags,
    ClosedBehind, AtSlice, WindowEnd, SliceEnd
<1>11. CASE RequestShutdown
  BY <1>11 DEF RequestShutdown, vars, input, thread, effects, flags,
    ClosedBehind, AtSlice, WindowEnd, SliceEnd
<1>12. CASE DisableWriting
  BY <1>12 DEF DisableWriting, vars, input, thread, effects, flags,
    ClosedBehind, AtSlice, WindowEnd, SliceEnd
<1>13. CASE ClearRunning
  BY <1>13 DEF ClearRunning, vars, input, thread, effects, flags,
    ClosedBehind, AtSlice, WindowEnd, SliceEnd
<1>14. CASE Notify
  BY <1>14 DEF Notify, vars, input, thread, effects, flags,
    ClosedBehind, AtSlice, WindowEnd, SliceEnd
<1>15. CASE Join
  BY <1>15 DEF Join, vars, input, thread, effects, flags,
    ClosedBehind, AtSlice, WindowEnd, SliceEnd
<1>16. CASE ReleaseModules
  BY <1>16 DEF ReleaseModules, vars, input, thread, effects, flags,
    ClosedBehind, AtSlice, WindowEnd, SliceEnd
<1>17. CASE ShutdownContext
  BY <1>17 DEF ShutdownContext, vars, input, thread, effects, flags,
    ClosedBehind, AtSlice, WindowEnd, SliceEnd
<1>18. CASE Tick
  BY <1>18 DEF Tick, vars, input, thread, effects, flags,
    ClosedBehind, AtSlice, WindowEnd, SliceEnd
<1>19. CASE UNCHANGED vars
  BY <1>19
  DEF vars, input, thread, effects, flags, ClosedBehind, AtSlice, WindowEnd, SliceEnd
<1>20. CASE FallAsleep
  BY <1>20 DEF FallAsleep, vars, input, thread, effects, flags,
    ClosedBehind, AtSlice, WindowEnd, SliceEnd
<1> QED
  BY <1>1, <1>2, <1>3, <1>4, <1>5, <1>6, <1>7, <1>8, <1>9, <1>10,
     <1>11, <1>12, <1>13, <1>14, <1>15, <1>16, <1>17, <1>18, <1>19,
     <1>20
  DEF Next, Playback, Signal

\* A step loses no slice.
LEMMA HandedSoFarStep ==
    ASSUME IInv, [Next]_vars
    PROVE  HandedSoFar'
<1> USE DEF IInv
<1>1. CASE BeginPass
  <2>1. \A t \in file.times : t \in Nat /\ SliceOf(t) \in Nat \ {0}
    BY FileFacts, SliceOfFacts DEF TypeOK
  <2>2. \A t \in file.times : ~(SliceOf(t) <= 0)
    BY <2>1
  <2> QED
    BY <1>1, <2>2 DEF BeginPass, HandedSoFar, input, flags, SliceOf
<1>2. CASE EndOfFile
  BY <1>2 DEF EndOfFile, vars, input, thread, effects, flags,
    HandedSoFar, TypeOK, SliceOf
<1>3. CASE NextSlice
  <2>1. /\ slice' \in Nat \ {0}
        /\ slice' = slice + 1
        /\ slice \in Nat
        /\ slice < LastSlice
        /\ playback = "next"
        /\ UNCHANGED <<file, raw_playback_loop, raw_playback_running,
                       write_enabled, shutdown_requested, context_ok, failed,
                       modules, signal>>
        /\ PassesOn \/ Discovers
    BY <1>3, NextSliceCases
  <2>2. CASE PassesOn
    <3>1. \A t \in file.times : SliceOf(t)' = SliceOf(t)
      BY <2>1 DEF SliceOf
    <3>2. \A t \in file.times : SliceOf(t) < slice' => SliceOf(t) <= slice
      <4>1. \A t \in file.times : SliceOf(t) \in Nat
        BY FileFacts, SliceOfFacts DEF TypeOK
      <4> QED
        BY <2>1, <4>1
    <3> QED
      BY <2>1, <2>2, <3>1, <3>2 DEF PassesOn, HandedSoFar, effects
  <2>3. CASE Discovers
    <3>1. \A t \in file.times : SliceOf(t)' = SliceOf(t)
      BY <2>1 DEF SliceOf
    <3>2. \A t \in file.times : ~(SliceOf(t) < slice')
      <4>1. \A t \in file.times : SliceOf(t) \in Nat
        BY FileFacts, SliceOfFacts DEF TypeOK
      <4> QED
        BY <2>1, <2>3, <4>1 DEF Discovers, StartKnown
    <3> QED
      BY <2>1, <2>3, <3>1, <3>2 DEF Discovers, HandedSoFar
  <2> QED
    BY <2>1, <2>2, <2>3
<1>4. CASE TestBeforeSleep
  BY <1>4 DEF TestBeforeSleep, vars, input, thread, effects, flags,
    HandedSoFar, TypeOK, SliceOf
<1>5. CASE Timeout
  BY <1>5 DEF Timeout, vars, input, thread, effects, flags,
    HandedSoFar, TypeOK, SliceOf
<1>6. CASE HandIn
  <2>1. \A t \in file.times : t \in Nat /\ SliceOf(t) \in Nat \ {0}
    BY FileFacts, SliceOfFacts DEF TypeOK
  <2>2. slice \in Nat
    BY LastSliceFacts DEF TypeOK
  <2>3. \A t \in file.times : SliceOf(t)' = SliceOf(t)
    BY <1>6 DEF HandIn, input, SliceOf
  <2>4. ASSUME write_enabled, NEW t \in file.times, SliceOf(t) <= slice
        PROVE  SliceOf(t) \in handed'
    <3>1. SliceOf(t) < slice \/ SliceOf(t) = slice
      BY <2>1, <2>2, <2>4
    <3> QED
      BY <1>6, <2>4, <3>1 DEF HandIn, HandedSoFar
  <2> QED
    BY <1>6, <2>3, <2>4 DEF HandIn, HandedSoFar, input, flags
<1>7. CASE CloseWindows
  <2>1. \A t \in file.times : t \in Nat /\ SliceOf(t) \in Nat \ {0}
    BY FileFacts, SliceOfFacts DEF TypeOK
  <2>2. slice \in Nat /\ slice >= 1 /\ playback_start \in Nat
    BY <1>7, LastSliceFacts DEF CloseWindows, SliceKnown, AtSlice, TypeOK
  <2>3. \A t \in file.times : SliceOf(t)' = SliceOf(t)
    BY <1>7 DEF CloseWindows, input, SliceOf
  <2>4. ASSUME NEW t \in file.times, SliceOf(t) <= slice
        PROVE  t <= WindowEnd(slice)
    <3>1. t <= SliceEnd(SliceOf(t)) /\ SliceEnd(SliceOf(t)) \in Int
      BY <2>1, SliceOfFacts, IntervalAssumption DEF SliceEnd
    <3>2. SliceEnd(SliceOf(t)) <= SliceEnd(slice)
      BY <2>1, <2>2, <2>4, SliceEndMonotonic
    <3>3. /\ SliceEnd(slice) \in Int
          /\ WindowEnd(slice) \in Int
          /\ SliceEnd(slice) <= WindowEnd(slice)
      BY <2>2, WindowEndFacts
    <3> QED
      BY <2>1, <3>1, <3>2, <3>3
  <2> QED
    BY <1>7, <2>3, <2>4 DEF CloseWindows, HandedSoFar, input, flags
<1>8. CASE EndPass
  BY <1>8 DEF EndPass, vars, input, thread, effects, flags,
    HandedSoFar, TypeOK, SliceOf
<1>9. CASE ReadFails
  BY <1>9 DEF ReadFails, vars, input, thread, effects, flags,
    HandedSoFar, TypeOK, SliceOf
<1>10. CASE WakeUp
  BY <1>10 DEF WakeUp, vars, input, thread, effects, flags,
    HandedSoFar, TypeOK, SliceOf
<1>11. CASE RequestShutdown
  BY <1>11 DEF RequestShutdown, vars, input, thread, effects, flags,
    HandedSoFar, TypeOK, SliceOf
<1>12. CASE DisableWriting
  BY <1>12 DEF DisableWriting, vars, input, thread, effects, flags,
    HandedSoFar, TypeOK, SliceOf
<1>13. CASE ClearRunning
  BY <1>13 DEF ClearRunning, vars, input, thread, effects, flags,
    HandedSoFar, TypeOK, SliceOf
<1>14. CASE Notify
  BY <1>14 DEF Notify, vars, input, thread, effects, flags,
    HandedSoFar, TypeOK, SliceOf
<1>15. CASE Join
  BY <1>15 DEF Join, vars, input, thread, effects, flags,
    HandedSoFar, TypeOK, SliceOf
<1>16. CASE ReleaseModules
  BY <1>16 DEF ReleaseModules, vars, input, thread, effects, flags,
    HandedSoFar, TypeOK, SliceOf
<1>17. CASE ShutdownContext
  BY <1>17 DEF ShutdownContext, vars, input, thread, effects, flags,
    HandedSoFar, TypeOK, SliceOf
<1>18. CASE Tick
  BY <1>18 DEF Tick, vars, input, thread, effects, flags,
    HandedSoFar, TypeOK, SliceOf
<1>19. CASE UNCHANGED vars
  BY <1>19 DEF vars, input, thread, effects, flags, HandedSoFar, TypeOK, SliceOf
<1>20. CASE FallAsleep
  BY <1>20 DEF FallAsleep, vars, input, thread, effects, flags,
    HandedSoFar, TypeOK, SliceOf
<1> QED
  BY <1>1, <1>2, <1>3, <1>4, <1>5, <1>6, <1>7, <1>8, <1>9, <1>10,
     <1>11, <1>12, <1>13, <1>14, <1>15, <1>16, <1>17, <1>18, <1>19,
     <1>20
  DEF Next, Playback, Signal

\* A step ends a pass after the whole file only.
LEMMA WholeFilePlayedStep ==
    ASSUME IInv, [Next]_vars
    PROVE  WholeFilePlayed'
<1> USE DEF IInv
<1>1. CASE BeginPass
  BY <1>1 DEF BeginPass, vars, input, thread, effects, flags,
    WholeFilePlayed, TypeOK, SliceOf
<1>2. CASE EndOfFile
  <2>1. \A t \in file.times : t \in Nat /\ SliceOf(t) \in Nat \ {0}
    BY FileFacts, SliceOfFacts DEF TypeOK
  <2>2. \A t \in file.times : SliceOf(t)' = SliceOf(t)
    BY <1>2 DEF EndOfFile, input, SliceOf
  <2>3. \A t \in file.times : SliceOf(t) <= slice
    BY <1>2, LastSliceFacts DEF EndOfFile, TypeOK
  <2>4. playback_start # -1
    <3>1. PICK t \in file.times : TRUE
      BY FileFacts DEF TypeOK
    <3>2. slice \in Nat /\ ~(SliceOf(t) > slice)
      BY <2>1, <2>3, LastSliceFacts DEF TypeOK
    <3> QED
      BY <1>2, <3>2 DEF EndOfFile, StartKnown
  <2> QED
    BY <1>2, <2>2, <2>3, <2>4
    DEF EndOfFile, WholeFilePlayed, HandedSoFar, input, flags, effects
<1>3. CASE NextSlice
  <2>1. /\ slice' \in Nat \ {0}
        /\ slice' = slice + 1
        /\ slice \in Nat
        /\ slice < LastSlice
        /\ playback = "next"
        /\ UNCHANGED <<file, raw_playback_loop, raw_playback_running,
                       write_enabled, shutdown_requested, context_ok, failed,
                       modules, signal>>
        /\ PassesOn \/ Discovers
    BY <1>3, NextSliceCases
  <2>2. CASE PassesOn
    BY <2>1, <2>2 DEF PassesOn, WholeFilePlayed, ShutdownOrder
  <2>3. CASE Discovers
    BY <2>1, <2>3 DEF Discovers, WholeFilePlayed
  <2> QED
    BY <2>1, <2>2, <2>3
<1>4. CASE TestBeforeSleep
  BY <1>4 DEF TestBeforeSleep, vars, input, thread, effects, flags,
    WholeFilePlayed, TypeOK, SliceOf
<1>5. CASE Timeout
  BY <1>5 DEF Timeout, vars, input, thread, effects, flags,
    WholeFilePlayed, TypeOK, SliceOf
<1>6. CASE HandIn
  BY <1>6 DEF HandIn, vars, input, thread, effects, flags,
    WholeFilePlayed, TypeOK, SliceOf
<1>7. CASE CloseWindows
  <2>1. \A t \in file.times : t \in Nat /\ SliceOf(t) \in Nat \ {0}
    BY FileFacts, SliceOfFacts DEF TypeOK
  <2>2. slice \in Nat /\ slice >= 1 /\ playback_start \in Nat
    BY <1>7, LastSliceFacts DEF CloseWindows, SliceKnown, AtSlice, TypeOK
  <2>3. \A t \in file.times : SliceOf(t)' = SliceOf(t)
    BY <1>7 DEF CloseWindows, input, SliceOf
  <2>4. ASSUME AtEnd, NEW t \in file.times, t < file.end
        PROVE  SliceOf(t) <= slice /\ t <= WindowEnd(slice)
    <3>1. file.end <= WindowEnd(slice) /\ playback_start <= t /\ file.end \in Nat
      BY <2>2, <2>4, FileFacts DEF AtEnd, StartKnown, TypeOK
    <3>2. /\ SliceEnd(slice) \in Nat
          /\ WindowEnd(slice) \in {SliceEnd(slice), playback_start}
      BY <2>2, WindowEndFacts
    <3>3. t < SliceEnd(slice)
      BY <2>1, <2>2, <2>4, <3>1, <3>2
    <3> QED
      BY <2>1, <2>2, <2>4, <3>1, <3>2, <3>3, BeforeSliceEnd
  <2>5. CASE AtEnd
    BY <1>7, <2>3, <2>4, <2>5
    DEF CloseWindows, WholeFilePlayed, HandedSoFar, AtEnd, input, flags
  <2>6. CASE ~AtEnd
    BY <1>7, <2>6 DEF CloseWindows, WholeFilePlayed
  <2> QED
    BY <2>5, <2>6
<1>8. CASE EndPass
  BY <1>8 DEF EndPass, vars, input, thread, effects, flags,
    WholeFilePlayed, TypeOK, SliceOf
<1>9. CASE ReadFails
  BY <1>9 DEF ReadFails, vars, input, thread, effects, flags,
    WholeFilePlayed, TypeOK, SliceOf
<1>10. CASE WakeUp
  BY <1>10 DEF WakeUp, vars, input, thread, effects, flags,
    WholeFilePlayed, TypeOK, SliceOf
<1>11. CASE RequestShutdown
  BY <1>11 DEF RequestShutdown, vars, input, thread, effects, flags,
    WholeFilePlayed, TypeOK, SliceOf
<1>12. CASE DisableWriting
  BY <1>12 DEF DisableWriting, vars, input, thread, effects, flags,
    WholeFilePlayed, TypeOK, SliceOf
<1>13. CASE ClearRunning
  BY <1>13 DEF ClearRunning, vars, input, thread, effects, flags,
    WholeFilePlayed, TypeOK, SliceOf
<1>14. CASE Notify
  BY <1>14 DEF Notify, vars, input, thread, effects, flags,
    WholeFilePlayed, TypeOK, SliceOf
<1>15. CASE Join
  BY <1>15 DEF Join, vars, input, thread, effects, flags,
    WholeFilePlayed, TypeOK, SliceOf
<1>16. CASE ReleaseModules
  BY <1>16 DEF ReleaseModules, vars, input, thread, effects, flags,
    WholeFilePlayed, TypeOK, SliceOf
<1>17. CASE ShutdownContext
  BY <1>17 DEF ShutdownContext, vars, input, thread, effects, flags,
    WholeFilePlayed, TypeOK, SliceOf
<1>18. CASE Tick
  BY <1>18 DEF Tick, vars, input, thread, effects, flags,
    WholeFilePlayed, TypeOK, SliceOf
<1>19. CASE UNCHANGED vars
  BY <1>19
  DEF vars, input, thread, effects, flags, WholeFilePlayed, TypeOK, SliceOf
<1>20. CASE FallAsleep
  BY <1>20 DEF FallAsleep, vars, input, thread, effects, flags,
    WholeFilePlayed, TypeOK, SliceOf
<1> QED
  BY <1>1, <1>2, <1>3, <1>4, <1>5, <1>6, <1>7, <1>8, <1>9, <1>10,
     <1>11, <1>12, <1>13, <1>14, <1>15, <1>16, <1>17, <1>18, <1>19,
     <1>20
  DEF Next, Playback, Signal

\* A step keeps the types.
LEMMA TypeOKStep ==
    ASSUME IInv, [Next]_vars
    PROVE  TypeOK'
<1> USE DEF IInv
<1>1. CASE BeginPass
  <2>1. LastSlice' = LastSlice /\ LastSlice \in Nat \ {0}
    BY <1>1, LastSliceFacts DEF BeginPass, TypeOK, LastSlice, SliceOf, input
  <2>2. MaxElapsed \in Nat /\ (file.known => file.start \in Nat)
    BY MaxElapsedNat, FileFacts DEF TypeOK
  <2>3. /\ slice' \in 0..LastSlice'
        /\ elapsed' \in 0..MaxElapsed
        /\ handed' \subseteq 1..LastSlice'
    BY <1>1, <2>1, <2>2 DEF BeginPass
  <2>4. {playback_start', module_origin', raw_file_start', closed_until'}
          \subseteq Nat \cup {-1}
    BY <1>1, <2>2 DEF BeginPass, TypeOK
  <2> QED
    BY <1>1, <2>3, <2>4 DEF BeginPass, TypeOK, input, flags
<1>2. CASE EndOfFile
  BY <1>2 DEF EndOfFile, vars, input, thread, effects, flags,
    TypeOK, LastSlice, SliceOf
<1>3. CASE NextSlice
  <2>1. /\ slice' \in Nat \ {0}
        /\ slice' = slice + 1
        /\ slice \in Nat
        /\ slice < LastSlice
        /\ playback = "next"
        /\ UNCHANGED <<file, raw_playback_loop, raw_playback_running,
                       write_enabled, shutdown_requested, context_ok, failed,
                       modules, signal>>
        /\ PassesOn \/ Discovers
    BY <1>3, NextSliceCases
  <2>2. CASE PassesOn
    <3>1. slice' \in 0..LastSlice' /\ LastSlice' = LastSlice
      BY <2>1, LastSliceFacts DEF TypeOK, LastSlice, SliceOf
    <3> QED
      BY <2>1, <2>2, <3>1 DEF PassesOn, TypeOK, effects
  <2>3. CASE Discovers
    <3>1. /\ SliceOrigin(slice') \in file.times
          /\ SliceOrigin(slice') \in Nat
          /\ SliceOf(SliceOrigin(slice')) = slice'
          /\ \A t \in file.times : SliceOf(t) >= slice'
                                    => SliceOrigin(slice') <= t
      BY <2>1, <2>3, SliceOriginFacts DEF Discovers, TypeOK
    <3>2. slice' \in 0..LastSlice' /\ LastSlice' = LastSlice
      BY <2>1, LastSliceFacts DEF TypeOK, LastSlice, SliceOf
    <3>3. elapsed' \in 0..MaxElapsed
      BY <2>3, MaxElapsedNat DEF Discovers
    <3>4. {playback_start', module_origin', raw_file_start', closed_until'}
            \subseteq Nat \cup {-1}
      BY <2>3, <3>1 DEF Discovers
    <3> QED
      BY <2>1, <2>3, <3>2, <3>3, <3>4 DEF Discovers, TypeOK
  <2> QED
    BY <2>1, <2>2, <2>3
<1>4. CASE TestBeforeSleep
  BY <1>4 DEF TestBeforeSleep, Stopping, vars, input, effects, flags,
    TypeOK, LastSlice, SliceOf
<1>5. CASE Timeout
  BY <1>5 DEF Timeout, Stopping, vars, input, effects, flags,
    TypeOK, LastSlice, SliceOf
<1>6. CASE HandIn
  <2>1. LastSlice' = LastSlice /\ LastSlice \in Nat \ {0}
    BY <1>6, LastSliceFacts DEF HandIn, TypeOK, LastSlice, SliceOf, input
  <2>2. slice \in 1..LastSlice
    BY <1>6, <2>1 DEF HandIn, SliceKnown, AtSlice, TypeOK
  <2>3. handed' \subseteq 1..LastSlice'
    BY <1>6, <2>1, <2>2 DEF HandIn, TypeOK
  <2> QED
    BY <1>6, <2>1, <2>3 DEF HandIn, TypeOK, input, flags
<1>7. CASE CloseWindows
  <2>1. LastSlice' = LastSlice /\ LastSlice \in Nat \ {0}
    BY <1>7, LastSliceFacts DEF CloseWindows, TypeOK, LastSlice, SliceOf, input
  <2>2. slice \in Nat /\ slice >= 1 /\ playback_start \in Nat
    BY <1>7, LastSliceFacts DEF CloseWindows, SliceKnown, AtSlice, TypeOK
  <2>3. closed_until' \in Nat \cup {-1}
    <3>1. WindowEnd(slice) \in Nat
      BY <2>2, WindowEndFacts
    <3> QED
      BY <1>7, <3>1 DEF CloseWindows, TypeOK
  <2>4. playback' \in {"passed", "next"}
    BY <1>7 DEF CloseWindows
  <2> QED
    BY <1>7, <2>1, <2>3, <2>4 DEF CloseWindows, TypeOK, input, flags
<1>8. CASE EndPass
  BY <1>8 DEF EndPass, vars, input, thread, effects, flags,
    TypeOK, LastSlice, SliceOf
<1>9. CASE ReadFails
  BY <1>9 DEF ReadFails, vars, input, thread, effects, flags,
    TypeOK, LastSlice, SliceOf
<1>10. CASE WakeUp
  BY <1>10 DEF WakeUp, vars, input, thread, effects, flags,
    TypeOK, LastSlice, SliceOf
<1>11. CASE RequestShutdown
  BY <1>11 DEF RequestShutdown, vars, input, thread, effects, flags,
    TypeOK, LastSlice, SliceOf
<1>12. CASE DisableWriting
  BY <1>12 DEF DisableWriting, vars, input, thread, effects, flags,
    TypeOK, LastSlice, SliceOf
<1>13. CASE ClearRunning
  BY <1>13 DEF ClearRunning, vars, input, thread, effects, flags,
    TypeOK, LastSlice, SliceOf
<1>14. CASE Notify
  BY <1>14 DEF Notify, vars, input, thread, effects, flags,
    TypeOK, LastSlice, SliceOf
<1>15. CASE Join
  BY <1>15 DEF Join, vars, input, thread, effects, flags,
    TypeOK, LastSlice, SliceOf
<1>16. CASE ReleaseModules
  BY <1>16 DEF ReleaseModules, vars, input, thread, effects, flags,
    TypeOK, LastSlice, SliceOf
<1>17. CASE ShutdownContext
  BY <1>17 DEF ShutdownContext, vars, input, thread, effects, flags,
    TypeOK, LastSlice, SliceOf
<1>18. CASE Tick
  <2>1. LastSlice' = LastSlice /\ LastSlice \in Nat \ {0}
    BY <1>18, LastSliceFacts DEF Tick, TypeOK, LastSlice, SliceOf, input
  <2>2. elapsed' \in 0..MaxElapsed
    BY <1>18, MaxElapsedNat DEF Tick, TypeOK
  <2> QED
    BY <1>18, <2>1, <2>2 DEF Tick, TypeOK, input, flags, thread, effects
<1>19. CASE UNCHANGED vars
  BY <1>19 DEF vars, input, thread, effects, flags, TypeOK, LastSlice, SliceOf
<1>20. CASE FallAsleep
  BY <1>20 DEF FallAsleep, vars, input, thread, effects, flags,
    TypeOK, LastSlice, SliceOf
<1> QED
  BY <1>1, <1>2, <1>3, <1>4, <1>5, <1>6, <1>7, <1>8, <1>9, <1>10,
     <1>11, <1>12, <1>13, <1>14, <1>15, <1>16, <1>17, <1>18, <1>19,
     <1>20
  DEF Next, Playback, Signal

----------------------------------------------------------------------------
(* The theorems.                                                              *)

\* IInv is an invariant of RawPlayback.
THEOREM Invariance == Spec => []IInv
<1>1. IInv /\ [Next]_vars => IInv'
  BY TypeOKStep, ShutdownOrderStep, SliceKnownStep, ReleasedStep,
     StartKnownStep, ClosedBehindStep, HandedSoFarStep, WholeFilePlayedStep
  DEF IInv
<1> QED
  BY InitIInv, <1>1, PTL DEF Spec

\* The state of the playback is well typed, for every file, interval and rate,
\* and raw_playback_running_ is cleared when rawPlaybackLoop ends by itself.
THEOREM TypeCorrect == Spec => []TypeOK
<1>1. IInv => TypeOK
  BY DEF IInv
<1> QED
  BY Invariance, <1>1, PTL

\* cleanShutdown never releases the modules under the playback thread: it joins
\* the thread first, and a thread that has ended does not start again.
THEOREM NoUseAfterReleaseAlways == Spec => []NoUseAfterRelease
<1>1. IInv => NoUseAfterRelease
  BY DEF IInv, ShutdownOrder, NoUseAfterRelease
<1> QED
  BY Invariance, <1>1, PTL

\* Whenever rawPlaybackLoop hands in a slice, in any pass, the modules have been
\* reset to the start of the pass, the messages name that start, and no window
\* has been closed that the slice has events for.
THEOREM ModulesReadyAlways == Spec => []ModulesReady
<1>1. ASSUME IInv, playback = "hand"
      PROVE  \A t \in TimesIn(slice) : closed_until <= t
  <2>1. slice \in Nat /\ slice >= 1 /\ playback_start \in Nat
    BY <1>1, LastSliceFacts DEF IInv, SliceKnown, AtSlice, TypeOK
  <2>2. closed_until <= WindowEnd(slice - 1)
    BY <1>1 DEF IInv, ClosedBehind, AtSlice
  <2> SUFFICES ASSUME NEW t \in TimesIn(slice)
               PROVE  closed_until <= t
    OBVIOUS
  <2>3. t \in Nat /\ SliceOf(t) = slice /\ playback_start <= t
    <3>1. t \in file.times /\ SliceOf(t) = slice
      BY DEF TimesIn
    <3>2. t \in Nat
      BY <1>1, <3>1, FileFacts DEF IInv, TypeOK
    <3> QED
      BY <1>1, <2>1, <3>1, <3>2 DEF IInv, StartKnown
  <2>4. SliceEnd(slice - 1) <= t
    BY <2>3, SliceOfFacts
  <2>5. /\ SliceEnd(slice - 1) \in Nat
        /\ WindowEnd(slice - 1) \in {SliceEnd(slice - 1), playback_start}
    <3>1. slice - 1 \in Nat
      BY <2>1
    <3> QED
      BY <2>1, <3>1, WindowEndFacts
  <2>6. closed_until \in Int
    BY <1>1 DEF IInv, TypeOK
  <2> QED
    BY <2>1, <2>2, <2>3, <2>4, <2>5, <2>6
<1>2. IInv => ModulesReady
  BY <1>1 DEF IInv, ModulesReady, StartKnown, SliceKnown, AtSlice
<1> QED
  BY Invariance, <1>2, PTL

\* A pass of rawPlaybackLoop that ends by itself has played the whole file.
THEOREM WholeFilePlayedAlways == Spec => []WholeFilePlayed
<1>1. IInv => WholeFilePlayed
  BY DEF IInv
<1> QED
  BY Invariance, <1>1, PTL

\* Playback never runs ahead of raw_playback_rate_.
THEOREM PacedAlways == Spec => Paced
<1>1. ASSUME IInv, HandIn
      PROVE  elapsed * Rate + Rate > WindowEnd(slice) - playback_start
  <2>1. slice \in Nat /\ playback_start \in Nat
    BY <1>1, LastSliceFacts DEF HandIn, IInv, SliceKnown, AtSlice, TypeOK
  <2>2. /\ ReleaseTime(slice) \in Nat
        /\ WindowEnd(slice) - playback_start < ReleaseTime(slice) * Rate + Rate
        /\ WindowEnd(slice) - playback_start \in Int
    BY <2>1, ReleaseTimeFacts, WindowEndFacts
  <2>3. elapsed \in Nat /\ elapsed >= ReleaseTime(slice)
    BY <1>1, MaxElapsedNat DEF HandIn, IInv, Released, TypeOK
  <2>4. /\ ReleaseTime(slice) * Rate <= elapsed * Rate
        /\ ReleaseTime(slice) * Rate \in Int
        /\ elapsed * Rate \in Int
    BY <2>2, <2>3, RateAssumption
  <2> QED
    BY <2>2, <2>4, RateAssumption
<1>2. IInv /\ [Next]_vars =>
        [HandIn => elapsed * Rate + Rate > WindowEnd(slice) - playback_start]_vars
  BY <1>1
<1> QED
  BY Invariance, <1>2, PTL DEF Spec, Paced

============================================================================
