------------------------ MODULE SharedMemory_proofs ------------------------
(* Proofs about SharedMemory, for any lifetime and any number of messages and *)
(* runs.  The first part holds whichever system calls fail, the second is     *)
(* about runs in which event memory could resize each file it published.      *)
EXTENDS SharedMemory, TLAPS

Entries(queue) == {queue[i] : i \in 1..Len(queue)}

\* No file is stamped by a run that has not started.
FilesOfPastRuns == \A f \in DOMAIN files : files[f][1] <= run

\* The file being written is released with the queue, if it is there at all.
CurrentFileQueued ==
    phase = "up" /\ initialized /\ current_file \in DOMAIN files
      => current_file \in QueuedFiles

\* The inductive invariant of what is released.
ReleaseInv ==
    /\ TypeOK
    /\ FilesOfPastRuns
    /\ CurrentFileQueued
    /\ OwnFilesQueued
    /\ OwnFilesReleased
    /\ NoOrphansAfterShutdown

\* Files are queued in the order of their numbers, and the last one is without
\* a time while it is being written.
QueueNumbered(queue, times, count) ==
    /\ Len(queue) \in {Len(times), Len(times) + 1}
    /\ Len(queue) = Len(times) + 1 => queue[Len(queue)] = count
    /\ \A i \in 1..Len(queue) : queue[i] <= count
    /\ \A i, j \in 1..Len(queue) : i < j => queue[i] < queue[j]

\* Every queued file exists and holds the window of its number.
QueueWritten(dir, queue) ==
    \A i \in 1..Len(queue) :
      queue[i] \in DOMAIN dir /\ dir[queue[i]] = <<run, queue[i]>>

\* Times are queued in order, each for the message that names its file.
TimesOfMessages(queue, times, msgs) ==
    /\ \A i, j \in 1..Len(times) : i <= j => times[i] <= times[j]
    /\ \A i \in 1..Len(times) :
         /\ times[i] <= now
         /\ \E m \in msgs : m.name = queue[i] /\ m.time = times[i]

\* A message announces the window of the number it names, and is queued until
\* its lifetime has passed.
MessagesQueued(queue, times, msgs, count) ==
    \A m \in msgs :
      /\ m.payload = <<run, m.name>>
      /\ m.name < count
      /\ m.time <= now
      /\ \/ now - m.time > Lifetime
         \/ \E i \in 1..Len(times) : queue[i] = m.name /\ times[i] = m.time

\* No two messages name the same file.
MessagesDistinct(msgs) == \A m, l \in msgs : m.name = l.name => m = l

Consistent(dir, queue, times, msgs, count) ==
    /\ QueueNumbered(queue, times, count)
    /\ QueueWritten(dir, queue)
    /\ TimesOfMessages(queue, times, msgs)
    /\ MessagesQueued(queue, times, msgs, count)
    /\ MessagesDistinct(msgs)

\* What is still queued had not expired at any publish so far.
NoneExpiredAtPublish ==
    \A i \in 1..Len(shared_memory_time_queue) : \A m \in sent :
      m.time - shared_memory_time_queue[i] <= Lifetime

\* While the module can publish, the last file queued is the current one.
CurrentFileLast ==
    initialized => /\ Len(shared_memory_queue) =
                        Len(shared_memory_time_queue) + 1
                   /\ current_file = message_count

\* What holds of the queues as long as every file could be resized.
QueueInv ==
    /\ ReleaseInv
    /\ phase = "up" =>
         /\ Consistent(files, shared_memory_queue, shared_memory_time_queue,
                       sent, message_count)
         /\ NoneExpiredAtPublish
         /\ CurrentFileLast

\* The inductive invariant of what is published.
SoundInv == ReleaseInv /\ (Sound => QueueInv)

----------------------------------------------------------------------------
\* What cleanSharedMemory(false) does: it takes the n oldest files, which are
\* past their lifetime, off both queues and out of /dev/shm, and stops at the
\* first that is not.
LEMMA Cleaning ==
  ASSUME NEW dir, NEW queue \in Seq(Nat), NEW times \in Seq(Nat),
         CleanExpired(dir, queue, times)
  PROVE  \E n \in 0..Len(queue) :
           /\ Cleanable(n, queue, times)
           /\ shared_memory_queue' \in Seq(Nat)
           /\ Len(shared_memory_queue') = Len(queue) - n
           /\ \A i \in 1..(Len(queue) - n) :
                shared_memory_queue'[i] = queue[i + n]
           /\ shared_memory_time_queue' \in Seq(Nat)
           /\ Len(shared_memory_time_queue') = Len(times) - n
           /\ \A i \in 1..(Len(times) - n) :
                shared_memory_time_queue'[i] = times[i + n]
           /\ DOMAIN files' = DOMAIN dir \ {queue[i] : i \in 1..n}
           /\ \A f \in DOMAIN files' : files'[f] = dir[f]
<1>1. PICK n \in 0..Len(queue) :
        /\ Cleanable(n, queue, times)
        /\ files' = Without(dir, {queue[i] : i \in 1..n})
        /\ shared_memory_queue' = SubSeq(queue, n + 1, Len(queue))
        /\ shared_memory_time_queue' = SubSeq(times, n + 1, Len(times))
  BY DEF CleanExpired
<1>2. n <= Len(times)
  BY <1>1 DEF Cleanable
<1>3. /\ shared_memory_queue' \in Seq(Nat)
      /\ Len(shared_memory_queue') = Len(queue) - n
      /\ \A i \in 1..(Len(queue) - n) : shared_memory_queue'[i] = queue[i + n]
  BY <1>1
<1>4. /\ shared_memory_time_queue' \in Seq(Nat)
      /\ Len(shared_memory_time_queue') = Len(times) - n
      /\ \A i \in 1..(Len(times) - n) :
           shared_memory_time_queue'[i] = times[i + n]
  BY <1>1, <1>2
<1>5. /\ DOMAIN files' = DOMAIN dir \ {queue[i] : i \in 1..n}
      /\ \A f \in DOMAIN files' : files'[f] = dir[f]
  BY <1>1 DEF Without
<1> QED
  BY <1>1, <1>3, <1>4, <1>5

\* No file is in /dev/shm and no longer queued because of the cleaning.
LEMMA CleaningForgetsNothing ==
  ASSUME NEW dir, NEW queue \in Seq(Nat), NEW times \in Seq(Nat),
         CleanExpired(dir, queue, times)
  PROVE  /\ shared_memory_queue' \in Seq(Nat)
         /\ shared_memory_time_queue' \in Seq(Nat)
         /\ DOMAIN files' \subseteq DOMAIN dir
         /\ \A f \in DOMAIN files' : files'[f] = dir[f]
         /\ \A f \in DOMAIN files' : f \in Entries(queue) => f \in QueuedFiles'
<1>1. PICK n \in 0..Len(queue) :
        /\ shared_memory_queue' \in Seq(Nat)
        /\ Len(shared_memory_queue') = Len(queue) - n
        /\ \A i \in 1..(Len(queue) - n) :
             shared_memory_queue'[i] = queue[i + n]
        /\ shared_memory_time_queue' \in Seq(Nat)
        /\ DOMAIN files' = DOMAIN dir \ {queue[i] : i \in 1..n}
        /\ \A f \in DOMAIN files' : files'[f] = dir[f]
  BY Cleaning
<1>2. ASSUME NEW f \in DOMAIN files', f \in Entries(queue)
      PROVE  f \in QueuedFiles'
  <2>1. PICK j \in 1..Len(queue) : queue[j] = f
    BY <1>2 DEF Entries
  <2>2. j > n
    BY <1>1, <1>2, <2>1
  <2>3. j - n \in 1..(Len(queue) - n) /\ (j - n) + n = j
    BY <2>1, <2>2
  <2>4. shared_memory_queue'[j - n] = f
    BY <1>1, <2>1, <2>3
  <2> QED
    BY <1>1, <2>3, <2>4 DEF QueuedFiles
<1> QED
  BY <1>1, <1>2

LEMMA Appended ==
  ASSUME NEW s \in Seq(Nat), NEW x \in Nat
  PROVE  /\ Append(s, x) \in Seq(Nat)
         /\ Len(Append(s, x)) = Len(s) + 1
         /\ \A i \in 1..Len(s) : Append(s, x)[i] = s[i]
         /\ Append(s, x)[Len(s) + 1] = x
         /\ Entries(Append(s, x)) = Entries(s) \cup {x}
<1>1. /\ Append(s, x) \in Seq(Nat)
      /\ Len(Append(s, x)) = Len(s) + 1
      /\ \A i \in 1..Len(s) : Append(s, x)[i] = s[i]
      /\ Append(s, x)[Len(s) + 1] = x
  OBVIOUS
<1>2. Entries(Append(s, x)) = Entries(s) \cup {x}
  <2>1. \A i : i \in 1..(Len(s) + 1) <=> i \in 1..Len(s) \/ i = Len(s) + 1
    OBVIOUS
  <2> QED
    BY <1>1, <2>1 DEF Entries
<1> QED
  BY <1>1, <1>2

----------------------------------------------------------------------------
\* What is released.

LEMMA InitReleaseInv == Init => ReleaseInv
<1> SUFFICES ASSUME Init
             PROVE  ReleaseInv
  OBVIOUS
<1>1. DOMAIN files = {}
  BY DEF Init
<1>2. TypeOK
  <2>1. {now, run, message_count, current_file} \subseteq Nat
    <3>1. now = 0 /\ run = 0 /\ message_count = 0 /\ current_file = 0
      BY DEF Init
    <3> QED
      BY <3>1
  <2>2. phase \in {"up", "stopped", "down"} /\ initialized \in BOOLEAN
    BY Zenon DEF Init
  <2>3. /\ shared_memory_queue \in Seq(Nat)
        /\ shared_memory_time_queue \in Seq(Nat)
    BY DEF Init
  <2>4. sent \subseteq Message
    BY DEF Init
  <2>5. failed \subseteq FaultKinds
    BY DEF Init
  <2> QED
    BY <1>1, <2>1, <2>2, <2>3, <2>4, <2>5 DEF TypeOK
<1>3. phase = "down"
  BY DEF Init
<1> QED
  BY <1>1, <1>2, <1>3 DEF ReleaseInv, FilesOfPastRuns, CurrentFileQueued,
     OwnFilesQueued, OwnFilesReleased, NoOrphansAfterShutdown

\* The history of failures names kinds of calls only.
LEMMA FailedKinds ==
  ASSUME TypeOK, Next
  PROVE  failed' \subseteq FaultKinds
<1>1. failed \subseteq FaultKinds
  BY DEF TypeOK
<1>2. "create" \in FaultKinds
  BY DEF FaultKinds
<1> QED
  BY <1>1, <1>2, FaultsAssumption
     DEF Next, Start, Publish, PublishWithoutSuccessor, PublishWithoutResize,
         GrowFails, Tick, Shutdown, Exit, Crash, Fails

\* One more message in a well-typed state.
LEMMA AnnounceTypes ==
  ASSUME TypeOK, Announce
  PROVE  message_count' \in Nat /\ sent' \subseteq Message
<1>1. [name |-> current_file, time |-> now, payload |-> <<run, message_count>>]
        \in Message
  BY DEF TypeOK, Message
<1>2. sent \subseteq Message /\ message_count \in Nat
  BY DEF TypeOK
<1>3. sent' \subseteq Message
  BY <1>1, <1>2, Zenon DEF Announce
<1> QED
  BY <1>2, <1>3 DEF Announce

\* Cleaning after a publish preserves the invariant, if every file of this run
\* in dir is in the queue, the one to be written next included.
LEMMA CleaningKeepsReleaseInv ==
  ASSUME ReleaseInv, Running, Announce,
         UNCHANGED <<now, run, phase>>,
         failed' \subseteq FaultKinds,
         current_file' \in Nat, initialized' \in BOOLEAN,
         NEW dir, NEW queue \in Seq(Nat),
         CleanExpired(dir, queue, Stamped),
         DOMAIN dir \subseteq Nat,
         \A f \in DOMAIN dir :
           /\ dir[f] \in Nat \X Nat
           /\ dir[f][1] <= run
           /\ dir[f][1] = run \/ f = current_file' => f \in Entries(queue)
  PROVE  ReleaseInv'
<1>1. Stamped \in Seq(Nat)
  BY DEF ReleaseInv, TypeOK, Stamped
<1>2. /\ shared_memory_queue' \in Seq(Nat)
      /\ shared_memory_time_queue' \in Seq(Nat)
      /\ DOMAIN files' \subseteq DOMAIN dir
      /\ \A f \in DOMAIN files' : files'[f] = dir[f]
      /\ \A f \in DOMAIN files' : f \in Entries(queue) => f \in QueuedFiles'
  BY <1>1, CleaningForgetsNothing
<1>3. message_count' \in Nat /\ sent' \subseteq Message
  BY AnnounceTypes DEF ReleaseInv
<1>4. TypeOK'
  BY <1>2, <1>3 DEF ReleaseInv, TypeOK
<1>5. FilesOfPastRuns' /\ CurrentFileQueued' /\ OwnFilesQueued'
  BY <1>2 DEF FilesOfPastRuns, CurrentFileQueued, OwnFilesQueued
<1>6. OwnFilesReleased' /\ NoOrphansAfterShutdown'
  BY DEF Running, OwnFilesReleased, NoOrphansAfterShutdown
<1> QED
  BY <1>4, <1>5, <1>6 DEF ReleaseInv

\* The three ways a publish can go.
LEMMA PublishKeepsReleaseInv ==
  ASSUME ReleaseInv,
         Publish \/ PublishWithoutSuccessor \/ PublishWithoutResize
  PROVE  ReleaseInv'
<1> USE DEF ReleaseInv
<1>0. /\ Running
      /\ phase = "up"
      /\ failed' \subseteq FaultKinds
      /\ shared_memory_queue \in Seq(Nat)
      /\ QueuedFiles = Entries(shared_memory_queue)
      /\ {run, current_file, message_count, message_count + 1} \subseteq Nat
  <2>1. failed' \subseteq FaultKinds
    BY FailedKinds, Zenon DEF Next
  <2> QED
    BY <2>1 DEF Publish, PublishWithoutSuccessor, PublishWithoutResize,
                Running, TypeOK, QueuedFiles, Entries
<1>1. CASE Publish
  <2> DEFINE next == message_count + 1
             dir == WithFile(next, <<run, next>>)
             queue == Append(shared_memory_queue, next)
  <2>1. queue \in Seq(Nat) /\ Entries(queue) = QueuedFiles \cup {next}
    BY <1>0, Appended
  <2>2. /\ DOMAIN dir = DOMAIN files \cup {next}
        /\ \A f \in DOMAIN dir :
             dir[f] = IF f = next THEN <<run, next>> ELSE files[f]
    BY DEF WithFile
  <2>3. \A f \in DOMAIN dir :
          /\ dir[f] \in Nat \X Nat
          /\ dir[f][1] <= run
          /\ dir[f][1] = run \/ f = next => f \in Entries(queue)
    <3> TAKE f \in DOMAIN dir
    <3>1. CASE f = next
      BY <1>0, <2>1, <2>2, <3>1
    <3>2. CASE f # next
      BY <1>0, <2>1, <2>2, <3>2 DEF TypeOK, FilesOfPastRuns, OwnFilesQueued
    <3> QED
      BY <3>1, <3>2
  <2>4. /\ CleanExpired(dir, queue, Stamped)
        /\ Announce
        /\ current_file' = next
        /\ UNCHANGED <<now, run, phase, initialized>>
    BY <1>1 DEF Publish
  <2>5. DOMAIN dir \subseteq Nat
    BY <1>0, <2>2 DEF TypeOK
  <2>6. current_file' \in Nat /\ initialized' \in BOOLEAN
    BY <1>0, <2>4 DEF TypeOK
  <2> HIDE DEF next, dir, queue
  <2> QED
    BY <1>0, <2>1, <2>3, <2>4, <2>5, <2>6, CleaningKeepsReleaseInv
<1>2. CASE PublishWithoutSuccessor
  <2>1. PICK dir \in {files, Without(files, {message_count + 1})} :
          CleanExpired(dir, shared_memory_queue, Stamped)
    BY <1>2 DEF PublishWithoutSuccessor
  <2>2. /\ DOMAIN dir \subseteq DOMAIN files
        /\ \A f \in DOMAIN dir : dir[f] = files[f]
    BY <2>1 DEF Without
  <2>3. \A f \in DOMAIN dir :
          /\ dir[f] \in Nat \X Nat
          /\ dir[f][1] <= run
          /\ dir[f][1] = run \/ f = current_file
               => f \in Entries(shared_memory_queue)
    BY <1>0, <2>2
       DEF Running, TypeOK, FilesOfPastRuns, OwnFilesQueued,
           CurrentFileQueued
  <2>4. /\ Announce
        /\ initialized' = FALSE
        /\ UNCHANGED <<now, run, phase, current_file>>
    BY <1>2 DEF PublishWithoutSuccessor
  <2>5. DOMAIN dir \subseteq Nat
    BY <2>2 DEF TypeOK
  <2> QED
    BY <1>0, <2>1, <2>3, <2>4, <2>5, CleaningKeepsReleaseInv
<1>3. CASE PublishWithoutResize
  <2> DEFINE dir == IF current_file \in DOMAIN files
                      THEN WithFile(current_file, <<run, message_count + 1>>)
                      ELSE files
  <2>1. /\ DOMAIN dir = DOMAIN files
        /\ \A f \in DOMAIN dir :
             dir[f] = IF f = current_file THEN <<run, message_count + 1>>
                                          ELSE files[f]
    BY DEF WithFile
  <2>2. \A f \in DOMAIN dir :
          /\ dir[f] \in Nat \X Nat
          /\ dir[f][1] <= run
          /\ dir[f][1] = run \/ f = current_file
               => f \in Entries(shared_memory_queue)
    <3> TAKE f \in DOMAIN dir
    <3>1. CASE f = current_file
      BY <1>0, <2>1, <3>1 DEF CurrentFileQueued, Running
    <3>2. CASE f # current_file
      BY <1>0, <2>1, <3>2 DEF TypeOK, FilesOfPastRuns, OwnFilesQueued
    <3> QED
      BY <3>1, <3>2
  <2>3. /\ CleanExpired(dir, shared_memory_queue, Stamped)
        /\ Announce
        /\ UNCHANGED <<now, run, phase, current_file, initialized>>
    BY <1>3 DEF PublishWithoutResize
  <2>4. DOMAIN dir \subseteq Nat
    BY <2>1 DEF TypeOK
  <2>5. current_file' \in Nat /\ initialized' \in BOOLEAN
    BY <1>0, <2>3 DEF TypeOK
  <2> HIDE DEF dir
  <2> QED
    BY <1>0, <2>2, <2>3, <2>4, <2>5, CleaningKeepsReleaseInv
<1> QED
  BY <1>1, <1>2, <1>3

\* A new run starts with one queued file of its own at most.
LEMMA StartKeepsReleaseInv ==
  ASSUME ReleaseInv, Start
  PROVE  ReleaseInv'
<1> USE DEF ReleaseInv
<1>1. /\ phase' = "up" /\ run' = run + 1 /\ now' = now
      /\ message_count' = 0 /\ shared_memory_time_queue' = <<>>
      /\ sent' = {} /\ current_file' = 0
      /\ failed' \subseteq FaultKinds
  BY FailedKinds DEF Start, Next
<1>2. \/ /\ initialized' = TRUE
         /\ shared_memory_queue' = <<0>>
         /\ files' = WithFile(0, <<run + 1, 0>>)
      \/ /\ initialized' = FALSE
         /\ shared_memory_queue' = <<>>
         /\ files' \in {files, Without(files, {0})}
  BY DEF Start
<1>3. CASE shared_memory_queue' = <<0>>
  <2>1. files' = WithFile(0, <<run + 1, 0>>) /\ initialized'
    BY <1>2, <1>3
  <2>2. /\ DOMAIN files' = DOMAIN files \cup {0}
        /\ \A f \in DOMAIN files' :
             files'[f] = IF f = 0 THEN <<run + 1, 0>> ELSE files[f]
    BY <2>1 DEF WithFile
  <2>3. TypeOK'
    <3>1. {now', run', message_count', current_file'} \subseteq Nat
      BY <1>1 DEF TypeOK
    <3>2. /\ DOMAIN files' \subseteq Nat
          /\ \A f \in DOMAIN files' : files'[f] \in Nat \X Nat
      BY <2>2 DEF TypeOK
    <3>3. phase' \in {"up", "stopped", "down"} /\ failed' \subseteq FaultKinds
      BY <1>1, Zenon
    <3>4. /\ initialized' \in BOOLEAN
          /\ shared_memory_queue' \in Seq(Nat)
          /\ shared_memory_time_queue' \in Seq(Nat)
          /\ sent' \subseteq Message
      BY <1>1, <1>3, <2>1
    <3> QED
      BY <3>1, <3>2, <3>3, <3>4 DEF TypeOK
  <2>4. FilesOfPastRuns'
    BY <1>1, <2>2 DEF FilesOfPastRuns, TypeOK
  <2>5. 0 \in QueuedFiles'
    BY <1>3 DEF QueuedFiles
  <2>6. /\ CurrentFileQueued' /\ OwnFilesQueued'
        /\ OwnFilesReleased' /\ NoOrphansAfterShutdown'
    BY <1>1, <2>2, <2>5 DEF CurrentFileQueued, OwnFilesQueued,
       OwnFilesReleased, NoOrphansAfterShutdown, FilesOfPastRuns, TypeOK
  <2> QED
    BY <2>3, <2>4, <2>6
<1>4. CASE shared_memory_queue' = <<>>
  <2>1. files' \in {files, Without(files, {0})} /\ initialized' \in BOOLEAN
    BY <1>2, <1>4
  <2>2. /\ DOMAIN files' \subseteq DOMAIN files
        /\ \A f \in DOMAIN files' : files'[f] = files[f]
    BY <2>1 DEF Without
  <2>3. TypeOK'
    BY <1>1, <1>4, <2>1, <2>2 DEF TypeOK
  <2>4. ~initialized'
    BY <1>2, <1>4
  <2> QED
    BY <1>1, <2>2, <2>3, <2>4 DEF CurrentFileQueued, OwnFilesQueued,
       OwnFilesReleased, NoOrphansAfterShutdown, FilesOfPastRuns, TypeOK
<1> QED
  BY <1>2, <1>3, <1>4

\* Every step of the node, whatever system call fails, preserves the invariant.
LEMMA NextKeepsReleaseInv == ReleaseInv /\ [Next]_vars => ReleaseInv'
<1> SUFFICES ASSUME ReleaseInv, [Next]_vars
             PROVE  ReleaseInv'
  OBVIOUS
<1>0. Next => failed' \subseteq FaultKinds
  BY FailedKinds DEF ReleaseInv
<1> USE DEF ReleaseInv, TypeOK, FilesOfPastRuns, CurrentFileQueued,
        OwnFilesQueued, OwnFilesReleased, NoOrphansAfterShutdown, QueuedFiles
<1>1. CASE Start
  BY <1>1, StartKeepsReleaseInv
<1>2. CASE Publish \/ PublishWithoutSuccessor \/ PublishWithoutResize
  BY <1>2, PublishKeepsReleaseInv
<1>3. CASE GrowFails
  <2>1. failed' \subseteq FaultKinds
    BY <1>0, <1>3, Zenon DEF Next
  <2>2. /\ initialized' = FALSE
        /\ UNCHANGED <<now, files, run, phase, message_count, current_file,
                       shared_memory_queue, shared_memory_time_queue, sent>>
        /\ phase = "up"
    BY <1>3 DEF GrowFails, Running
  <2>3. TypeOK'
    BY <2>1, <2>2
  <2> QED
    BY <2>2, <2>3
<1>4. CASE Tick
  BY <1>4 DEF Tick
<1>5. CASE Shutdown
  <2>1. PICK gone \in {Unlinked, QueuedFiles} :
          /\ files' = Without(files, gone)
          /\ gone = Unlinked \/ "list" \in failed'
    BY <1>5 DEF Shutdown, Fails
  <2>2. /\ DOMAIN files' = DOMAIN files \ gone
        /\ \A f \in DOMAIN files' : files'[f] = files[f]
    BY <2>1 DEF Without
  <2>3. OwnFilesReleased' /\ NoOrphansAfterShutdown'
    BY <1>5, <2>1, <2>2 DEF Shutdown, Unlinked
  <2>4. TypeOK'
    <3>1. /\ DOMAIN files' \subseteq Nat
          /\ \A f \in DOMAIN files' : files'[f] \in Nat \X Nat
      BY <2>2
    <3>2. phase' \in {"up", "stopped", "down"} /\ initialized' \in BOOLEAN
      BY <1>5, Zenon DEF Shutdown
    <3>3. /\ shared_memory_queue' \in Seq(Nat)
          /\ shared_memory_time_queue' \in Seq(Nat)
      BY <1>5 DEF Shutdown
    <3>4. UNCHANGED <<now, run, message_count, current_file, sent>>
      BY <1>5 DEF Shutdown
    <3>5. failed' \subseteq FaultKinds
      BY <1>0, <1>5 DEF Next
    <3> QED
      BY <3>1, <3>2, <3>3, <3>4, <3>5
  <2>5. phase' # "up" /\ FilesOfPastRuns'
    BY <1>5, <2>2 DEF Shutdown
  <2> QED
    BY <2>3, <2>4, <2>5
<1>6. CASE Exit
  BY <1>6 DEF Exit
<1>7. CASE Crash
  BY <1>7 DEF Crash
<1>8. CASE UNCHANGED vars
  BY <1>8 DEF vars
<1> QED
  BY <1>1, <1>2, <1>3, <1>4, <1>5, <1>6, <1>7, <1>8 DEF Next

\* The inductive invariant: the files of this run are those of the queue.
THEOREM ReleaseInvariance == Spec => []ReleaseInv
  BY InitReleaseInv, NextKeepsReleaseInv, PTL DEF Spec

\* The state of a publisher is well typed, whatever system call fails.
THEOREM TypeCorrect == Spec => []TypeOK
<1>1. ReleaseInv => TypeOK
  BY DEF ReleaseInv
<1> QED
  BY <1>1, ReleaseInvariance, PTL

\* While a publisher runs, each file it created and has not unlinked is in its
\* queue, whatever system call failed half way through.
THEOREM OwnFilesQueuedAlways == Spec => []OwnFilesQueued
<1>1. ReleaseInv => OwnFilesQueued
  BY DEF ReleaseInv
<1> QED
  BY <1>1, ReleaseInvariance, PTL

\* A clean shutdown leaves no file of its own run in /dev/shm, whatever system
\* call failed before, and even when /dev/shm cannot be listed.
THEOREM OwnFilesReleasedAlways == Spec => []OwnFilesReleased
<1>1. ReleaseInv => OwnFilesReleased
  BY DEF ReleaseInv
<1> QED
  BY <1>1, ReleaseInvariance, PTL

\* If /dev/shm can be listed, a clean shutdown leaves no file at all, whatever
\* the runs before it left there.
THEOREM NoOrphansAfterShutdownAlways == Spec => []NoOrphansAfterShutdown
<1>1. ReleaseInv => NoOrphansAfterShutdown
  BY DEF ReleaseInv
<1> QED
  BY <1>1, ReleaseInvariance, PTL

----------------------------------------------------------------------------
\* What is published, as long as the current file can be resized.

\* Cleaning after a publish takes the oldest files and times off together.
LEMMA CleaningKeepsConsistent ==
  ASSUME now \in Nat,
         NEW dir, NEW queue \in Seq(Nat), NEW times \in Seq(Nat),
         NEW msgs \in SUBSET Message, NEW count \in Nat,
         Consistent(dir, queue, times, msgs, count),
         times # <<>>,
         times[Len(times)] = now,
         CleanExpired(dir, queue, times)
  PROVE  /\ Consistent(files', shared_memory_queue',
                       shared_memory_time_queue', msgs, count)
         /\ Len(shared_memory_queue') - Len(shared_memory_time_queue') =
              Len(queue) - Len(times)
         /\ \A i \in 1..Len(shared_memory_time_queue') :
              now - shared_memory_time_queue'[i] <= Lifetime
<1> DEFINE q == shared_memory_queue'
           t == shared_memory_time_queue'
<1>1. PICK n \in 0..Len(queue) :
        /\ Cleanable(n, queue, times)
        /\ q \in Seq(Nat)
        /\ Len(q) = Len(queue) - n
        /\ \A i \in 1..(Len(queue) - n) : q[i] = queue[i + n]
        /\ t \in Seq(Nat)
        /\ Len(t) = Len(times) - n
        /\ \A i \in 1..(Len(times) - n) : t[i] = times[i + n]
        /\ DOMAIN files' = DOMAIN dir \ {queue[i] : i \in 1..n}
        /\ \A f \in DOMAIN files' : files'[f] = dir[f]
  BY Cleaning
<1> HIDE DEF q, t
<1>0. /\ Len(queue) \in Nat /\ \A i \in 1..Len(queue) : queue[i] \in Nat
      /\ Len(times) \in Nat /\ \A i \in 1..Len(times) : times[i] \in Nat
  OBVIOUS
<1>2. /\ n \in Nat /\ n <= Len(queue) /\ n <= Len(times)
      /\ \A i \in 1..n : now - times[i] > Lifetime
      /\ n < Len(queue) /\ n < Len(times) => ~(now - times[n + 1] > Lifetime)
  BY <1>0, <1>1 DEF Cleanable, Expired
<1>3. /\ Len(queue) \in {Len(times), Len(times) + 1}
      /\ Len(queue) = Len(times) + 1 => queue[Len(queue)] = count
      /\ \A i \in 1..Len(queue) : queue[i] <= count
      /\ \A i, j \in 1..Len(queue) : i < j => queue[i] < queue[j]
  BY DEF Consistent, QueueNumbered
<1>4. n < Len(times)
  <2>1. Len(times) \in Nat \ {0} /\ now - now = 0
    OBVIOUS
  <2> QED
    BY <1>2, <2>1, LifetimeAssumption
<1>5. \A i \in 1..Len(q) : i + n \in 1..Len(queue) /\ q[i] = queue[i + n]
  BY <1>1, <1>2
<1>6. \A i \in 1..Len(t) : i + n \in 1..Len(times) /\ t[i] = times[i + n]
  <2> TAKE i \in 1..Len(t)
  <2>1. Len(t) = Len(times) - n /\ n \in Nat /\ Len(times) \in Nat
    BY <1>0, <1>1, <1>2
  <2>2. i \in 1..(Len(times) - n)
    BY <2>1
  <2>3. i + n \in 1..Len(times)
    BY <2>1, <2>2
  <2> QED
    BY <1>1, <2>2, <2>3
<1>7. QueueNumbered(q, t, count)
  <2>1. Len(q) \in {Len(t), Len(t) + 1}
    BY <1>1, <1>2, <1>3
  <2>2. Len(q) = Len(t) + 1 => q[Len(q)] = count
    <3>1. ASSUME Len(q) = Len(t) + 1
          PROVE  q[Len(q)] = count
      <4>1. Len(queue) = Len(times) + 1 /\ Len(q) = Len(queue) - n
        BY <1>0, <1>1, <1>2, <3>1
      <4>2. Len(q) \in 1..Len(q) /\ Len(q) + n = Len(queue)
        BY <1>0, <1>2, <1>4, <4>1
      <4> QED
        BY <1>3, <1>5, <4>1, <4>2
    <3> QED
      BY <3>1
  <2>3. \A i \in 1..Len(q) : q[i] <= count
    BY <1>3, <1>5
  <2>4. ASSUME NEW i \in 1..Len(q), NEW j \in 1..Len(q), i < j
        PROVE  q[i] < q[j]
    <3>1. i + n \in 1..Len(queue) /\ j + n \in 1..Len(queue)
      BY <1>5
    <3>2. i + n < j + n
      BY <1>2, <2>4
    <3> QED
      BY <1>3, <1>5, <3>1, <3>2
  <2> QED
    BY <2>1, <2>2, <2>3, <2>4 DEF QueueNumbered
<1>8. QueueWritten(files', q)
  <2> SUFFICES ASSUME NEW i \in 1..Len(q)
               PROVE  q[i] \in DOMAIN files' /\ files'[q[i]] = <<run, q[i]>>
    BY DEF QueueWritten
  <2>1. queue[i + n] \in DOMAIN dir /\ dir[queue[i + n]] = <<run, queue[i + n]>>
    BY <1>5 DEF Consistent, QueueWritten
  <2>2. \A j \in 1..n : j \in 1..Len(queue) /\ j < i + n
    <3>1. i \in Nat \ {0}
      BY <1>1
    <3> QED
      BY <1>0, <1>2, <3>1
  <2>3. i + n \in 1..Len(queue) /\ queue[i + n] \in Nat
    BY <1>5
  <2>4. \A j \in 1..n : queue[j] < queue[i + n] /\ queue[j] \in Nat
    BY <1>0, <1>3, <2>2, <2>3
  <2>5. queue[i + n] \notin {queue[j] : j \in 1..n}
    BY <2>3, <2>4
  <2> QED
    BY <1>1, <1>5, <2>1, <2>5
<1>9. TimesOfMessages(q, t, msgs)
  <2>1. ASSUME NEW i \in 1..Len(t), NEW j \in 1..Len(t), i <= j
        PROVE  t[i] <= t[j]
    <3>1. i + n \in 1..Len(times) /\ j + n \in 1..Len(times)
      BY <1>6
    <3>2. i + n <= j + n
      BY <1>2, <2>1
    <3> QED
      BY <1>6, <3>1, <3>2 DEF Consistent, TimesOfMessages
  <2>2. \A i \in 1..Len(t) :
          t[i] <= now /\ \E m \in msgs : m.name = q[i] /\ m.time = t[i]
    <3> TAKE i \in 1..Len(t)
    <3>1. /\ times[i + n] <= now
          /\ \E m \in msgs : m.name = queue[i + n] /\ m.time = times[i + n]
      BY <1>6 DEF Consistent, TimesOfMessages
    <3>2. i \in 1..Len(q)
      BY <1>1, <1>2, <1>3
    <3> QED
      BY <1>5, <1>6, <3>1, <3>2
  <2> QED
    BY <2>1, <2>2 DEF TimesOfMessages
<1>10. MessagesQueued(q, t, msgs, count)
  <2> SUFFICES ASSUME NEW m \in msgs,
                      ~(now - m.time > Lifetime)
               PROVE  \E i \in 1..Len(t) : q[i] = m.name /\ t[i] = m.time
    BY DEF Consistent, MessagesQueued
  <2>1. PICK i \in 1..Len(times) : queue[i] = m.name /\ times[i] = m.time
    BY DEF Consistent, MessagesQueued
  <2>2. i > n
    BY <1>2, <2>1
  <2>3. i - n \in 1..Len(t) /\ i - n \in 1..Len(q) /\ (i - n) + n = i
    <3>1. Len(t) = Len(times) - n /\ Len(q) = Len(queue) - n
      BY <1>1
    <3>2. i - n \in 1..(Len(times) - n) /\ (i - n) + n = i
      BY <1>0, <1>2, <2>2
    <3>3. i - n \in 1..(Len(queue) - n)
      BY <1>0, <1>2, <1>3, <3>2
    <3> QED
      BY <3>1, <3>2, <3>3
  <2>4. q[i - n] = m.name /\ t[i - n] = m.time
    BY <1>5, <1>6, <2>1, <2>3
  <2> QED
    BY <2>3, <2>4
<1>11. \A i \in 1..Len(t) : now - t[i] <= Lifetime
  <2> TAKE i \in 1..Len(t)
  <2>1. n + 1 \in 1..Len(times) /\ n + 1 <= i + n /\ i + n \in 1..Len(times)
    BY <1>1, <1>2, <1>4
  <2>2. times[n + 1] <= times[i + n]
    BY <2>1 DEF Consistent, TimesOfMessages
  <2>3. times[n + 1] \in Nat /\ times[i + n] \in Nat /\ t[i] = times[i + n]
    BY <1>0, <1>6, <2>1
  <2>4. n < Len(queue)
    BY <1>0, <1>2, <1>3, <1>4
  <2>5. ~(now - times[n + 1] > Lifetime)
    BY <1>2, <1>4, <2>4
  <2>6. \A a, b \in Nat : ~(now - a > Lifetime) /\ a <= b => now - b <= Lifetime
    BY LifetimeAssumption
  <2> QED
    BY <2>2, <2>3, <2>5, <2>6
<1>12. Len(q) - Len(t) = Len(queue) - Len(times)
  BY <1>1, <1>2
<1> QED
  BY <1>7, <1>8, <1>9, <1>10, <1>11, <1>12 DEF Consistent, q, t

\* The message of a publish is queued with its file, behind all the others.
LEMMA AnnouncingKeepsConsistent ==
  ASSUME QueueInv, Running, Announce,
         NEW dir, NEW queue \in Seq(Nat),
         Len(queue) \in {Len(shared_memory_queue), Len(shared_memory_queue) + 1},
         \A i \in 1..Len(shared_memory_queue) :
           queue[i] = shared_memory_queue[i],
         Len(queue) = Len(shared_memory_queue) + 1
           => queue[Len(queue)] = message_count + 1,
         QueueWritten(dir, queue)
  PROVE  /\ Stamped \in Seq(Nat)
         /\ Len(Stamped) = Len(shared_memory_queue)
         /\ Stamped # <<>>
         /\ Stamped[Len(Stamped)] = now
         /\ message_count' \in Nat
         /\ sent' \in SUBSET Message
         /\ Consistent(dir, queue, Stamped, sent', message_count')
<1> DEFINE q == shared_memory_queue
           t == shared_memory_time_queue
           L == Len(q)
<1>1. /\ now \in Nat /\ message_count \in Nat /\ current_file \in Nat
      /\ q \in Seq(Nat) /\ t \in Seq(Nat) /\ sent \subseteq Message
  BY DEF QueueInv, ReleaseInv, TypeOK
<1>2. /\ Consistent(files, q, t, sent, message_count)
      /\ Len(q) = Len(t) + 1
      /\ current_file = message_count
  BY DEF QueueInv, Running, CurrentFileLast
<1>3. /\ Stamped \in Seq(Nat)
      /\ Len(Stamped) = Len(t) + 1
      /\ \A i \in 1..Len(t) : Stamped[i] = t[i]
      /\ Stamped[Len(t) + 1] = now
  BY <1>1, Appended DEF Stamped
<1>4. /\ L \in Nat \ {0} /\ Len(t) = L - 1 /\ L = Len(Stamped)
      /\ \A i \in 1..L : i \in 1..Len(t) \/ i = L
      /\ \A i \in 1..Len(t) : i \in 1..L
      /\ Stamped[L] = now
  BY <1>1, <1>2, <1>3
<1>5. /\ \A i \in 1..L : q[i] <= message_count /\ q[i] \in Nat
      /\ q[L] = message_count
      /\ \A i, j \in 1..L : i < j => q[i] < q[j]
  BY <1>1, <1>2 DEF Consistent, QueueNumbered
<1>6. message_count' = message_count + 1
  BY DEF Announce
<1> DEFINE m0 == [name |-> current_file, time |-> now,
                  payload |-> <<run, message_count>>]
<1>7. sent' = sent \cup {m0}
  BY DEF Announce
<1>8. message_count' \in Nat /\ sent' \in SUBSET Message
  BY AnnounceTypes DEF QueueInv, ReleaseInv
<1>9. m0.name = message_count /\ m0.time = now
      /\ m0.payload = <<run, message_count>>
  BY <1>2
<1>10. \A m \in sent : m.name \in Nat /\ m.time \in Nat
  BY <1>1 DEF Message
<1> HIDE DEF m0, q, t, L
<1>11. QueueNumbered(queue, Stamped, message_count')
  <2>1. Len(queue) \in {L, L + 1}
    BY DEF q, L
  <2>2. \A i \in 1..L : queue[i] = q[i]
    BY DEF q, L
  <2>3. Len(queue) = L + 1 => queue[L + 1] = message_count + 1
    BY DEF q, L
  <2>4. \A i \in 1..Len(queue) :
          \/ i \in 1..L
          \/ i = L + 1 /\ Len(queue) = L + 1
    BY <1>4, <2>1
  <2>5. \A i \in 1..Len(queue) : queue[i] <= message_count + 1
    BY <1>1, <1>5, <2>2, <2>3, <2>4
  <2>6. ASSUME NEW i \in 1..Len(queue), NEW j \in 1..Len(queue), i < j
        PROVE  queue[i] < queue[j]
    <3> DEFINE N == Len(queue)
    <3>0. L \in Nat /\ (N = L \/ N = L + 1) /\ i \in 1..N /\ j \in 1..N
      BY <1>4, <2>1
    <3> HIDE DEF N
    <3>1. i \in 1..L
      BY <2>6, <3>0
    <3>2. CASE j \in 1..L
      BY <1>5, <2>2, <2>6, <3>1, <3>2
    <3>3. CASE j = L + 1 /\ Len(queue) = L + 1
      <4>1. queue[i] <= message_count /\ queue[i] \in Nat
        BY <1>5, <2>2, <3>1
      <4>2. queue[j] = message_count + 1
        BY <2>3, <3>3
      <4> QED
        BY <1>1, <4>1, <4>2
    <3> QED
      BY <2>4, <3>2, <3>3
  <2> QED
    BY <1>4, <1>6, <2>1, <2>3, <2>5, <2>6 DEF QueueNumbered
<1>12. TimesOfMessages(queue, Stamped, sent')
  <2>1. /\ \A i, j \in 1..Len(t) : i <= j => t[i] <= t[j]
        /\ \A i \in 1..Len(t) :
             /\ t[i] <= now
             /\ \E m \in sent : m.name = q[i] /\ m.time = t[i]
    BY <1>2 DEF Consistent, TimesOfMessages
  <2>2. ASSUME NEW i \in 1..L, NEW j \in 1..L, i <= j
        PROVE  Stamped[i] <= Stamped[j]
    <3>1. CASE j \in 1..Len(t)
      <4>1. i \in 1..Len(t)
        BY <1>4, <2>2, <3>1
      <4> QED
        BY <1>3, <2>1, <2>2, <3>1, <4>1
    <3>2. CASE j = L
      <4>1. i \in 1..Len(t) => Stamped[i] <= now
        BY <1>3, <2>1
      <4>2. i = L => Stamped[i] <= now
        BY <1>1, <1>4
      <4> QED
        BY <1>4, <3>2, <4>1, <4>2
    <3> QED
      BY <1>4, <3>1, <3>2
  <2>3. ASSUME NEW i \in 1..L
        PROVE  /\ Stamped[i] <= now
               /\ \E m \in sent' : m.name = queue[i] /\ m.time = Stamped[i]
    <3>0. queue[i] = q[i]
      BY DEF q, L
    <3>1. CASE i \in 1..Len(t)
      BY <1>3, <1>7, <2>1, <3>0, <3>1
    <3>2. CASE i = L
      <4>1. Stamped[i] = now /\ Stamped[i] <= now
        BY <1>1, <1>4, <3>2
      <4>2. queue[i] = message_count
        BY <1>5, <3>0, <3>2
      <4>3. m0 \in sent' /\ m0.name = queue[i] /\ m0.time = Stamped[i]
        BY <1>7, <1>9, <4>1, <4>2
      <4> QED
        BY <4>1, <4>3
    <3> QED
      BY <1>4, <3>1, <3>2
  <2> QED
    BY <1>4, <2>2, <2>3 DEF TimesOfMessages
<1>13. MessagesQueued(queue, Stamped, sent', message_count')
  <2> SUFFICES ASSUME NEW m \in sent'
               PROVE  /\ m.payload = <<run, m.name>>
                      /\ m.name < message_count + 1
                      /\ m.time <= now
                      /\ \/ now - m.time > Lifetime
                         \/ \E i \in 1..L :
                              queue[i] = m.name /\ Stamped[i] = m.time
    BY <1>4, <1>6 DEF MessagesQueued
  <2>0. \A i \in 1..L : queue[i] = q[i]
    BY DEF q, L
  <2>1. CASE m \in sent
    <3>1. /\ m.payload = <<run, m.name>>
          /\ m.name < message_count
          /\ m.time <= now
          /\ \/ now - m.time > Lifetime
             \/ \E i \in 1..Len(t) : q[i] = m.name /\ t[i] = m.time
      BY <1>2, <2>1 DEF Consistent, MessagesQueued
    <3>2. m.name < message_count + 1
      BY <1>1, <1>10, <2>1, <3>1
    <3> QED
      BY <1>3, <1>4, <2>0, <3>1, <3>2
  <2>2. CASE m = m0
    <3>1. queue[L] = m.name /\ Stamped[L] = m.time
      <4>1. L \in 1..L
        BY <1>4
      <4> QED
        BY <1>4, <1>5, <1>9, <2>0, <2>2, <4>1
    <3>2. m.name < message_count + 1 /\ m.time <= now
      BY <1>1, <1>9, <2>2
    <3> QED
      BY <1>4, <1>9, <2>2, <3>1, <3>2
  <2> QED
    BY <1>7, <2>1, <2>2
<1>14. MessagesDistinct(sent')
  <2>1. \A m \in sent : m.name < message_count
    BY <1>2 DEF Consistent, MessagesQueued
  <2>2. \A m \in sent : m.name # m0.name
    BY <1>1, <1>9, <1>10, <2>1
  <2> QED
    BY <1>2, <1>7, <2>2 DEF Consistent, MessagesDistinct
<1>15. Stamped # <<>>
  BY <1>3, <1>4
<1> QED
  BY <1>3, <1>4, <1>8, <1>11, <1>12, <1>13, <1>14, <1>15
     DEF Consistent, q, t, L

\* A publish preserves the invariant: the message is queued, then the expired
\* files are cleaned.
LEMMA PublishedKeepsQueueInv ==
  ASSUME QueueInv, ReleaseInv', Running, Announce,
         UNCHANGED <<now, run, phase>>,
         NEW dir, NEW queue \in Seq(Nat),
         Len(queue) \in {Len(shared_memory_queue), Len(shared_memory_queue) + 1},
         \A i \in 1..Len(shared_memory_queue) :
           queue[i] = shared_memory_queue[i],
         Len(queue) = Len(shared_memory_queue) + 1
           => queue[Len(queue)] = message_count + 1,
         QueueWritten(dir, queue),
         CleanExpired(dir, queue, Stamped),
         initialized' => /\ Len(queue) = Len(shared_memory_queue) + 1
                         /\ current_file' = message_count + 1
  PROVE  QueueInv'
<1>1. /\ Stamped \in Seq(Nat)
      /\ Len(Stamped) = Len(shared_memory_queue)
      /\ Stamped # <<>>
      /\ Stamped[Len(Stamped)] = now
      /\ message_count' \in Nat
      /\ sent' \in SUBSET Message
      /\ Consistent(dir, queue, Stamped, sent', message_count')
  BY AnnouncingKeepsConsistent
<1>2. now \in Nat /\ message_count' = message_count + 1
  BY DEF QueueInv, ReleaseInv, TypeOK, Announce
<1>3. /\ Consistent(files', shared_memory_queue', shared_memory_time_queue',
                    sent', message_count')
      /\ Len(shared_memory_queue') - Len(shared_memory_time_queue') =
           Len(queue) - Len(Stamped)
      /\ \A i \in 1..Len(shared_memory_time_queue') :
           now - shared_memory_time_queue'[i] <= Lifetime
  BY <1>1, <1>2, CleaningKeepsConsistent
<1>4. Consistent(files, shared_memory_queue, shared_memory_time_queue, sent,
                 message_count)'
  BY <1>3 DEF Consistent, QueueNumbered, QueueWritten, TimesOfMessages,
              MessagesQueued, MessagesDistinct
<1>5. /\ shared_memory_queue' \in Seq(Nat)
      /\ shared_memory_time_queue' \in Seq(Nat)
  BY DEF ReleaseInv, TypeOK
<1>6. NoneExpiredAtPublish'
  <2> SUFFICES ASSUME NEW i \in 1..Len(shared_memory_time_queue'),
                      NEW m \in sent'
               PROVE  m.time - shared_memory_time_queue'[i] <= Lifetime
    BY DEF NoneExpiredAtPublish
  <2>1. m.time <= now
    BY <1>3 DEF Consistent, MessagesQueued
  <2>2. m.time \in Nat
    BY <1>1 DEF Message
  <2>3. shared_memory_time_queue'[i] \in Nat
    BY <1>5
  <2>4. \A a, b, c \in Nat : a <= b /\ b - c <= Lifetime => a - c <= Lifetime
    BY LifetimeAssumption
  <2> QED
    BY <1>2, <1>3, <2>1, <2>2, <2>3, <2>4
<1>7. CurrentFileLast'
  <2> SUFFICES ASSUME initialized'
               PROVE  /\ Len(shared_memory_queue') =
                           Len(shared_memory_time_queue') + 1
                      /\ current_file' = message_count'
    BY DEF CurrentFileLast
  <2>1. Len(queue) - Len(Stamped) = 1
    BY <1>1
  <2> QED
    BY <1>2, <1>3, <1>5, <2>1
<1> QED
  BY <1>4, <1>6, <1>7 DEF QueueInv

\* The two ways a publish can go when the file it names can be resized.
LEMMA PublishKeepsQueueInv ==
  ASSUME QueueInv, ReleaseInv', Publish \/ PublishWithoutSuccessor
  PROVE  QueueInv'
<1> DEFINE q == shared_memory_queue
           next == message_count + 1
<1>1. /\ Running /\ phase = "up"
      /\ q \in Seq(Nat) /\ message_count \in Nat /\ next \in Nat
      /\ QueueNumbered(q, shared_memory_time_queue, message_count)
      /\ QueueWritten(files, q)
  BY DEF Publish, PublishWithoutSuccessor, Running, QueueInv, ReleaseInv,
         TypeOK, Consistent
<1>2. \A i \in 1..Len(q) : q[i] \in Nat /\ q[i] # next
  BY <1>1 DEF QueueNumbered
<1>3. CASE Publish
  <2> DEFINE dir == WithFile(next, <<run, next>>)
             queue == Append(q, next)
  <2>1. /\ queue \in Seq(Nat)
        /\ Len(queue) = Len(q) + 1
        /\ \A i \in 1..Len(q) : queue[i] = q[i]
        /\ queue[Len(q) + 1] = next
    BY <1>1, Appended
  <2>2. /\ DOMAIN dir = DOMAIN files \cup {next}
        /\ \A f \in DOMAIN dir :
             dir[f] = IF f = next THEN <<run, next>> ELSE files[f]
    BY DEF WithFile
  <2>3. /\ CleanExpired(dir, queue, Stamped)
        /\ Announce
        /\ current_file' = next
        /\ UNCHANGED <<now, run, phase>>
    BY <1>3 DEF Publish
  <2> HIDE DEF dir, queue
  <2>4. QueueWritten(dir, queue)
    <3> SUFFICES ASSUME NEW i \in 1..Len(queue)
                 PROVE  /\ queue[i] \in DOMAIN dir
                        /\ dir[queue[i]] = <<run, queue[i]>>
      BY DEF QueueWritten
    <3>1. CASE i \in 1..Len(q)
      BY <1>1, <1>2, <2>1, <2>2, <3>1 DEF QueueWritten
    <3>2. CASE i = Len(q) + 1
      BY <2>1, <2>2, <3>2
    <3> QED
      BY <1>1, <2>1, <3>1, <3>2
  <2> QED
    BY <1>1, <2>1, <2>3, <2>4, PublishedKeepsQueueInv
<1>4. CASE PublishWithoutSuccessor
  <2>1. PICK dir \in {files, Without(files, {next})} :
          CleanExpired(dir, q, Stamped)
    BY <1>4 DEF PublishWithoutSuccessor
  <2>2. QueueWritten(dir, q)
    BY <1>1, <1>2, <2>1 DEF Without, QueueWritten
  <2>3. /\ Announce
        /\ ~initialized'
        /\ UNCHANGED <<now, run, phase>>
    BY <1>4 DEF PublishWithoutSuccessor
  <2>4. Len(q) # Len(q) + 1
    BY <1>1
  <2> QED
    BY <1>1, <2>1, <2>2, <2>3, <2>4, PublishedKeepsQueueInv
<1> QED
  BY <1>3, <1>4

\* A new run starts with its first file, and no message.
LEMMA StartKeepsQueueInv ==
  ASSUME ReleaseInv', Start
  PROVE  QueueInv'
<1>1. /\ run' = run + 1 /\ message_count' = 0 /\ sent' = {}
      /\ shared_memory_time_queue' = <<>> /\ current_file' = 0
      /\ \/ /\ shared_memory_queue' = <<0>>
            /\ files' = WithFile(0, <<run + 1, 0>>)
         \/ shared_memory_queue' = <<>> /\ ~initialized'
  BY DEF Start
<1>2. CASE shared_memory_queue' = <<0>>
  <2>1. 0 \in DOMAIN files' /\ files'[0] = <<run', 0>>
    BY <1>1, <1>2 DEF WithFile
  <2>2. QueueNumbered(shared_memory_queue, shared_memory_time_queue,
                      message_count)'
    BY <1>1, <1>2 DEF QueueNumbered
  <2>3. QueueWritten(files, shared_memory_queue)'
    BY <1>2, <2>1 DEF QueueWritten
  <2> QED
    BY <1>1, <1>2, <2>2, <2>3
       DEF QueueInv, Consistent, TimesOfMessages, MessagesQueued,
           MessagesDistinct, NoneExpiredAtPublish, CurrentFileLast
<1>3. CASE shared_memory_queue' = <<>> /\ ~initialized'
  BY <1>1, <1>3
     DEF QueueInv, Consistent, QueueNumbered, QueueWritten, TimesOfMessages,
         MessagesQueued, MessagesDistinct, NoneExpiredAtPublish,
         CurrentFileLast
<1> QED
  BY <1>1, <1>2, <1>3

\* A run in which no resize has failed was one before its last step too.
LEMMA SoundBefore ==
  ASSUME Next, ~Start, Sound'
  PROVE  Sound /\ ~PublishWithoutResize
<1>1. failed \subseteq failed'
  BY DEF Next, Publish, PublishWithoutSuccessor, PublishWithoutResize,
         GrowFails, Tick, Shutdown, Exit, Crash, Fails
<1>2. phase = "up"
  BY Zenon DEF Sound, Next, Publish, PublishWithoutSuccessor, Running,
         PublishWithoutResize, GrowFails, Tick, Shutdown, Exit, Crash
<1> QED
  BY <1>1, <1>2 DEF Sound, PublishWithoutResize, Fails

\* Every step but a failed resize preserves the invariant of the queues.
LEMMA NextKeepsSoundInv == SoundInv /\ [Next]_vars => SoundInv'
<1> SUFFICES ASSUME SoundInv, [Next]_vars
             PROVE  SoundInv'
  OBVIOUS
<1>0. ReleaseInv'
  BY NextKeepsReleaseInv DEF SoundInv
<1> SUFFICES ASSUME Sound'
             PROVE  QueueInv'
  BY <1>0 DEF SoundInv
<1>1. CASE Start
  BY <1>0, <1>1, StartKeepsQueueInv
<1> SUFFICES ASSUME ~Start
             PROVE  QueueInv'
  BY <1>1
<1>9. QueueInv
  BY SoundBefore DEF SoundInv, Sound, vars
<1>2. CASE Publish \/ PublishWithoutSuccessor
  BY <1>0, <1>2, <1>9, PublishKeepsQueueInv
<1>3. ~PublishWithoutResize
  BY SoundBefore DEF Next
<1>4. CASE GrowFails
  BY <1>0, <1>4, <1>9
     DEF GrowFails, QueueInv, Consistent, QueueNumbered, QueueWritten,
         TimesOfMessages, MessagesQueued, NoneExpiredAtPublish,
         CurrentFileLast
<1>5. CASE Tick
  <2> SUFFICES ASSUME phase = "up"
               PROVE  /\ TimesOfMessages(shared_memory_queue,
                           shared_memory_time_queue, sent)'
                      /\ MessagesQueued(shared_memory_queue,
                           shared_memory_time_queue, sent, message_count)'
    BY <1>0, <1>5, <1>9
       DEF Tick, QueueInv, Consistent, QueueNumbered, QueueWritten,
           MessagesDistinct, NoneExpiredAtPublish, CurrentFileLast
  <2>1. /\ now \in Nat /\ now' = now + 1
        /\ shared_memory_time_queue \in Seq(Nat) /\ sent \subseteq Message
        /\ UNCHANGED <<run, message_count, shared_memory_queue,
                       shared_memory_time_queue, sent>>
    BY <1>5, <1>9 DEF Tick, QueueInv, ReleaseInv, TypeOK
  <2>2. /\ TimesOfMessages(shared_memory_queue, shared_memory_time_queue, sent)
        /\ MessagesQueued(shared_memory_queue, shared_memory_time_queue, sent,
                          message_count)
    BY <1>9 DEF QueueInv, Consistent
  <2>3. TimesOfMessages(shared_memory_queue, shared_memory_time_queue, sent)'
    BY <2>1, <2>2 DEF TimesOfMessages
  <2>4. \A m \in sent : m.time \in Nat
    BY <2>1 DEF Message
  <2>5. \A x \in Nat :
          /\ x <= now => x <= now + 1
          /\ now - x > Lifetime => (now + 1) - x > Lifetime
    BY <2>1, LifetimeAssumption
  <2>6. MessagesQueued(shared_memory_queue, shared_memory_time_queue, sent,
                       message_count)'
    BY <2>1, <2>2, <2>4, <2>5 DEF MessagesQueued
  <2> QED
    BY <2>3, <2>6
<1>6. CASE Shutdown \/ Exit \/ Crash
  BY <1>0, <1>6, <1>9 DEF Shutdown, Exit, Crash, QueueInv
<1>7. CASE UNCHANGED vars
  BY <1>0, <1>7, <1>9
     DEF vars, QueueInv, Consistent, QueueNumbered, QueueWritten,
         TimesOfMessages, MessagesQueued, MessagesDistinct,
         NoneExpiredAtPublish, CurrentFileLast
<1> QED
  BY <1>1, <1>2, <1>3, <1>4, <1>5, <1>6, <1>7 DEF Next

\* The inductive invariant of what is published: files and times are queued in
\* step, in the order of the messages, and only expired ones have been cleaned.
THEOREM QueueInvariance == Spec => []SoundInv
<1>1. Init => SoundInv
  <2>1. Init => phase = "down"
    BY DEF Init
  <2> QED
    BY <2>1, InitReleaseInv DEF SoundInv, Sound
<1>2. SoundInv /\ [Next]_vars => SoundInv'
  BY NextKeepsSoundInv
<1> QED
  BY <1>1, <1>2, PTL DEF Spec

\* A file named by a message younger than lifetime_ exists and holds the window
\* the message announced, however many runs crashed before and whether or not
\* the next file could be created.
THEOREM LiveMessagesReadableAlways == Spec => []LiveMessagesReadable
<1>1. SoundInv => LiveMessagesReadable
  <2> SUFFICES ASSUME SoundInv, Sound,
                      NEW m \in sent, now - m.time <= Lifetime
               PROVE  m.name \in DOMAIN files /\ files[m.name] = m.payload
    BY DEF LiveMessagesReadable
  <2>1. /\ MessagesQueued(shared_memory_queue, shared_memory_time_queue, sent,
                          message_count)
        /\ QueueWritten(files, shared_memory_queue)
        /\ QueueNumbered(shared_memory_queue, shared_memory_time_queue,
                         message_count)
        /\ now \in Nat /\ m.time \in Nat
        /\ shared_memory_queue \in Seq(Nat)
        /\ shared_memory_time_queue \in Seq(Nat)
    BY DEF SoundInv, Sound, QueueInv, Consistent, ReleaseInv, TypeOK, Message
  <2>2. ~(now - m.time > Lifetime)
    BY <2>1, LifetimeAssumption
  <2>3. PICK i \in 1..Len(shared_memory_time_queue) :
          shared_memory_queue[i] = m.name
    BY <2>1, <2>2 DEF MessagesQueued
  <2>4. i \in 1..Len(shared_memory_queue) /\ m.payload = <<run, m.name>>
    BY <2>1 DEF QueueNumbered, MessagesQueued
  <2> QED
    BY <2>1, <2>3, <2>4 DEF QueueWritten
<1> QED
  BY <1>1, QueueInvariance, PTL

\* The time queue and the file queue never shift against each other.
THEOREM QueuesAlignedAlways == Spec => []QueuesAligned
<1>1. SoundInv => QueuesAligned
  <2> SUFFICES ASSUME SoundInv, Sound
               PROVE  QueuesAligned
    BY DEF QueuesAligned
  <2>1. /\ QueueNumbered(shared_memory_queue, shared_memory_time_queue,
                         message_count)
        /\ TimesOfMessages(shared_memory_queue, shared_memory_time_queue, sent)
        /\ CurrentFileLast
        /\ shared_memory_queue \in Seq(Nat)
        /\ shared_memory_time_queue \in Seq(Nat)
    BY DEF SoundInv, Sound, QueueInv, Consistent, ReleaseInv, TypeOK
  <2> QED
    BY <2>1
       DEF QueueNumbered, TimesOfMessages, CurrentFileLast, QueuesAligned
<1> QED
  BY <1>1, QueueInvariance, PTL

\* Once a window was published more than lifetime_ after a message, the file of
\* that message is gone: /dev/shm holds a bounded number of files of a module
\* that keeps publishing.
THEOREM NoFileOutlivesNextPublishAlways == Spec => []NoFileOutlivesNextPublish
<1>1. SoundInv => NoFileOutlivesNextPublish
  <2> SUFFICES ASSUME SoundInv, Sound,
                      NEW m \in sent, NEW later \in sent,
                      later.time - m.time > Lifetime,
                      m.name \in DOMAIN files, files[m.name] = m.payload
               PROVE  FALSE
    BY DEF NoFileOutlivesNextPublish
  <2> DEFINE q == shared_memory_queue
             t == shared_memory_time_queue
  <2>1. /\ q \in Seq(Nat) /\ t \in Seq(Nat) /\ message_count \in Nat
        /\ QueueNumbered(q, t, message_count)
        /\ TimesOfMessages(q, t, sent)
        /\ MessagesQueued(q, t, sent, message_count)
        /\ MessagesDistinct(sent)
        /\ m.name \in Nat /\ m.time \in Nat /\ later.time \in Nat
    BY DEF SoundInv, Sound, QueueInv, Consistent, ReleaseInv, TypeOK, Message
  <2>2. files[m.name][1] = run
    BY <2>1 DEF MessagesQueued
  <2>3. m.name \in QueuedFiles
    BY <2>2 DEF SoundInv, Sound, ReleaseInv, OwnFilesQueued
  <2>4. PICK i \in 1..Len(q) : q[i] = m.name
    BY <2>3 DEF QueuedFiles
  <2>5. q[i] < message_count
    BY <2>1, <2>4 DEF MessagesQueued
  <2>6. i \in 1..Len(t)
    <3>1. \/ Len(q) = Len(t)
          \/ Len(q) = Len(t) + 1 /\ q[Len(q)] = message_count
      BY <2>1 DEF QueueNumbered
    <3>2. ~(Len(q) = Len(t) + 1 /\ i = Len(q))
      BY <2>1, <2>5, <3>1
    <3> QED
      BY <2>1, <2>4, <3>1, <3>2
  <2>7. PICK l \in sent : l.name = q[i] /\ l.time = t[i]
    BY <2>1, <2>6 DEF TimesOfMessages
  <2>8. l = m /\ t[i] = m.time
    BY <2>1, <2>4, <2>7 DEF MessagesDistinct
  <2>9. later.time - t[i] <= Lifetime
    BY <2>6 DEF SoundInv, Sound, QueueInv, NoneExpiredAtPublish
  <2> QED
    BY <2>1, <2>8, <2>9, LifetimeAssumption
<1> QED
  BY <1>1, QueueInvariance, PTL

============================================================================
