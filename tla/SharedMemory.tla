---------------------------- MODULE SharedMemory ----------------------------
(* The shared-memory files of one publisher (EventTopicModule in              *)
(* event_topic_module.hpp, with setupMessage of event_memory.cpp and          *)
(* modules.hpp).  A module writes its payload into the current file.  When a  *)
(* window is published the message names that file, a new one becomes         *)
(* current, and the files whose message is older than lifetime_ are unlinked. *)
(*                                                                            *)
(* The handlers run under module_mutex_ and are one step each.  A payload is  *)
(* <<run, n>>: the n-th window of a run of the process.  `files' is /dev/shm: *)
(* it survives a crash, everything else is in memory.                         *)
EXTENDS Integers, Sequences

CONSTANTS
    Lifetime,     \* lifetime_: CLEAN_TIME_SPAN_SEC
    Faults,       \* the system calls that may fail, see FaultKinds
    MaxTime,      \* bound: the clock stops here
    MaxMessages,  \* bound: messages of one run
    MaxRuns       \* bound: runs of the process

\* "create": shm_open, ftruncate or mmap of a new file.  "resize": ftruncate of
\* the current file, which only event memory does before a publish.  "grow":
\* ensureEventCapacity, or the failed remap of event memory.  "list": opendir.
FaultKinds == {"create", "resize", "grow", "list"}

ASSUME LifetimeAssumption == Lifetime \in Nat
ASSUME FaultsAssumption == Faults \subseteq FaultKinds
ASSUME BoundsAssumption == {MaxTime, MaxMessages, MaxRuns} \subseteq Nat

VARIABLES
    now,                       \* node_->now()
    files,                     \* /dev/shm: the payload of each owned file
    run,                       \* which run of the process this is
    phase,                     \* "up", "stopped" (cleanShutdown done), "down"
    message_count,             \* message_count_: the index in the next name
    current_file,              \* shared_memory_file_
    initialized,               \* initialized_
    shared_memory_queue,       \* shared_memory_queue_: names, oldest first
    shared_memory_time_queue,  \* shared_memory_time_queue_
    sent,                      \* the messages of this run
    failed                     \* history: the kinds of calls that failed in it

vars == <<now, files, run, phase, message_count, current_file, initialized,
          shared_memory_queue, shared_memory_time_queue, sent, failed>>

----------------------------------------------------------------------------
\* /dev/shm with a file of that name and payload, and without some names.
WithFile(name, payload) ==
    [f \in DOMAIN files \cup {name} |-> IF f = name THEN payload ELSE files[f]]

Without(dir, names) == [f \in DOMAIN dir \ names |-> dir[f]]

\* Variant of Expired: >= instead of >.
Expired_AtLifetime(time) == now - time >= Lifetime

\* cleanSharedMemory(false): a message of that time is past its lifetime.
Expired(time) == now - time > Lifetime

\* Variant of Cleanable: if instead of while, one file is cleaned at most.
Cleanable_One(n, queue, times) ==
    IF queue # <<>> /\ times # <<>> /\ Expired(times[1]) THEN n = 1 ELSE n = 0

\* The loop of cleanSharedMemory(false) stops after n files.
Cleanable(n, queue, times) ==
    /\ n <= Len(queue) /\ n <= Len(times)
    /\ \A i \in 1..n : Expired(times[i])
    /\ n < Len(queue) /\ n < Len(times) => ~Expired(times[n + 1])

\* Variant of CleanExpired: shm_unlink is left out.
CleanExpired_KeepsFiles(dir, queue, times) ==
    \E n \in 0..Len(queue) :
      /\ Cleanable(n, queue, times)
      /\ files' = dir
      /\ shared_memory_queue' = SubSeq(queue, n + 1, Len(queue))
      /\ shared_memory_time_queue' = SubSeq(times, n + 1, Len(times))

\* The files at the front of the queue whose time has passed are unlinked, and
\* both queues are popped.
CleanExpired(dir, queue, times) ==
    \E n \in 0..Len(queue) :
      /\ Cleanable(n, queue, times)
      /\ files' = Without(dir, {queue[i] : i \in 1..n})
      /\ shared_memory_queue' = SubSeq(queue, n + 1, Len(queue))
      /\ shared_memory_time_queue' = SubSeq(times, n + 1, Len(times))

\* Variant of Announce: the count is read before the message is numbered.
Announce_OffByOne ==
    /\ message_count' = message_count + 1
    /\ sent' = sent \cup {[name |-> current_file,
                           time |-> now,
                           payload |-> <<run, message_count - 1>>]}

\* Variant of Announce: the next file is created before the message is filled.
Announce_NextFile ==
    /\ message_count' = message_count + 1
    /\ sent' = sent \cup {[name |-> message_count + 1,
                           time |-> now,
                           payload |-> <<run, message_count>>]}

\* publish: the time is queued, the message names the current file, and
\* setupMessage and cleanSharedMemory do the rest.
Announce ==
    /\ message_count' = message_count + 1
    /\ sent' = sent \cup {[name |-> current_file,
                           time |-> now,
                           payload |-> <<run, message_count>>]}

Stamped == Append(shared_memory_time_queue, now)

QueuedFiles == {shared_memory_queue[i] : i \in 1..Len(shared_memory_queue)}

\* A system call of that kind fails.
Fails(kind) == kind \in Faults /\ failed' = failed \cup {kind}

Running == phase = "up" /\ initialized /\ message_count < MaxMessages

Init ==
    /\ now = 0
    /\ files = [f \in {} |-> <<0, 0>>]
    /\ run = 0
    /\ phase = "down"
    /\ message_count = 0
    /\ current_file = 0
    /\ initialized = FALSE
    /\ shared_memory_queue = <<>>
    /\ shared_memory_time_queue = <<>>
    /\ sent = {}
    /\ failed = {}

----------------------------------------------------------------------------
\* The process starts: the constructor, then setupModule creates file 0 (or
\* opens the one a crashed run left: O_CREAT without O_EXCL).
Start ==
    /\ phase = "down"
    /\ run < MaxRuns
    /\ phase' = "up"
    /\ run' = run + 1
    /\ message_count' = 0
    /\ shared_memory_time_queue' = <<>>
    /\ sent' = {}
    /\ current_file' = 0
    /\ \/ /\ initialized' = TRUE
          /\ shared_memory_queue' = <<0>>
          /\ files' = WithFile(0, <<run + 1, 0>>)
          /\ failed' = {}
       \/ /\ "create" \in Faults
          /\ failed' = {"create"}
          /\ initialized' = FALSE
          /\ shared_memory_queue' = <<>>
          /\ files' \in {files, Without(files, {0})}
    /\ UNCHANGED now

\* publish, everything succeeds: the next file is created under the new count.
\* A file that has left the queue has a closed descriptor: event memory's
\* ftruncate of it would fail.
Publish ==
    /\ Running
    /\ current_file \in QueuedFiles
    /\ Announce
    /\ current_file' = message_count + 1
    /\ CleanExpired(WithFile(message_count + 1, <<run, message_count + 1>>),
                    Append(shared_memory_queue, message_count + 1), Stamped)
    /\ UNCHANGED <<now, run, phase, initialized, failed>>

\* publish, the next file cannot be created: the window is announced, and the
\* module stops for good.  A failed ftruncate or mmap unlinks the new name.
PublishWithoutSuccessor ==
    /\ Running
    /\ current_file \in QueuedFiles
    /\ Fails("create")
    /\ Announce
    /\ initialized' = FALSE
    /\ \E dir \in {files, Without(files, {message_count + 1})} :
         CleanExpired(dir, shared_memory_queue, Stamped)
    /\ UNCHANGED <<now, run, phase, current_file>>

\* publish of event memory, ftruncate fails: setupMessage returns early, the
\* message goes out all the same, and the next window is written from the
\* start of the file it names.
PublishWithoutResize ==
    /\ Running
    /\ Fails("resize")
    /\ Announce
    /\ CleanExpired(IF current_file \in DOMAIN files
                      THEN WithFile(current_file, <<run, message_count + 1>>)
                      ELSE files,
                    shared_memory_queue, Stamped)
    /\ UNCHANGED <<now, run, phase, current_file, initialized>>

\* ensureEventCapacity fails in the middle of a window.
GrowFails ==
    /\ Running
    /\ Fails("grow")
    /\ initialized' = FALSE
    /\ UNCHANGED <<now, files, run, phase, message_count, current_file,
                   shared_memory_queue, shared_memory_time_queue, sent>>

Tick ==
    /\ now < MaxTime
    /\ now' = now + 1
    /\ UNCHANGED <<files, run, phase, message_count, current_file, initialized,
                   shared_memory_queue, shared_memory_time_queue, sent, failed>>

\* Variant of Unlinked: the files of the queue only.
Unlinked_QueueOnly == QueuedFiles

\* cleanSharedMemory(true): the files of the queue, and every file with the
\* prefix of this module, whichever run created it.
Unlinked == DOMAIN files

\* cleanShutdown: cleanSharedMemory(true), and the modules are destroyed.
Shutdown ==
    /\ phase = "up"
    /\ phase' = "stopped"
    /\ \/ /\ files' = Without(files, Unlinked)
          /\ UNCHANGED failed
       \/ /\ Fails("list")
          /\ files' = Without(files, QueuedFiles)
    /\ shared_memory_queue' = <<>>
    /\ shared_memory_time_queue' = <<>>
    /\ initialized' = FALSE
    /\ UNCHANGED <<now, run, message_count, current_file, sent>>

\* The process ends after its shutdown.
Exit ==
    /\ phase = "stopped"
    /\ phase' = "down"
    /\ UNCHANGED <<now, files, run, message_count, current_file, initialized,
                   shared_memory_queue, shared_memory_time_queue, sent, failed>>

\* SIGKILL, an abort, or the _exit of a second signal: only memory is lost.
Crash ==
    /\ phase = "up"
    /\ phase' = "down"
    /\ UNCHANGED <<now, files, run, message_count, current_file, initialized,
                   shared_memory_queue, shared_memory_time_queue, sent, failed>>

Next == \/ Start
        \/ Publish
        \/ PublishWithoutSuccessor
        \/ PublishWithoutResize
        \/ GrowFails
        \/ Tick
        \/ Shutdown
        \/ Exit
        \/ Crash

Spec == Init /\ [][Next]_vars

----------------------------------------------------------------------------
Message == [name : Nat, time : Nat, payload : Nat \X Nat]

\* The state is well typed.
TypeOK ==
    /\ {now, run, message_count, current_file} \subseteq Nat
    /\ DOMAIN files \subseteq Nat
    /\ \A f \in DOMAIN files : files[f] \in Nat \X Nat
    /\ phase \in {"up", "stopped", "down"}
    /\ initialized \in BOOLEAN
    /\ shared_memory_queue \in Seq(Nat)
    /\ shared_memory_time_queue \in Seq(Nat)
    /\ sent \subseteq Message
    /\ failed \subseteq FaultKinds

\* The node is up and event memory could resize every file it published.
Sound == phase = "up" /\ "resize" \notin failed

\* A subscriber that gets a message within lifetime_ of its publication can
\* open the file it names and finds the payload the message announced, until
\* the node shuts down: cleanSharedMemory never takes a file early, and no
\* later window is written into it (publish, setupMessage, createSharedMemory).
LiveMessagesReadable ==
    Sound =>
      \A m \in sent : now - m.time <= Lifetime =>
        m.name \in DOMAIN files /\ files[m.name] = m.payload

\* The first half of it: a published file exists for its lifetime
\* (CLEAN_TIME_SPAN_SEC in README.MD).
PublishedFilesSurvive ==
    phase = "up" =>
      \A m \in sent : now - m.time <= Lifetime => m.name \in DOMAIN files

\* The two queues stay in step: the i-th time is that of the message that names
\* the i-th file, and the file being written has none.
QueuesAligned ==
    Sound =>
      /\ Len(shared_memory_time_queue) <= Len(shared_memory_queue)
      /\ \A i \in 1..Len(shared_memory_time_queue) :
           \E m \in sent : /\ m.name = shared_memory_queue[i]
                           /\ m.time = shared_memory_time_queue[i]
      /\ initialized =>
           /\ Len(shared_memory_queue) = Len(shared_memory_time_queue) + 1
           /\ shared_memory_queue[Len(shared_memory_queue)] = current_file

\* Memory in /dev/shm is bounded by the publication rate: a file outlives its
\* message's lifetime only until the next publish.
NoFileOutlivesNextPublish ==
    Sound =>
      \A m \in sent :
        (\E later \in sent : later.time - m.time > Lifetime)
          => m.name \notin DOMAIN files \/ files[m.name] # m.payload

\* Every file this run created is one it will unlink: nothing is forgotten when
\* a system call fails half way through createSharedMemory.
OwnFilesQueued ==
    phase = "up" =>
      \A f \in DOMAIN files : files[f][1] = run => f \in QueuedFiles

\* After a clean shutdown no file of this module is left in /dev/shm, not even
\* those of an earlier run that crashed (README.MD, signal handling), if
\* /dev/shm could be listed.
NoOrphansAfterShutdown ==
    phase = "stopped" /\ "list" \notin failed => DOMAIN files = {}

\* Whatever system call has failed before, even when /dev/shm cannot be listed,
\* a clean shutdown leaves no file of its own run.
OwnFilesReleased ==
    phase = "stopped" => \A f \in DOMAIN files : files[f][1] # run
============================================================================
