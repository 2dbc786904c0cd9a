--------------------------- MODULE Viewer_proofs ---------------------------
(* Proofs about Viewer: what a reader sees, for every lifetime, every choice  *)
(* of failing calls and every number of messages and runs.                    *)
EXTENDS Viewer, SharedMemory_proofs

\* The messages of a run are stamped with it.
MessagesOfThisRun == \A m \in sent : m.payload[1] = run

\* As long as the run could resize its files, a message announces the window of
\* the number it names, and a file of that name, if there is one, holds it.
FilesAsAnnounced ==
    "resize" \notin failed =>
      /\ \A m \in sent :
           /\ m.name < message_count
           /\ m.payload = <<run, m.name>>
           /\ m.name \in DOMAIN files => files[m.name] = m.payload
      /\ initialized =>
           /\ current_file = message_count
           /\ current_file \in DOMAIN files =>
                files[current_file] = <<run, current_file>>

\* The inductive invariant of the publisher.
PublisherInv == MessagesOfThisRun /\ FilesAsAnnounced

\* A message that waits is not of a later run, and if it is of this run, the run
\* has sent it.
InboxOfRun ==
    /\ inbox.payload[1] <= run
    /\ pending /\ inbox.payload[1] = run => inbox \in sent

\* So is the message of the image, which shows what it announced.
ImageOfRun ==
    /\ image.message.payload[1] <= run
    /\ image.mapped /\ image.message.payload[1] = run => image.message \in sent
    /\ ImageAsAnnounced

\* The viewer's state is well typed.
ViewerTypes ==
    /\ inbox \in Message
    /\ image \in [message : Message, payload : Nat \X Nat,
                  mapped : BOOLEAN, linked : BOOLEAN]

\* The inductive invariant of publisher and viewer.
ViewerInv ==
    /\ PublisherInv
    /\ InboxOfRun
    /\ ImageOfRun
    /\ ViewerTypes

----------------------------------------------------------------------------
\* A step of the composition is a step of the publisher, or leaves it alone.
THEOREM PublisherRuns == ViewerSpec => Spec
<1>1. ViewerInit => Init
  BY DEF ViewerInit
<1>2. [ViewerNext]_<<vars, viewerVars>> => [Next]_vars
  BY DEF ViewerNext, PublisherStep, Arrive, CameraInfo, Skip, Map, MapFails,
         Unmap, CallbackBegins
<1> QED
  BY <1>1, <1>2, PTL DEF ViewerSpec, Spec

\* What the reader may count on holds in the composition too.
LEMMA SoundInComposition == ViewerSpec => [](TypeOK /\ LiveMessagesReadable)
  BY PublisherRuns, TypeCorrect, LiveMessagesReadableAlways, PTL

----------------------------------------------------------------------------
\* What publish leaves in /dev/shm is what was there before cleanSharedMemory.
LEMMA AnnouncingKeepsPublisherInv ==
  ASSUME TypeOK, PublisherInv, Announce, initialized, UNCHANGED run,
         "resize" \notin failed' => "resize" \notin failed,
         NEW dir,
         DOMAIN files' \subseteq DOMAIN dir,
         \A f \in DOMAIN files' : files'[f] = dir[f],
         "resize" \notin failed' =>
           /\ \A f \in DOMAIN dir : f <= message_count =>
                f \in DOMAIN files /\ dir[f] = files[f]
           /\ initialized' =>
                /\ current_file' = message_count + 1
                /\ message_count + 1 \in DOMAIN dir =>
                     dir[message_count + 1] = <<run, message_count + 1>>
  PROVE  PublisherInv'
<1>1. /\ message_count \in Nat /\ sent \subseteq Message
      /\ message_count' = message_count + 1
      /\ sent' = sent \cup {[name |-> current_file, time |-> now,
                            payload |-> <<run, message_count>>]}
  BY DEF TypeOK, Announce
<1>2. MessagesOfThisRun'
  BY <1>1 DEF PublisherInv, MessagesOfThisRun
<1>3. ASSUME "resize" \notin failed'
      PROVE  FilesAsAnnounced'
  <2>1. "resize" \notin failed /\ current_file = message_count
    BY <1>3 DEF PublisherInv, FilesAsAnnounced
  <2>2. ASSUME NEW m \in sent'
        PROVE  /\ m.name < message_count + 1
               /\ m.payload = <<run, m.name>>
               /\ m.name \in DOMAIN files' => files'[m.name] = m.payload
    <3>1. CASE m \in sent
      <4>1. /\ m.name \in Nat /\ m.name < message_count
            /\ m.payload = <<run, m.name>>
            /\ m.name \in DOMAIN files => files[m.name] = m.payload
        BY <1>1, <2>1, <3>1 DEF PublisherInv, FilesAsAnnounced, Message
      <4> QED
        BY <1>1, <1>3, <4>1
    <3>2. CASE m = [name |-> current_file, time |-> now,
                    payload |-> <<run, message_count>>]
      <4>1. m.name = message_count /\ m.payload = <<run, message_count>>
        BY <2>1, <3>2
      <4>2. message_count \in DOMAIN files =>
              files[message_count] = <<run, message_count>>
        BY <2>1 DEF PublisherInv, FilesAsAnnounced
      <4> QED
        BY <1>1, <1>3, <4>1, <4>2
    <3> QED
      BY <1>1, <2>2, <3>1, <3>2
  <2>3. initialized' => /\ current_file' = message_count'
                        /\ current_file' \in DOMAIN files' =>
                             files'[current_file'] = <<run, current_file'>>
    BY <1>1, <1>3
  <2> QED
    BY <1>1, <2>2, <2>3 DEF FilesAsAnnounced
<1> QED
  BY <1>2, <1>3 DEF PublisherInv, FilesAsAnnounced

\* publish, whatever fails in it.
LEMMA PublishKeepsPublisherInv ==
  ASSUME TypeOK, PublisherInv,
         Publish \/ PublishWithoutSuccessor \/ PublishWithoutResize
  PROVE  PublisherInv'
<1>1. /\ Announce /\ initialized /\ UNCHANGED run
      /\ message_count \in Nat /\ now \in Nat
      /\ current_file \in Nat /\ DOMAIN files \subseteq Nat
      /\ shared_memory_queue \in Seq(Nat)
      /\ shared_memory_time_queue \in Seq(Nat)
  BY DEF Publish, PublishWithoutSuccessor, PublishWithoutResize, Running, TypeOK
<1>2. Stamped \in Seq(Nat)
  BY <1>1, Appended DEF Stamped
<1>3. CASE Publish
  <2> DEFINE dir == WithFile(message_count + 1, <<run, message_count + 1>>)
             queue == Append(shared_memory_queue, message_count + 1)
  <2>1. /\ CleanExpired(dir, queue, Stamped)
        /\ failed' = failed
        /\ current_file' = message_count + 1
    BY <1>3 DEF Publish
  <2>2. queue \in Seq(Nat)
    BY <1>1, Appended
  <2>3. /\ DOMAIN files' \subseteq DOMAIN dir
        /\ \A f \in DOMAIN files' : files'[f] = dir[f]
    BY <1>2, <2>1, <2>2, CleaningForgetsNothing
  <2>4. /\ \A f \in DOMAIN dir : f <= message_count =>
             f \in DOMAIN files /\ dir[f] = files[f]
        /\ dir[message_count + 1] = <<run, message_count + 1>>
    BY <1>1 DEF WithFile
  <2> HIDE DEF dir
  <2> QED
    BY <1>1, <2>1, <2>3, <2>4, AnnouncingKeepsPublisherInv
<1>4. CASE PublishWithoutSuccessor
  <2>1. PICK dir \in {files, Without(files, {message_count + 1})} :
          CleanExpired(dir, shared_memory_queue, Stamped)
    BY <1>4 DEF PublishWithoutSuccessor
  <2>2. /\ DOMAIN files' \subseteq DOMAIN dir
        /\ \A f \in DOMAIN files' : files'[f] = dir[f]
    BY <1>1, <1>2, <2>1, CleaningForgetsNothing
  <2>3. ~initialized' /\ failed' = failed \cup {"create"}
    BY <1>4 DEF PublishWithoutSuccessor, Fails
  <2>4. \A f \in DOMAIN dir : f \in DOMAIN files /\ dir[f] = files[f]
    BY <2>1 DEF Without
  <2> QED
    BY <1>1, <2>2, <2>3, <2>4, AnnouncingKeepsPublisherInv
<1>5. CASE PublishWithoutResize
  <2> DEFINE dir == IF current_file \in DOMAIN files
                      THEN WithFile(current_file, <<run, message_count + 1>>)
                      ELSE files
  <2>1. /\ CleanExpired(dir, shared_memory_queue, Stamped)
        /\ failed' = failed \cup {"resize"}
    BY <1>5 DEF PublishWithoutResize, Fails
  <2>2. /\ DOMAIN files' \subseteq DOMAIN dir
        /\ \A f \in DOMAIN files' : files'[f] = dir[f]
    BY <1>1, <1>2, <2>1, CleaningForgetsNothing
  <2> HIDE DEF dir
  <2> QED
    BY <1>1, <2>1, <2>2, AnnouncingKeepsPublisherInv
<1> QED
  BY <1>3, <1>4, <1>5

\* Every step of the publisher.
LEMMA NextKeepsPublisherInv ==
  ASSUME TypeOK, PublisherInv, [Next]_vars
  PROVE  PublisherInv'
<1>1. CASE UNCHANGED vars
  BY <1>1 DEF vars, PublisherInv, MessagesOfThisRun, FilesAsAnnounced
<1>2. CASE Start
  <2>1. sent' = {} /\ message_count' = 0 /\ current_file' = 0 /\ run' = run + 1
    BY <1>2 DEF Start
  <2>2. initialized' => files' = WithFile(0, <<run + 1, 0>>)
    BY <1>2 DEF Start
  <2>3. initialized' => 0 \in DOMAIN files' /\ files'[0] = <<run', 0>>
    BY <2>1, <2>2 DEF WithFile
  <2> QED
    BY <2>1, <2>3 DEF PublisherInv, MessagesOfThisRun, FilesAsAnnounced
<1>3. CASE Publish \/ PublishWithoutSuccessor \/ PublishWithoutResize
  BY <1>3, PublishKeepsPublisherInv
<1>4. CASE GrowFails
  BY <1>4 DEF GrowFails, Fails, PublisherInv, MessagesOfThisRun,
              FilesAsAnnounced
<1>5. CASE Shutdown
  <2>1. /\ ~initialized' /\ UNCHANGED <<run, message_count, sent>>
        /\ "resize" \notin failed' => "resize" \notin failed
    BY <1>5 DEF Shutdown, Fails
  <2>2. \A f \in DOMAIN files' : f \in DOMAIN files /\ files'[f] = files[f]
    BY <1>5 DEF Shutdown, Without
  <2> QED
    BY <2>1, <2>2 DEF PublisherInv, MessagesOfThisRun, FilesAsAnnounced
<1>6. CASE Tick \/ Exit \/ Crash
  BY <1>6 DEF Tick, Exit, Crash, PublisherInv, MessagesOfThisRun,
              FilesAsAnnounced
<1> QED
  BY <1>1, <1>2, <1>3, <1>4, <1>5, <1>6 DEF Next

----------------------------------------------------------------------------
\* A step of the publisher: the run goes on or a later one begins, and nothing
\* sent by the run is taken back.
LEMMA RunsGoOn ==
  ASSUME TypeOK, PublisherInv, [Next]_vars
  PROVE  /\ run \in Nat
         /\ \/ /\ UNCHANGED run /\ sent \subseteq sent'
               /\ "resize" \notin failed' => "resize" \notin failed
            \/ run' = run + 1
<1>1. run \in Nat
  BY DEF TypeOK
<1>2. CASE Start
  BY <1>1, <1>2 DEF Start
<1>3. CASE ~Start
  <2>1. UNCHANGED run /\ sent \subseteq sent'
    BY <1>3 DEF Next, vars, Publish, PublishWithoutSuccessor,
                PublishWithoutResize, Announce, GrowFails, Tick, Shutdown,
                Exit, Crash
  <2>2. "resize" \notin failed' => "resize" \notin failed
    BY <1>3 DEF Next, vars, Publish, PublishWithoutSuccessor,
                PublishWithoutResize, Fails, GrowFails, Tick, Shutdown, Exit,
                Crash
  <2> QED
    BY <1>1, <2>1, <2>2
<1> QED
  BY <1>2, <1>3

\* While the publisher goes on, a mapped image keeps showing what its message
\* announced: the file it reads is written only by a later run, or by a run that
\* could not resize it.
LEMMA PublisherStepKeepsImage ==
  ASSUME TypeOK, TypeOK', ViewerInv, PublisherInv', PublisherStep
  PROVE  ViewerInv'
<1>1. /\ Next /\ image' = Rewritten
      /\ UNCHANGED <<inbox, pending>>
  BY DEF PublisherStep
<1>2. /\ run \in Nat
      /\ \/ /\ UNCHANGED run /\ sent \subseteq sent'
            /\ "resize" \notin failed' => "resize" \notin failed
         \/ run' = run + 1
  BY <1>1, RunsGoOn DEF ViewerInv
<1>3. /\ inbox.payload[1] \in Nat /\ inbox.payload[1] <= run
      /\ image.message.payload[1] \in Nat /\ image.message.payload[1] <= run
  BY DEF ViewerInv, ViewerTypes, Message, InboxOfRun, ImageOfRun
<1>4. InboxOfRun'
  <2>1. CASE run' = run + 1
    BY <1>1, <1>2, <1>3, <2>1 DEF InboxOfRun
  <2>2. CASE UNCHANGED run /\ sent \subseteq sent'
    BY <1>1, <2>2 DEF ViewerInv, InboxOfRun
  <2> QED
    BY <1>2, <2>1, <2>2
<1>5. /\ image'.message = image.message
      /\ image'.mapped = image.mapped
      /\ \/ image'.payload = image.payload /\ (image' = image \/ image.mapped)
         \/ /\ image.mapped
            /\ image.message.name \in DOMAIN files'
            /\ image'.payload = files'[image.message.name]
      /\ ViewerTypes'
  <2>1. image \in [message : Message, payload : Nat \X Nat,
                  mapped : BOOLEAN, linked : BOOLEAN]
    BY DEF ViewerInv, ViewerTypes
  <2>2. \A f \in DOMAIN files' : files'[f] \in Nat \X Nat
    BY DEF TypeOK
  <2>3. CASE image' = image
    BY <1>1, <2>1, <2>3 DEF ViewerInv, ViewerTypes
  <2>4. CASE image.mapped /\ image' = [image EXCEPT !.linked = FALSE]
    BY <1>1, <2>1, <2>4 DEF ViewerInv, ViewerTypes
  <2>5. CASE /\ image.mapped
             /\ image.message.name \in DOMAIN files'
             /\ image' = [image EXCEPT !.payload = files'[image.message.name]]
    BY <1>1, <2>1, <2>2, <2>5 DEF ViewerInv, ViewerTypes
  <2>6. \/ image' = image
        \/ image.mapped /\ image' = [image EXCEPT !.linked = FALSE]
        \/ /\ image.mapped
           /\ image.message.name \in DOMAIN files'
           /\ image' = [image EXCEPT !.payload = files'[image.message.name]]
    BY <1>1, <2>1 DEF Rewritten
  <2> QED
    BY <2>3, <2>4, <2>5, <2>6
<1>6. image.mapped /\ image.message.payload[1] = run => image.message \in sent
  BY DEF ViewerInv, ImageOfRun
<1>7. ASSUME image' # Blank, SameRun(image.message)'
      PROVE  image'.payload = image'.message.payload
  <2>1. run' = image.message.payload[1] /\ "resize" \notin failed'
    BY <1>5, <1>7 DEF SameRun
  <2>2. /\ UNCHANGED run /\ sent \subseteq sent'
        /\ "resize" \notin failed
    BY <1>2, <1>3, <2>1
  <2>3. image # Blank => image.payload = image.message.payload
    BY <2>1, <2>2 DEF SameRun, ViewerInv, ImageOfRun, ImageAsAnnounced
  <2>4. image.mapped => image # Blank
    BY DEF Blank
  <2>5. CASE image.mapped /\ image.message.name \in DOMAIN files'
             /\ image'.payload = files'[image.message.name]
    <3>1. image.message \in sent'
      BY <1>6, <2>1, <2>2, <2>5
    <3>2. files'[image.message.name] = image.message.payload
      BY <2>1, <2>5, <3>1 DEF PublisherInv, FilesAsAnnounced
    <3> QED
      BY <1>5, <2>5, <3>2
  <2> QED
    BY <1>5, <1>7, <2>3, <2>4, <2>5
<1>8. ImageOfRun'
  <2>1. image'.message.payload[1] <= run'
    BY <1>2, <1>3, <1>5
  <2>2. image'.mapped /\ image'.message.payload[1] = run' =>
          image'.message \in sent'
    BY <1>2, <1>3, <1>5, <1>6
  <2>3. ImageAsAnnounced'
    BY <1>5, <1>7 DEF ImageAsAnnounced, SameRun
  <2> QED
    BY <2>1, <2>2, <2>3 DEF ImageOfRun
<1> QED
  BY <1>4, <1>5, <1>8 DEF ViewerInv

\* A step of the viewer: what it maps is what the message announced.
LEMMA ViewerStepKeepsImage ==
  ASSUME TypeOK, ViewerInv,
         Arrive \/ CameraInfo \/ Skip \/ Map \/ MapFails \/ Unmap
  PROVE  ViewerInv'
<1>1. UNCHANGED vars /\ run \in Nat /\ PublisherInv'
  BY DEF Arrive, CameraInfo, Skip, Map, MapFails, Unmap, CallbackBegins,
         TypeOK, vars, ViewerInv, PublisherInv, MessagesOfThisRun,
         FilesAsAnnounced
<1> USE DEF vars
<1>2. CASE Arrive
  <2>1. PICK m \in sent : inbox' = m /\ UNCHANGED image
    BY <1>2 DEF Arrive, viewerVars
  <2>2. m.payload[1] = run
    BY <2>1 DEF ViewerInv, PublisherInv, MessagesOfThisRun
  <2>3. InboxOfRun'
    BY <1>1, <2>1, <2>2 DEF InboxOfRun
  <2>4. ImageOfRun'
    BY <1>1, <2>1 DEF ViewerInv, ImageOfRun, ImageAsAnnounced, SameRun
  <2>5. ViewerTypes'
    BY <2>1 DEF ViewerInv, ViewerTypes, TypeOK
  <2> QED
    BY <1>1, <2>3, <2>4, <2>5 DEF ViewerInv
<1>3. CASE CameraInfo \/ Skip \/ MapFails
  <2>1. UNCHANGED <<inbox, image>> /\ (pending' => pending)
    BY <1>3 DEF CameraInfo, Skip, MapFails, CallbackBegins
  <2> QED
    BY <1>1, <2>1
       DEF ViewerInv, InboxOfRun, ImageOfRun, ImageAsAnnounced, SameRun,
           ViewerTypes
<1>4. CASE Map
  <2>1. /\ pending /\ ~pending' /\ UNCHANGED inbox
        /\ inbox.name \in DOMAIN files
        /\ image'.message = inbox
        /\ image'.payload = files[inbox.name]
    BY <1>4 DEF Map, CallbackBegins
  <2>2. inbox.payload[1] = run => inbox \in sent
    BY <2>1 DEF ViewerInv, InboxOfRun
  <2>3. SameRun(inbox) => files[inbox.name] = inbox.payload
    BY <2>1, <2>2 DEF SameRun, ViewerInv, PublisherInv, FilesAsAnnounced
  <2>4. ViewerTypes'
    BY <1>4, <2>1 DEF Map, ViewerInv, ViewerTypes, TypeOK
  <2> QED
    BY <1>1, <2>1, <2>2, <2>3, <2>4
       DEF ViewerInv, InboxOfRun, ImageOfRun, ImageAsAnnounced, SameRun
<1>5. CASE Unmap
  <2>1. /\ image.mapped /\ ~image'.mapped
        /\ image'.message = image.message /\ image'.payload = image.payload
        /\ UNCHANGED <<inbox, pending>>
    BY <1>5 DEF Unmap, ViewerInv, ViewerTypes
  <2>2. image # Blank
    BY <2>1 DEF Blank
  <2>3. ViewerTypes'
    BY <1>5, <2>1 DEF Unmap, ViewerInv, ViewerTypes
  <2> QED
    BY <1>1, <2>1, <2>2, <2>3
       DEF ViewerInv, InboxOfRun, ImageOfRun, ImageAsAnnounced, SameRun
<1> QED
  BY <1>2, <1>3, <1>4, <1>5

\* The invariant holds of every behaviour of publisher and viewer.
THEOREM ViewerInvariance == ViewerSpec => []ViewerInv
<1>1. ViewerInit => ViewerInv
  <2> SUFFICES ASSUME ViewerInit
               PROVE  ViewerInv
    OBVIOUS
  <2>1. /\ sent = {} /\ run = 0 /\ initialized = FALSE
        /\ inbox = NoMessage /\ image = Blank /\ pending = FALSE
    BY DEF ViewerInit, Init
  <2>2. inbox.payload[1] = 0 /\ image.message.payload[1] = 0 /\ ~image.mapped
        /\ ViewerTypes
    BY <2>1 DEF NoMessage, Blank, ViewerTypes, Message
  <2> QED
    BY <2>1, <2>2
       DEF ViewerInv, PublisherInv, MessagesOfThisRun, FilesAsAnnounced,
           InboxOfRun, ImageOfRun, ImageAsAnnounced
<1>2. TypeOK /\ TypeOK' /\ ViewerInv /\ [ViewerNext]_<<vars, viewerVars>> => ViewerInv'
  <2> SUFFICES ASSUME TypeOK, TypeOK', ViewerInv,
                      [ViewerNext]_<<vars, viewerVars>>
               PROVE  ViewerInv'
    OBVIOUS
  <2>1. CASE PublisherStep
    BY <2>1, NextKeepsPublisherInv, PublisherStepKeepsImage
       DEF PublisherStep, ViewerInv
  <2>2. CASE Arrive \/ CameraInfo \/ Skip \/ Map \/ MapFails \/ Unmap
    BY <2>2, ViewerStepKeepsImage
  <2>3. CASE UNCHANGED <<vars, viewerVars>>
    BY <2>3
       DEF vars, viewerVars, ViewerInv, PublisherInv, MessagesOfThisRun,
           FilesAsAnnounced, InboxOfRun, ImageOfRun, ImageAsAnnounced, SameRun,
           ViewerTypes
  <2> QED
    BY <2>1, <2>2, <2>3 DEF ViewerNext
<1>3. ViewerSpec => []TypeOK
  BY SoundInComposition, PTL
<1> QED
  BY <1>1, <1>2, <1>3, PTL DEF ViewerSpec

\* However late a message is handled, the image shows the window it announced.
THEOREM ImageAsAnnouncedAlways == ViewerSpec => []ImageAsAnnounced
<1>1. ViewerInv => ImageAsAnnounced
  BY DEF ViewerInv, ImageOfRun
<1> QED
  BY <1>1, ViewerInvariance, PTL

\* A callback on a message whose file still has to live finds the file, and in it
\* the window that was announced.
THEOREM TimelyMessagesFindTheirFileAlways ==
  ViewerSpec => TimelyMessagesFindTheirFile
<1> DEFINE Found == \/ now - inbox.time > Lifetime
                    \/ phase # "up"
                    \/ ~SameRun(inbox)
                    \/ /\ inbox.name \in DOMAIN files
                       /\ files[inbox.name] = inbox.payload
<1>1. TypeOK /\ LiveMessagesReadable /\ ViewerInv
        /\ [ViewerNext]_<<vars, viewerVars>>
      => [pending /\ ~pending' => Found]_<<vars, viewerVars>>
  <2> SUFFICES ASSUME TypeOK, LiveMessagesReadable, ViewerInv, pending,
                      phase = "up", SameRun(inbox),
                      ~(now - inbox.time > Lifetime)
               PROVE  /\ inbox.name \in DOMAIN files
                      /\ files[inbox.name] = inbox.payload
    OBVIOUS
  <2>1. inbox \in sent /\ Sound
    BY DEF SameRun, Sound, ViewerInv, InboxOfRun
  <2>2. now \in Nat /\ inbox.time \in Nat
    BY <2>1 DEF TypeOK, Message
  <2> QED
    BY <2>1, <2>2, LifetimeAssumption DEF LiveMessagesReadable
<1> QED
  BY <1>1, ViewerInvariance, SoundInComposition, PTL
     DEF ViewerSpec, TimelyMessagesFindTheirFile
=============================================================================
