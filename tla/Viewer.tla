------------------------------- MODULE Viewer -------------------------------
(* A subscriber of one publisher: the viewer of fluxeem_ros2_viewer.cpp,      *)
(* composed with the files of SharedMemory.  Messages come through a          *)
(* best-effort queue that keeps the last one.  A callback opens the file that *)
(* the message names, maps it, copies it into the image on display and unmaps *)
(* it, while the publisher goes on: it may unlink the file, end, crash, or    *)
(* come back and write into a file of the same name.                          *)
(*                                                                            *)
(* The publisher may be event memory, whose callback goes on when the file    *)
(* could not be mapped, or an image module, whose callbacks return.           *)
EXTENDS SharedMemory

VARIABLES
    viewer,                   \* "up", or "dead" after a fault in a callback
    camera_info_initialized,  \* camera_info_initialized_
    inbox,                    \* the last message that arrived
    pending,                  \* whether no callback has taken it yet
    image                     \* event_memory_display_ or histogram_, see Blank

viewerVars == <<viewer, camera_info_initialized, inbox, pending, image>>

NoMessage == [name |-> 0, time |-> 0, payload |-> <<0, 0>>]

\* The image of no message.  While a callback copies the file into it (`mapped')
\* the payload is that of the file, which outlives its name: `linked' says
\* whether the name still leads to it.
Blank == [message |-> NoMessage, payload |-> <<0, 0>>,
          mapped |-> FALSE, linked |-> FALSE]

ViewerInit ==
    /\ Init
    /\ viewer = "up"
    /\ camera_info_initialized = FALSE
    /\ inbox = NoMessage
    /\ pending = FALSE
    /\ image = Blank

----------------------------------------------------------------------------
\* What the publisher's step does to the file that is read.  O_CREAT without
\* O_EXCL opens a file that is there and writes into it, an unlinked one stays
\* as it is.
Rewritten ==
    IF ~image.mapped \/ ~image.linked THEN image
    ELSE IF image.message.name \in DOMAIN files'
           THEN [image EXCEPT !.payload = files'[image.message.name]]
           ELSE [image EXCEPT !.linked = FALSE]

PublisherStep ==
    /\ Next
    /\ image' = Rewritten
    /\ UNCHANGED <<viewer, camera_info_initialized, inbox, pending>>

Later(p, q) == p[1] > q[1] \/ (p[1] = q[1] /\ p[2] > q[2])

\* A message arrives, in the order of publication.  What is not taken yet is
\* replaced, what is never chosen is lost.
Arrive ==
    \E m \in sent :
      /\ Later(m.payload, inbox.payload)
      /\ inbox' = m
      /\ pending' = TRUE
      /\ UNCHANGED <<vars, viewer, camera_info_initialized, image>>

\* cameraInfoCallback, with a size: published while the node runs.
CameraInfo ==
    /\ viewer = "up"
    /\ phase = "up"
    /\ ~camera_info_initialized
    /\ camera_info_initialized' = TRUE
    /\ UNCHANGED <<vars, viewer, inbox, pending, image>>

\* The callbacks run one at a time: they share the default callback group.
CallbackBegins ==
    /\ viewer = "up"
    /\ pending
    /\ ~image.mapped
    /\ pending' = FALSE
    /\ UNCHANGED <<vars, camera_info_initialized, inbox>>

\* eventMemoryCallback before the first camera_info, or a window of no events:
\* the callback returns and the last image stays.
Skip ==
    /\ CallbackBegins
    /\ UNCHANGED <<viewer, image>>

\* shm_open and mmap of the file the message names.
Map ==
    /\ CallbackBegins
    /\ inbox.name \in DOMAIN files
    /\ image' = [message |-> inbox, payload |-> files[inbox.name],
                 mapped |-> TRUE, linked |-> TRUE]
    /\ UNCHANGED viewer

\* shm_open fails, since the name is gone or for want of descriptors or rights,
\* or mmap fails on a file that could be opened.  The image callbacks return.
\* calculateHistogramFromMemory logs it and reads through MAP_FAILED.
MapFails ==
    /\ CallbackBegins
    /\ viewer' \in {"up", "dead"}
    /\ viewer' = "dead" => camera_info_initialized
    /\ UNCHANGED image

\* The end of the copy: the image is complete, munmap and close.
Unmap ==
    /\ viewer = "up"
    /\ image.mapped
    /\ image' = [image EXCEPT !.mapped = FALSE, !.linked = FALSE]
    /\ UNCHANGED <<vars, viewer, camera_info_initialized, inbox, pending>>

ViewerNext ==
    \/ PublisherStep
    \/ Arrive
    \/ CameraInfo
    \/ Skip
    \/ Map
    \/ MapFails
    \/ Unmap

ViewerSpec == ViewerInit /\ [][ViewerNext]_<<vars, viewerVars>>

----------------------------------------------------------------------------
\* The publisher that sent a message is the one that runs or ran last, and it
\* could resize its files.
SameRun(message) == message.payload[1] = run /\ "resize" \notin failed

\* A file that could be opened is the one the message announced, and it stays
\* so until it is unmapped, whatever the publisher does to its name: however late
\* the message is handled, the image shows the window that was announced
\* (calculateHistogramFromMemory, histogramMemoryCallback, and the publisher's
\* publish and cleanSharedMemory).  Only a new run of the publisher breaks this.
ImageAsAnnounced ==
    image # Blank /\ SameRun(image.message) =>
      image.payload = image.message.payload

\* A callback that begins within the lifetime of its message's file, while the
\* publisher that sent it goes on, finds that file, and in it the window that was
\* announced, whatever failed in the publisher (publish, cleanSharedMemory, and
\* the callbacks' shm_open).  The file of a timely message is never why event
\* memory's callback reads through a failed mapping: what is left are failures
\* of the viewer's own calls on a file that is there.
TimelyMessagesFindTheirFile ==
    [][pending /\ ~pending' =>
         \/ now - inbox.time > Lifetime
         \/ phase # "up"
         \/ ~SameRun(inbox)
         \/ /\ inbox.name \in DOMAIN files
            /\ files[inbox.name] = inbox.payload]_<<vars, viewerVars>>
=============================================================================
