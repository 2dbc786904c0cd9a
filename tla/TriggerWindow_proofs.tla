------------------------ MODULE TriggerWindow_proofs ------------------------
(* Proofs about TriggerWindow, for every timespan and every cut of the events *)
(* into slices: the images of both modes, and event memory in raw playback.   *)
(* That its windows follow one another is proved of slices that end at every  *)
(* cutoff.                                                                    *)
EXTENDS TriggerWindow, EventWindow_proofs

ImageWindow == [start : Nat, end : Nat, events : SUBSET Nat]

TriggerTypes == TriggerTypeOK /\ images \in Seq(ImageWindow)

\* What is still to be handed over is not older than what was, nor than the end
\* of the slice before; in raw mode no trigger is older than what was handed over.
HandedOverInOrder ==
    /\ Ordered(stream) /\ Ordered(slice) /\ Ordered(triggers)
    /\ \A k \in 1..Len(stream) : stream[k] <= slice_end
    /\ \A i \in 1..Len(slice) : slice[i] <= slice_end
    /\ \A i \in 1..Len(triggers) : triggers[i] <= slice_end
    /\ \A k \in 1..Len(stream), i \in 1..Len(slice) : stream[k] <= slice[i]
    /\ raw =>
         /\ \A k \in 1..Len(stream), i \in 1..Len(triggers) :
              stream[k] <= triggers[i]
         /\ until <= slice_end
         /\ \A i \in 1..Len(slice) : until <= slice[i]

\* The image being drawn is that of the time since the last trigger; in raw mode
\* it has everything of it.
OpenImage ==
    /\ trigger_window_start <= slice_end
    /\ \A i \in 1..Len(triggers) : trigger_window_start <= triggers[i]
    /\ \A k \in image_buffer : stream[k] >= trigger_window_start
    /\ raw =>
         /\ \A i \in 1..Len(slice) : trigger_window_start <= slice[i]
         /\ \A k \in 1..Len(stream) :
              stream[k] > trigger_window_start => k \in image_buffer

\* What is known of one published image.
SettledImage(w) ==
    /\ w.start <= w.end /\ w.end <= trigger_window_start
    /\ w.events \subseteq 1..Len(stream)
    /\ w.events \cap image_buffer = {}
    /\ \A k \in w.events : stream[k] >= w.start
    /\ raw =>
         /\ \A k \in w.events : stream[k] <= w.end
         /\ \A k \in 1..Len(stream) :
              stream[k] > w.start /\ stream[k] < w.end => k \in w.events

ImagesSettled ==
    /\ \A i \in 1..Len(images) :
         /\ SettledImage(images[i])
         /\ images[i].start = IF i = 1 THEN origin ELSE images[i - 1].end
    /\ trigger_window_start =
         IF Len(images) = 0 THEN origin ELSE images[Len(images)].end
    /\ \A i, j \in 1..Len(images) :
         i # j => images[i].events \cap images[j].events = {}

\* Raw: what event memory has processed is not past its cutoff and is in the
\* payload if it is after the start of the window, wherever a trigger has put
\* it; what is to come is not before that start.
OpenMemory ==
    raw =>
      /\ window_start_timestamp <= slice_end
      /\ \A i \in 1..Len(slice) : window_start_timestamp <= slice[i]
      /\ \A k \in 1..Len(stream) :
           /\ k < current => /\ stream[k] <= timestamp_cutoff
                             /\ stream[k] > window_start_timestamp => k \in buffer
           /\ k >= current => stream[k] >= window_start_timestamp
      /\ \A k \in buffer : k < current /\ stream[k] >= window_start_timestamp

\* What is known of one window event memory has published in raw mode.
SettledMemory(w) ==
    /\ w.end <= slice_end
    /\ \A i \in 1..Len(slice) : w.end <= slice[i]
    /\ \A k \in w.events :
         k \in 1..Len(stream) /\ w.start <= stream[k] /\ stream[k] <= w.end
    /\ \A k \in 1..Len(stream) :
         stream[k] > w.start /\ stream[k] < w.end => k \in w.events

MemorySettled ==
    raw => \A i \in 1..Len(published) : SettledMemory(published[i])

\* The inductive invariant.
TriggerInv ==
    /\ TriggerTypes
    /\ HandedOverInOrder
    /\ OpenImage
    /\ ImagesSettled
    /\ OpenMemory
    /\ MemorySettled

----------------------------------------------------------------------------
\* The types, spelled out.
LEMMA TriggerFacts ==
    ASSUME TriggerTypes
    PROVE  /\ TypeOK
           /\ stream \in Seq(Nat) /\ slice \in Seq(Nat) /\ triggers \in Seq(Nat)
           /\ Len(stream) \in Nat /\ Len(slice) \in Nat /\ Len(triggers) \in Nat
           /\ Len(images) \in Nat /\ Len(published) \in Nat
           /\ \A k \in 1..Len(stream) : stream[k] \in Nat
           /\ \A k \in 1..Len(slice) : slice[k] \in Nat
           /\ \A k \in 1..Len(triggers) : triggers[k] \in Nat
           /\ slice_end \in Nat /\ trigger_window_start \in Nat
           /\ image_buffer \subseteq 1..Len(stream)
           /\ \A i \in 1..Len(images) : images[i] \in ImageWindow
           /\ \A i \in 1..Len(published) : published[i] \in Window
<1>1. /\ TypeOK /\ slice \in Seq(Nat) /\ triggers \in Seq(Nat)
      /\ stream \in Seq(Nat) /\ published \in Seq(Window)
      /\ images \in Seq(ImageWindow)
      /\ slice_end \in Nat /\ trigger_window_start \in Nat
      /\ image_buffer \subseteq 1..Len(stream)
  BY DEF TriggerTypes, TriggerTypeOK, TypeOK
<1> QED
  BY <1>1, LenProperties, ElementOfSeq

\* Publishing one more image.
LEMMA ImageAppends ==
    ASSUME NEW w \in ImageWindow, images \in Seq(ImageWindow),
           images' = Append(images, w)
    PROVE  /\ images' \in Seq(ImageWindow)
           /\ Len(images) \in Nat
           /\ Len(images') = Len(images) + 1
           /\ \A i \in 1..Len(images) : images'[i] = images[i]
           /\ images'[Len(images) + 1] = w
  BY AppendProperties, LenProperties

\* Types of a state whose images are typed.
LEMMA ImageTypes ==
    ASSUME NEW s \in Seq(ImageWindow)
    PROVE  \A i \in 1..Len(s) :
             /\ {s[i].start, s[i].end} \subseteq Nat
             /\ s[i].start \in Nat /\ s[i].end \in Nat
             /\ s[i].events \subseteq Nat
<1>1. \A i \in 1..Len(s) : s[i] \in ImageWindow
  BY ElementOfSeq
<1> QED
  BY <1>1 DEF ImageWindow

----------------------------------------------------------------------------
(* Event memory.                                                              *)

\* A window of event memory is closed, and the next starts at s.
LEMMA MemoryCloses ==
    ASSUME TriggerTypes, OpenMemory, MemorySettled, raw,
           NEW w \in Window, NEW s \in Nat,
           published' = Append(published, w), buffer' = {},
           window_start_timestamp' = s, current' \in Nat, timestamp_cutoff' \in Nat,
           UNCHANGED <<raw, stream, slice, slice_end>>,
           s <= slice_end, \A i \in 1..Len(slice) : s <= slice[i],
           \A k \in 1..Len(stream) :
             /\ k < current' => stream[k] <= timestamp_cutoff' /\ stream[k] <= s
             /\ k >= current' => stream[k] >= s,
           SettledMemory(w)
    PROVE  OpenMemory' /\ MemorySettled'
<1>1. /\ slice_end' = slice_end /\ slice' = slice /\ stream' = stream
      /\ raw' = raw
  OBVIOUS
<1>2. /\ \A k \in 1..Len(stream) : stream[k] \in Nat
      /\ published \in Seq(Window)
  BY TriggerFacts DEF TypeOK
<1>3. OpenMemory'
  BY <1>1, <1>2 DEF OpenMemory
<1>4. \A v : SettledMemory(v) => SettledMemory(v)'
  BY <1>1 DEF SettledMemory
<1>5. ASSUME NEW i \in 1..Len(published')
      PROVE  SettledMemory(published'[i])
  <2>1. /\ Len(published') = Len(published) + 1 /\ Len(published) \in Nat
        /\ \A j \in 1..Len(published) : published'[j] = published[j]
        /\ published'[Len(published) + 1] = w
    BY <1>2, PublishAppends
  <2>2. i \in 1..Len(published) \/ i = Len(published) + 1
    BY <2>1
  <2> QED
    BY <2>1, <2>2 DEF MemorySettled
<1>6. MemorySettled'
  BY <1>1, <1>5 DEF MemorySettled, SettledMemory
<1> QED
  BY <1>3, <1>6

\* Steps that leave the images alone, and what is handed over.
LEMMA MemoryOnly ==
    ASSUME TriggerInv, TypeOK', OpenMemory', MemorySettled',
           UNCHANGED <<raw, stream, until, origin, sliceVars, imageVars>>
    PROVE  TriggerInv'
<1>1. /\ raw' = raw /\ stream' = stream /\ until' = until /\ origin' = origin
      /\ slice' = slice /\ triggers' = triggers /\ slice_end' = slice_end
      /\ trigger_window_start' = trigger_window_start
      /\ image_buffer' = image_buffer /\ images' = images
  BY DEF sliceVars, imageVars
<1>2. TriggerTypes'
  BY <1>1 DEF TriggerInv, TriggerTypes, TriggerTypeOK
<1>3. HandedOverInOrder'
  BY <1>1 DEF TriggerInv, HandedOverInOrder, Ordered
<1>4. OpenImage'
  BY <1>1 DEF TriggerInv, OpenImage
<1>5. ImagesSettled'
  BY <1>1 DEF TriggerInv, ImagesSettled, SettledImage
<1> QED
  BY <1>2, <1>3, <1>4, <1>5 DEF TriggerInv

\* Types of a state in which a window of event memory has just been closed.
LEMMA ClosedTypes ==
    ASSUME TriggerTypes, NEW w \in Window, NEW s \in Nat, NEW c \in Nat,
           published' = Append(published, w), ClearPayload, MoveWindow(s, c),
           c >= Timespan, current' \in 1..(Len(stream) + 1),
           UNCHANGED <<raw, stream, until, origin>>
    PROVE  TypeOK'
<1>1. TypeOK /\ published \in Seq(Window)
  BY DEF TriggerTypes, TriggerTypeOK, TypeOK
<1>2. published' \in Seq(Window)
  BY <1>1, PublishAppends
<1>3. /\ buffer' = {} /\ drawn' = {} /\ window_start_timestamp' = s
      /\ timestamp_cutoff' = c /\ start_timestamp' = c - Keep
      /\ raw' = raw /\ stream' = stream /\ until' = until /\ origin' = origin
  BY DEF ClearPayload, MoveWindow, KeptFrom
<1>4. c - Keep \in Nat
  BY TimespanAssumption
<1> QED
  BY <1>1, <1>2, <1>3, <1>4 DEF TypeOK

\* processEvents closes a window that an event is past.
LEMMA CloseStaleStep ==
    ASSUME TriggerInv, CloseStaleWindow, UNCHANGED <<sliceVars, imageVars>>
    PROVE  TriggerInv'
<1>1. TriggerTypes /\ TypeOK /\ HandedOverInOrder /\ OpenMemory /\ MemorySettled
  BY TriggerFacts DEF TriggerInv
<1>2. /\ Len(stream) \in Nat /\ current \in 1..(Len(stream) + 1)
      /\ current \in Nat
      /\ \A k \in 1..Len(stream) : stream[k] \in Nat
      /\ \A i \in 1..Len(slice) : slice[i] \in Nat
      /\ timestamp_cutoff \in Nat /\ window_start_timestamp \in Nat
      /\ slice_end \in Nat /\ Timespan \in Nat /\ Timespan >= 1
  BY <1>1, Types, TriggerFacts
<1>3. PICK c \in AdvancedCutoffs(stream[current]) : MoveWindow(c - Timespan, c)
  BY DEF CloseStaleWindow, ReopenAt
<1>4. current \in 1..Len(stream) /\ stream[current] > timestamp_cutoff
  BY <1>2 DEF CloseStaleWindow, Pending
<1>5. /\ c \in Nat /\ c >= timestamp_cutoff + Timespan
      /\ c < stream[current] + Timespan
  BY <1>2, <1>4 DEF AdvancedCutoffs
<1> DEFINE w == [start |-> window_start_timestamp, end |-> timestamp_cutoff,
                 events |-> buffer, image |-> drawn]
           s == c - Timespan
<1>6. s \in Nat /\ s >= timestamp_cutoff /\ s < stream[current]
      /\ c \in Nat /\ c >= Timespan
  BY <1>2, <1>4, <1>5
<1>7. w \in Window
  BY <1>1, <1>2, Types DEF Window, TypeOK
<1>8. /\ published' = Append(published, w) /\ ClearPayload /\ MoveWindow(s, c)
      /\ UNCHANGED <<raw, stream, current, until, origin>>
  BY <1>3 DEF CloseStaleWindow, Publish
<1> HIDE DEF w, s
<1>9. TypeOK'
  BY <1>1, <1>2, <1>6, <1>7, <1>8, ClosedTypes
<1>10. ASSUME raw
       PROVE  OpenMemory' /\ MemorySettled'
  <2>1. /\ window_start_timestamp' = s /\ timestamp_cutoff' = c /\ buffer' = {}
        /\ current' = current /\ UNCHANGED <<raw, stream, slice, slice_end>>
    BY <1>8 DEF MoveWindow, ClearPayload, sliceVars
  <2>2. /\ s <= slice_end /\ \A i \in 1..Len(slice) : s <= slice[i]
        /\ timestamp_cutoff <= slice_end
        /\ \A i \in 1..Len(slice) : timestamp_cutoff <= slice[i]
    BY <1>1, <1>2, <1>4, <1>6 DEF HandedOverInOrder
  <2>3. \A k \in 1..Len(stream) : k >= current => stream[k] >= stream[current]
    BY <1>1, <1>4 DEF HandedOverInOrder, Ordered
  <2>4. \A k \in 1..Len(stream) : k < current => stream[k] <= timestamp_cutoff
    BY <1>1, <1>10 DEF OpenMemory
  <2>5. \A k \in 1..Len(stream) :
          /\ k < current' => stream[k] <= timestamp_cutoff' /\ stream[k] <= s
          /\ k >= current' => stream[k] >= s
    BY <2>1, <2>3, <2>4, <1>2, <1>4, <1>5, <1>6
  <2>6. SettledMemory(w)
    <3>1. \A k \in buffer : /\ k \in 1..Len(stream) /\ k < current
                            /\ stream[k] >= window_start_timestamp
      BY <1>1, <1>10 DEF TypeOK, OpenMemory
    <3>2. \A k \in 1..Len(stream) :
            stream[k] > window_start_timestamp /\ stream[k] < timestamp_cutoff
              => k \in buffer
      BY <1>1, <1>2, <1>4, <1>10, <2>3 DEF OpenMemory
    <3> QED
      BY <2>2, <2>4, <3>1, <3>2 DEF SettledMemory, w
  <2> QED
    BY <1>1, <1>2, <1>5, <1>6, <1>7, <1>8, <1>10, <2>1, <2>2, <2>5, <2>6,
       MemoryCloses
<1>11. OpenMemory' /\ MemorySettled'
  BY <1>8, <1>10 DEF OpenMemory, MemorySettled
<1> QED
  BY <1>8, <1>9, <1>11, MemoryOnly

\* processEvents takes the rest of a batch that ends before the cutoff.
LEMMA FinishStep ==
    ASSUME TriggerInv, FinishBatch, UNCHANGED <<sliceVars, imageVars>>
    PROVE  TriggerInv'
<1>1. TriggerTypes /\ TypeOK /\ HandedOverInOrder /\ OpenMemory /\ MemorySettled
  BY TriggerFacts DEF TriggerInv
<1>2. /\ buffer' = buffer \cup Pending
      /\ drawn' = drawn \cup Shown(Pending)
      /\ current' = Len(stream) + 1
      /\ UNCHANGED <<raw, stream, until, origin, timestamp_cutoff,
                     window_start_timestamp, start_timestamp, published>>
      /\ slice' = slice /\ slice_end' = slice_end
  BY DEF FinishBatch, sliceVars
<1>3. /\ Len(stream) \in Nat /\ current \in 1..(Len(stream) + 1)
      /\ current \in Nat /\ timestamp_cutoff \in Nat
      /\ \A k \in 1..Len(stream) : stream[k] \in Nat
  BY <1>1, Types
<1>4. /\ \A k \in Pending : k \in 1..Len(stream)
      /\ \A k \in 1..Len(stream) : k < current \/ k \in Pending
      /\ \A k \in Pending : k >= current
      /\ Len(stream) \in 1..Len(stream)
      /\ \A k \in 1..Len(stream) : k < Len(stream) + 1
  BY <1>3 DEF Pending, FinishBatch
<1>5. \A k \in Pending : stream[k] <= timestamp_cutoff
  <2>1. \A k \in Pending : stream[k] <= stream[Len(stream)]
    BY <1>1, <1>3, <1>4 DEF HandedOverInOrder, Ordered
  <2> QED
    BY <2>1, <1>3, <1>4 DEF FinishBatch
<1>6. TypeOK'
  <2>1. current' \in 1..(Len(stream') + 1)
    BY <1>2, <1>3
  <2>2. buffer' \subseteq 1..Len(stream') /\ drawn' \subseteq buffer'
    BY <1>1, <1>2, <1>4 DEF TypeOK, Shown
  <2> QED
    BY <1>1, <1>2, <2>1, <2>2 DEF TypeOK
<1>7. OpenMemory'
  <2> SUFFICES ASSUME raw
               PROVE  OpenMemory'
    BY <1>2 DEF OpenMemory
  <2>1. \A k \in 1..Len(stream) :
          /\ stream[k] <= timestamp_cutoff
          /\ stream[k] > window_start_timestamp => k \in buffer'
    BY <1>1, <1>2, <1>4, <1>5 DEF OpenMemory
  <2>2. \A k \in buffer' : /\ k \in 1..Len(stream)
                           /\ stream[k] >= window_start_timestamp
    BY <1>1, <1>2, <1>4 DEF OpenMemory, TypeOK
  <2>3. \A k \in 1..Len(stream) : ~(k >= current') /\ k < current'
    BY <1>2, <1>3
  <2> QED
    BY <1>1, <1>2, <2>1, <2>2, <2>3 DEF OpenMemory
<1>8. MemorySettled'
  BY <1>1, <1>2 DEF MemorySettled, SettledMemory
<1> QED
  BY <1>2, <1>6, <1>7, <1>8, MemoryOnly

\* processEvents fills the window up to the cutoff.
LEMMA FillStep ==
    ASSUME TriggerInv, FillWindow, UNCHANGED <<sliceVars, imageVars>>
    PROVE  TriggerInv'
<1>1. TriggerTypes /\ TypeOK /\ HandedOverInOrder /\ OpenMemory /\ MemorySettled
  BY TriggerFacts DEF TriggerInv
<1>2. /\ Len(stream) \in Nat /\ current \in 1..(Len(stream) + 1)
      /\ current \in Nat
      /\ \A k \in 1..Len(stream) : stream[k] \in Nat
      /\ \A i \in 1..Len(slice) : slice[i] \in Nat
      /\ timestamp_cutoff \in Nat /\ window_start_timestamp \in Nat
      /\ slice_end \in Nat /\ Timespan \in Nat /\ Timespan >= 1
  BY <1>1, Types, TriggerFacts
<1>3. PICK upper \in UpperBounds :
        /\ Publish(buffer \cup (current..upper),
                   drawn \cup Shown(current..upper))
        /\ current' = upper + 1
  BY DEF FillWindow
<1>4. /\ upper \in current..Len(stream) /\ upper \in 1..Len(stream)
      /\ upper \in Nat /\ stream[upper] <= timestamp_cutoff
      /\ \A i \in (upper + 1)..Len(stream) : stream[i] > timestamp_cutoff
      /\ Len(stream) \in 1..Len(stream)
      /\ stream[Len(stream)] >= timestamp_cutoff
  BY <1>2 DEF UpperBounds, Pending, FillWindow
<1> DEFINE e == buffer \cup (current..upper)
           w == [start |-> window_start_timestamp, end |-> timestamp_cutoff,
                 events |-> e, image |-> drawn \cup Shown(current..upper)]
           c == timestamp_cutoff + Timespan
<1>5. \A k \in current..upper : k \in 1..Len(stream) /\ k <= upper
  BY <1>2, <1>4
<1>6. \A k \in current..upper : stream[k] <= timestamp_cutoff
  <2>1. \A k \in current..upper : stream[k] <= stream[upper]
    BY <1>1, <1>4, <1>5 DEF HandedOverInOrder, Ordered
  <2> QED
    BY <2>1, <1>2, <1>4, <1>5
<1>7. w \in Window
  <2>1. e \subseteq 1..Len(stream)
    BY <1>1, <1>5 DEF TypeOK
  <2>2. 1..Len(stream) \subseteq Nat
    OBVIOUS
  <2>3. e \subseteq Nat
    BY <2>1, <2>2
  <2>4. drawn \cup Shown(current..upper) \subseteq e
    BY <1>1 DEF TypeOK, Shown
  <2> QED
    BY <1>2, <2>3, <2>4 DEF Window
<1>8. /\ published' = Append(published, w) /\ ClearPayload
      /\ MoveWindow(timestamp_cutoff, c) /\ c \in Nat /\ c >= Timespan
      /\ UNCHANGED <<raw, stream, until, origin>>
      /\ current' \in 1..(Len(stream) + 1) /\ current' \in Nat
  BY <1>2, <1>3, <1>4 DEF FillWindow, Publish
<1> HIDE DEF w, c
<1>9. TypeOK'
  BY <1>1, <1>2, <1>7, <1>8, ClosedTypes
<1>10. ASSUME raw
       PROVE  OpenMemory' /\ MemorySettled'
  <2>1. /\ window_start_timestamp' = timestamp_cutoff /\ timestamp_cutoff' = c
        /\ buffer' = {} /\ current' = upper + 1
        /\ UNCHANGED <<raw, stream, slice, slice_end>>
    BY <1>3, <1>8 DEF MoveWindow, ClearPayload, sliceVars
  <2>2. /\ timestamp_cutoff <= slice_end
        /\ \A i \in 1..Len(slice) : timestamp_cutoff <= slice[i]
    BY <1>1, <1>2, <1>4 DEF HandedOverInOrder
  <2>3. \A k \in 1..Len(stream) :
          /\ k < upper + 1 => stream[k] <= timestamp_cutoff
          /\ k >= upper + 1 => stream[k] > timestamp_cutoff
    <3>1. \A k \in 1..Len(stream) :
            k < upper + 1 => k < current \/ k \in current..upper
      BY <1>2, <1>4
    <3> QED
      BY <1>1, <1>2, <1>4, <1>6, <1>10, <3>1 DEF OpenMemory
  <2>4. c >= timestamp_cutoff
    BY <1>2 DEF c
  <2>5. \A k \in 1..Len(stream) :
          /\ k < current' => /\ stream[k] <= timestamp_cutoff'
                             /\ stream[k] <= timestamp_cutoff
          /\ k >= current' => stream[k] >= timestamp_cutoff
    BY <2>1, <2>3, <2>4, <1>2, <1>4, <1>8
  <2>6. SettledMemory(w)
    <3>1. \A k \in e : /\ k \in 1..Len(stream)
                       /\ stream[k] >= window_start_timestamp
                       /\ stream[k] <= timestamp_cutoff
      <4>1. \A k \in buffer : /\ k \in 1..Len(stream)
                              /\ stream[k] >= window_start_timestamp
                              /\ stream[k] <= timestamp_cutoff
        BY <1>1, <1>10 DEF TypeOK, OpenMemory
      <4>2. \A k \in current..upper : k >= current
        BY <1>2, <1>4
      <4>3. \A k \in current..upper :
              /\ k \in 1..Len(stream)
              /\ stream[k] >= window_start_timestamp
              /\ stream[k] <= timestamp_cutoff
        BY <1>1, <1>5, <1>6, <1>10, <4>2 DEF OpenMemory
      <4> QED
        BY <4>1, <4>3
    <3>2. \A k \in 1..Len(stream) :
            stream[k] > window_start_timestamp /\ stream[k] < timestamp_cutoff
              => k \in e
      <4> SUFFICES ASSUME NEW k \in 1..Len(stream),
                          stream[k] > window_start_timestamp,
                          stream[k] < timestamp_cutoff
                   PROVE  k \in e
        OBVIOUS
      <4>1. k < current \/ k \in current..upper
        BY <1>2, <1>4, <2>3
      <4> QED
        BY <1>1, <1>10, <4>1 DEF OpenMemory
    <3> HIDE DEF e
    <3> QED
      BY <2>2, <3>1, <3>2 DEF SettledMemory, w
  <2> QED
    BY <1>1, <1>2, <1>7, <1>8, <1>10, <2>1, <2>2, <2>5, <2>6, MemoryCloses
<1>11. OpenMemory' /\ MemorySettled'
  BY <1>8, <1>10 DEF OpenMemory, MemorySettled
<1> QED
  BY <1>8, <1>9, <1>11, MemoryOnly

\* publishUntil closes a window the time has passed.
LEMMA UntilStep ==
    ASSUME TriggerInv, PublishWindowUntil, UNCHANGED <<sliceVars, imageVars>>
    PROVE  TriggerInv'
<1>1. TriggerTypes /\ TypeOK /\ HandedOverInOrder /\ OpenMemory /\ MemorySettled
  BY TriggerFacts DEF TriggerInv
<1>2. /\ Len(stream) \in Nat /\ current \in 1..(Len(stream) + 1)
      /\ current \in Nat /\ until \in Nat
      /\ \A k \in 1..Len(stream) : stream[k] \in Nat
      /\ \A i \in 1..Len(slice) : slice[i] \in Nat
      /\ timestamp_cutoff \in Nat /\ window_start_timestamp \in Nat
      /\ slice_end \in Nat /\ Timespan \in Nat /\ Timespan >= 1
  BY <1>1, Types, TriggerFacts
<1> DEFINE w == [start |-> window_start_timestamp, end |-> timestamp_cutoff,
                 events |-> buffer, image |-> drawn]
           c == timestamp_cutoff + Timespan
<1>3. w \in Window
  BY <1>1, <1>2, Types DEF Window, TypeOK
<1>4. /\ published' = Append(published, w) /\ ClearPayload
      /\ MoveWindow(timestamp_cutoff, c) /\ c \in Nat /\ c >= Timespan
      /\ UNCHANGED <<raw, stream, current, until, origin>>
      /\ until >= timestamp_cutoff
      /\ \A k \in 1..Len(stream) : k < current /\ ~(k >= current)
  BY <1>2 DEF PublishWindowUntil, Publish, Pending
<1> HIDE DEF w, c
<1>5. TypeOK'
  BY <1>1, <1>2, <1>3, <1>4, ClosedTypes
<1>6. ASSUME raw
      PROVE  OpenMemory' /\ MemorySettled'
  <2>1. /\ window_start_timestamp' = timestamp_cutoff /\ timestamp_cutoff' = c
        /\ buffer' = {} /\ current' = current
        /\ UNCHANGED <<raw, stream, slice, slice_end>>
    BY <1>4 DEF MoveWindow, ClearPayload, sliceVars
  <2>2. /\ timestamp_cutoff <= slice_end
        /\ \A i \in 1..Len(slice) : timestamp_cutoff <= slice[i]
    BY <1>1, <1>2, <1>4, <1>6 DEF HandedOverInOrder
  <2>3. \A k \in 1..Len(stream) : stream[k] <= timestamp_cutoff
    BY <1>1, <1>4, <1>6 DEF OpenMemory
  <2>4. c >= timestamp_cutoff
    BY <1>2 DEF c
  <2>5. \A k \in 1..Len(stream) :
          /\ k < current' => /\ stream[k] <= timestamp_cutoff'
                             /\ stream[k] <= timestamp_cutoff
          /\ k >= current' => stream[k] >= timestamp_cutoff
    BY <2>1, <2>3, <2>4, <1>2, <1>4
  <2>6. SettledMemory(w)
    <3>1. \A k \in buffer : /\ k \in 1..Len(stream)
                            /\ stream[k] >= window_start_timestamp
      BY <1>1, <1>6 DEF TypeOK, OpenMemory
    <3>2. \A k \in 1..Len(stream) :
            stream[k] > window_start_timestamp => k \in buffer
      BY <1>1, <1>4, <1>6 DEF OpenMemory
    <3> QED
      BY <2>2, <2>3, <3>1, <3>2 DEF SettledMemory, w
  <2> QED
    BY <1>1, <1>2, <1>3, <1>4, <1>6, <2>1, <2>2, <2>5, <2>6, MemoryCloses
<1>7. OpenMemory' /\ MemorySettled'
  BY <1>4, <1>6 DEF OpenMemory, MemorySettled
<1> QED
  BY <1>4, <1>5, <1>7, MemoryOnly

----------------------------------------------------------------------------
(* Events and triggers.                                                       *)

\* Events are handed over: b of what the slice had, and rest is left.
LEMMA HandOver ==
    ASSUME TriggerInv, Idle, NEW b \in Seq(Nat), NEW rest \in Seq(Nat),
           Ordered(b), Ordered(rest),
           \A i \in 1..Len(b) : \E j \in 1..Len(slice) : b[i] = slice[j],
           \A i \in 1..Len(rest) : \E j \in 1..Len(slice) : rest[i] = slice[j],
           \A i \in 1..Len(b), j \in 1..Len(rest) : b[i] <= rest[j],
           raw => \A i \in 1..Len(b), j \in 1..Len(triggers) :
                    b[i] <= triggers[j],
           Accumulate(b), slice' = rest, UNCHANGED <<raw, triggers, slice_end>>
    PROVE  TriggerInv'
<1> DEFINE n == Len(stream)
           new == {n + i : i \in {j \in 1..Len(b) : b[j] >= trigger_window_start}}
<1>1. TriggerTypes /\ TypeOK /\ HandedOverInOrder /\ OpenMemory /\ MemorySettled
      /\ OpenImage /\ ImagesSettled
  BY TriggerFacts DEF TriggerInv
<1>2. /\ n \in Nat /\ Len(b) \in Nat /\ Len(rest) \in Nat
      /\ stream \in Seq(Nat)
      /\ \A k \in 1..n : stream[k] \in Nat
      /\ \A k \in 1..Len(b) : b[k] \in Nat
      /\ \A k \in 1..Len(rest) : rest[k] \in Nat
      /\ \A i \in 1..Len(slice) : slice[i] \in Nat
      /\ slice_end \in Nat /\ trigger_window_start \in Nat
      /\ current \in 1..(n + 1) /\ current > n
      /\ image_buffer \subseteq 1..n
  BY <1>1, Types, TriggerFacts, LenProperties, ElementOfSeq DEF Idle
<1>3. /\ stream' = stream \o b /\ image_buffer' = image_buffer \cup new
      /\ UNCHANGED <<raw, current, until, origin, timestamp_cutoff,
                     window_start_timestamp, start_timestamp, buffer, drawn,
                     published, trigger_window_start, images, triggers,
                     slice_end>>
      /\ slice' = rest
  BY DEF Accumulate
<1>u. /\ raw' = raw /\ trigger_window_start' = trigger_window_start
      /\ slice_end' = slice_end /\ triggers' = triggers
  BY <1>3
<1>4. \A i \in 1..Len(b), k \in 1..n : stream[k] <= b[i]
  BY <1>1 DEF HandedOverInOrder
<1>5. \A i \in 1..Len(b) : stream # <<>> => b[i] >= stream[Len(stream)]
  <2>1. stream # <<>> => Len(stream) \in 1..Len(stream)
    BY <1>2, EmptySeq
  <2> QED
    BY <1>2, <1>4, <2>1
<1>6. /\ stream' \in Seq(Nat) /\ Len(stream') = n + Len(b)
      /\ \A k \in 1..n : stream'[k] = stream[k]
      /\ \A k \in (n + 1)..Len(stream') :
           k - n \in 1..Len(b) /\ stream'[k] = b[k - n]
      /\ Ordered(stream')
  BY <1>1, <1>2, <1>3, <1>5, OrderedConcat DEF HandedOverInOrder
<1>7. /\ 1..n \subseteq 1..Len(stream')
      /\ \A k \in 1..Len(stream') : k \in 1..n \/ k \in (n + 1)..Len(stream')
      /\ \A k \in (n + 1)..Len(stream') : k \notin 1..n
      /\ \A k \in 1..Len(stream') : k < current => k \in 1..n
      /\ \A k \in 1..n : k < current
  BY <1>2, <1>6
<1>8. /\ new \subseteq (n + 1)..Len(stream')
      /\ \A k \in new : stream'[k] >= trigger_window_start
      /\ \A k \in (n + 1)..Len(stream') :
           stream'[k] >= trigger_window_start => k \in new
  <2>1. \A j \in 1..Len(b) : n + j \in (n + 1)..Len(stream') /\ (n + j) - n = j
    BY <1>2, <1>6
  <2>2. \A k \in (n + 1)..Len(stream') : k = n + (k - n)
    BY <1>2
  <2>3. \A k \in new : \E j \in 1..Len(b) : /\ b[j] >= trigger_window_start
                                           /\ k = n + j
    OBVIOUS
  <2>4. \A j \in 1..Len(b) : b[j] >= trigger_window_start => n + j \in new
    OBVIOUS
  <2> HIDE DEF new, n
  <2>5. \A j \in 1..Len(b) : stream'[n + j] = b[j]
    BY <1>6, <2>1
  <2>6. new \subseteq (n + 1)..Len(stream')
    BY <2>1, <2>3
  <2>7. \A k \in new : stream'[k] >= trigger_window_start
    BY <2>3, <2>5
  <2>8. \A k \in (n + 1)..Len(stream') :
          stream'[k] >= trigger_window_start => k \in new
    <3> TAKE k \in (n + 1)..Len(stream')
    <3>1. k - n \in 1..Len(b) /\ stream'[k] = b[k - n] /\ k = n + (k - n)
      BY <1>6, <2>2
    <3> QED
      BY <3>1, <2>4
  <2> QED
    BY <2>6, <2>7, <2>8
<1>9. \A k \in (n + 1)..Len(stream') : \E j \in 1..Len(slice) :
        stream'[k] = slice[j]
  <2> TAKE k \in (n + 1)..Len(stream')
  <2>1. k - n \in 1..Len(b) /\ stream'[k] = b[k - n]
    BY <1>6
  <2> QED
    BY <2>1
<1> HIDE DEF new
<1>10. TypeOK'
  <2>1. current' \in 1..(Len(stream') + 1)
    BY <1>2, <1>3, <1>6
  <2>2. buffer' \subseteq 1..Len(stream') /\ drawn' \subseteq buffer'
    BY <1>1, <1>3, <1>7 DEF TypeOK
  <2> QED
    BY <1>1, <1>3, <1>6, <2>1, <2>2 DEF TypeOK
<1>11. TriggerTypes'
  <2>1. image_buffer' \subseteq 1..Len(stream')
    BY <1>2, <1>3, <1>7, <1>8, <1>6
  <2>2. \A i \in 1..Len(images') :
          /\ {images'[i].start, images'[i].end} \subseteq Nat
          /\ images'[i].events \subseteq 1..Len(stream')
    BY <1>1, <1>3, <1>7 DEF TriggerTypes, TriggerTypeOK
  <2> QED
    BY <1>1, <1>3, <1>10, <2>1, <2>2 DEF TriggerTypes, TriggerTypeOK
<1>12. HandedOverInOrder'
  <2>1. \A k \in 1..Len(stream') : stream'[k] <= slice_end
    BY <1>1, <1>6, <1>7, <1>9 DEF HandedOverInOrder
  <2>2. \A i \in 1..Len(rest) : rest[i] <= slice_end
    BY <1>1 DEF HandedOverInOrder
  <2>3. \A k \in 1..Len(stream'), i \in 1..Len(rest) : stream'[k] <= rest[i]
    BY <1>1, <1>6, <1>7 DEF HandedOverInOrder
  <2>4. raw => /\ \A k \in 1..Len(stream'), i \in 1..Len(triggers) :
                    stream'[k] <= triggers[i]
               /\ \A i \in 1..Len(rest) : until <= rest[i]
    BY <1>1, <1>6, <1>7 DEF HandedOverInOrder
  <2> QED
    BY <1>1, <1>3, <1>6, <2>1, <2>2, <2>3, <2>4 DEF HandedOverInOrder
<1>13. OpenImage'
  <2>1. \A k \in image_buffer' : stream'[k] >= trigger_window_start
    BY <1>1, <1>2, <1>3, <1>6, <1>8 DEF OpenImage
  <2>2. raw => \A i \in 1..Len(rest) : trigger_window_start <= rest[i]
    BY <1>1 DEF OpenImage
  <2>3. raw => \A k \in 1..Len(stream') :
                 stream'[k] > trigger_window_start => k \in image_buffer'
    <3> SUFFICES ASSUME raw, NEW k \in 1..Len(stream'),
                        stream'[k] > trigger_window_start
                 PROVE  k \in image_buffer'
      OBVIOUS
    <3>1. CASE k \in 1..n
      BY <1>1, <1>3, <1>6, <3>1 DEF OpenImage
    <3>2. CASE k \in (n + 1)..Len(stream')
      <4>1. stream'[k] \in Nat
        BY <1>2, <1>6, <3>2
      <4> QED
        BY <4>1, <1>2, <1>3, <1>8, <3>2
    <3> QED
      BY <1>7, <3>1, <3>2
  <2>4. /\ trigger_window_start <= slice_end
        /\ \A i \in 1..Len(triggers) : trigger_window_start <= triggers[i]
    BY <1>1 DEF OpenImage
  <2> QED
    BY <1>u, <2>1, <2>2, <2>3, <2>4 DEF OpenImage
<1>14. ASSUME NEW i \in 1..Len(images)
       PROVE  SettledImage(images[i])'
  <2> DEFINE w == images[i]
  <2>0. SettledImage(w)
    BY <1>1 DEF ImagesSettled
  <2>a. w.start \in Nat /\ w.end \in Nat /\ w' = w
    <3>1. w \in ImageWindow
      BY <1>1, TriggerFacts
    <3>2. w' = w
      BY <1>3
    <3> HIDE DEF w
    <3> QED
      BY <3>1, <3>2 DEF ImageWindow
  <2>1. w.events \subseteq 1..Len(stream') /\ w.events \cap image_buffer' = {}
    BY <1>3, <1>7, <1>8, <2>0 DEF SettledImage
  <2>2. \A k \in w.events : stream'[k] = stream[k]
    BY <1>6, <2>0 DEF SettledImage
  <2>3. raw => \A k \in 1..Len(stream') :
                 stream'[k] > w.start /\ stream'[k] < w.end => k \in w.events
    <3> SUFFICES ASSUME raw, NEW k \in 1..Len(stream'), stream'[k] > w.start,
                        stream'[k] < w.end
                 PROVE  k \in w.events
      OBVIOUS
    <3>1. CASE k \in 1..n
      BY <1>6, <2>0, <3>1 DEF SettledImage
    <3>2. CASE k \in (n + 1)..Len(stream')
      <4>1. PICK j \in 1..Len(slice) : stream'[k] = slice[j]
        BY <1>9, <3>2
      <4>2. slice[j] >= trigger_window_start /\ w.end <= trigger_window_start
        BY <1>1, <2>0 DEF OpenImage, SettledImage
      <4> QED
        BY <4>1, <4>2, <1>2, <2>a
    <3> QED
      BY <1>7, <3>1, <3>2
  <2> QED
    BY <1>u, <2>0, <2>a, <2>1, <2>2, <2>3 DEF SettledImage
<1>15. ImagesSettled'
  BY <1>1, <1>3, <1>14 DEF ImagesSettled
<1>16. OpenMemory'
  <2> SUFFICES ASSUME raw
               PROVE  OpenMemory'
    BY <1>u DEF OpenMemory
  <2>1. \A i \in 1..Len(rest) : window_start_timestamp <= rest[i]
    BY <1>1 DEF OpenMemory
  <2>2. \A k \in 1..Len(stream') :
          k < current => /\ stream'[k] <= timestamp_cutoff
                         /\ stream'[k] > window_start_timestamp => k \in buffer
    BY <1>1, <1>6, <1>7 DEF OpenMemory
  <2>3. \A k \in 1..Len(stream') :
          k >= current => stream'[k] >= window_start_timestamp
    <3> SUFFICES ASSUME NEW k \in 1..Len(stream'), k >= current
                 PROVE  stream'[k] >= window_start_timestamp
      OBVIOUS
    <3>1. k \in (n + 1)..Len(stream')
      BY <1>2, <1>7
    <3> QED
      BY <1>1, <1>9, <3>1 DEF OpenMemory
  <2>4. \A k \in buffer : k < current /\ stream'[k] >= window_start_timestamp
    BY <1>1, <1>6 DEF OpenMemory, TypeOK
  <2> QED
    BY <1>1, <1>3, <2>1, <2>2, <2>3, <2>4 DEF OpenMemory
<1>17. ASSUME raw, NEW i \in 1..Len(published)
       PROVE  SettledMemory(published[i])'
  <2> DEFINE w == published[i]
  <2>0. SettledMemory(w) /\ w.end \in Nat /\ w' = w
    BY <1>1, <1>3, <1>17, TriggerFacts DEF MemorySettled, Window
  <2>1. \A j \in 1..Len(rest) : w.end <= rest[j]
    BY <2>0 DEF SettledMemory
  <2>2. \A k \in w.events :
          k \in 1..Len(stream') /\ w.start <= stream'[k] /\ stream'[k] <= w.end
    BY <1>6, <1>7, <2>0 DEF SettledMemory
  <2>3. \A k \in 1..Len(stream') :
          stream'[k] > w.start /\ stream'[k] < w.end => k \in w.events
    <3> SUFFICES ASSUME NEW k \in 1..Len(stream'), stream'[k] > w.start,
                        stream'[k] < w.end
                 PROVE  k \in w.events
      OBVIOUS
    <3>1. CASE k \in 1..n
      BY <1>6, <2>0, <3>1 DEF SettledMemory
    <3>2. CASE k \in (n + 1)..Len(stream')
      <4>1. PICK j \in 1..Len(slice) : stream'[k] = slice[j]
        BY <1>9, <3>2
      <4>2. slice[j] >= w.end
        BY <2>0 DEF SettledMemory
      <4> QED
        BY <4>1, <4>2, <1>2, <2>0
    <3> QED
      BY <1>7, <3>1, <3>2
  <2> QED
    BY <1>3, <2>0, <2>1, <2>2, <2>3 DEF SettledMemory
<1>18. MemorySettled'
  BY <1>3, <1>u, <1>17 DEF MemorySettled
<1> QED
  BY <1>11, <1>12, <1>13, <1>15, <1>16, <1>18 DEF TriggerInv

\* A trigger is handled: every module publishes what it has since the last one.
LEMMA TriggerHandled ==
    ASSUME TriggerInv, Idle, triggers # <<>>,
           PublishMemoryAt(triggers[1]), PublishImagesAt(triggers[1]),
           triggers' = Tail(triggers), UNCHANGED <<raw, slice, slice_end>>,
           raw => \A i \in 1..Len(slice) : triggers[1] <= slice[i]
    PROVE  TriggerInv'
<1> DEFINE t == triggers[1]
           m == [start |-> window_start_timestamp, end |-> t,
                 events |-> buffer, image |-> drawn]
           w == [start |-> trigger_window_start, end |-> t,
                 events |-> image_buffer]
<1>1. TriggerTypes /\ TypeOK /\ HandedOverInOrder /\ OpenMemory /\ MemorySettled
      /\ OpenImage /\ ImagesSettled
  BY TriggerFacts DEF TriggerInv
<1>2. /\ Len(stream) \in Nat /\ Len(triggers) \in Nat /\ Len(images) \in Nat
      /\ \A k \in 1..Len(stream) : stream[k] \in Nat
      /\ \A i \in 1..Len(triggers) : triggers[i] \in Nat
      /\ \A i \in 1..Len(slice) : slice[i] \in Nat
      /\ slice_end \in Nat /\ trigger_window_start \in Nat
      /\ current \in 1..(Len(stream) + 1) /\ current > Len(stream)
      /\ current \in Nat /\ origin \in Nat
      /\ window_start_timestamp \in Nat /\ timestamp_cutoff \in Nat
      /\ image_buffer \subseteq 1..Len(stream) /\ image_buffer \subseteq Nat
      /\ images \in Seq(ImageWindow) /\ triggers \in Seq(Nat)
      /\ published \in Seq(Window)
  <2>1. 1..Len(stream) \subseteq Nat
    OBVIOUS
  <2> QED
    BY <1>1, <2>1, Types, TriggerFacts DEF Idle, TriggerTypes, TypeOK
<1>3. 1 \in 1..Len(triggers)
  BY <1>2, EmptySeq
<1>4. /\ t \in Nat /\ t <= slice_end /\ trigger_window_start <= t
      /\ \A i \in 1..Len(triggers) : t <= triggers[i]
  BY <1>1, <1>2, <1>3 DEF HandedOverInOrder, OpenImage, Ordered
<1>5. /\ triggers' \in Seq(Nat) /\ Len(triggers') \in Nat
      /\ \A i \in 1..Len(triggers') :
           i + 1 \in 1..Len(triggers) /\ triggers'[i] = triggers[i + 1]
  BY <1>2, LenProperties
<1>6. /\ published' = Append(published, m) /\ buffer' = {} /\ drawn' = {}
      /\ window_start_timestamp' = t /\ images' = Append(images, w)
      /\ image_buffer' = {} /\ trigger_window_start' = t
      /\ raw' = raw /\ slice' = slice /\ slice_end' = slice_end
      /\ stream' = stream /\ current' = current /\ until' = until
      /\ origin' = origin /\ timestamp_cutoff' = timestamp_cutoff
      /\ start_timestamp' = start_timestamp
  BY DEF PublishMemoryAt, AnnounceMemory, PublishImagesAt, ClearPayload
<1>7. m \in Window /\ w \in ImageWindow
  <2>1. 1..Len(stream) \subseteq Nat
    OBVIOUS
  <2>2. buffer \subseteq Nat /\ drawn \subseteq Nat
    BY <1>1, <2>1 DEF TypeOK
  <2> QED
    BY <1>2, <1>4, <2>2 DEF Window, ImageWindow
<1>8. w.start = trigger_window_start /\ w.end = t /\ w.events = image_buffer
  OBVIOUS
<1>9. m.start = window_start_timestamp /\ m.end = t /\ m.events = buffer
  OBVIOUS
<1> HIDE DEF m, w, t
<1>10. /\ images' \in Seq(ImageWindow) /\ Len(images') = Len(images) + 1
       /\ \A i \in 1..Len(images) : images'[i] = images[i]
       /\ images'[Len(images) + 1] = w
  BY <1>2, <1>6, <1>7, ImageAppends
<1>11. \A i \in 1..Len(images') : i \in 1..Len(images) \/ i = Len(images) + 1
  BY <1>2, <1>10
<1>12. TriggerTypes'
  <2>1. published' \in Seq(Window)
    BY <1>2, <1>6, <1>7, PublishAppends
  <2>2. TypeOK'
    BY <1>1, <1>4, <1>6, <2>1 DEF TypeOK
  <2>3. \A i \in 1..Len(images') :
          /\ {images'[i].start, images'[i].end} \subseteq Nat
          /\ images'[i].events \subseteq 1..Len(stream)
    <3>1. /\ {w.start, w.end} \subseteq Nat /\ w.events \subseteq 1..Len(stream)
      BY <1>2, <1>4, <1>8
    <3> QED
      BY <1>1, <1>10, <1>11, <3>1 DEF TriggerTypes, TriggerTypeOK
  <2>4. {slice', triggers'} \subseteq Seq(Nat) /\ image_buffer' \subseteq 1..Len(stream')
        /\ {slice_end', trigger_window_start'} \subseteq Nat
    BY <1>1, <1>2, <1>4, <1>5, <1>6 DEF TriggerTypes, TriggerTypeOK
  <2> QED
    BY <1>6, <1>10, <2>2, <2>3, <2>4 DEF TriggerTypes, TriggerTypeOK
<1>13. HandedOverInOrder'
  <2>1. Ordered(triggers')
    <3> SUFFICES ASSUME NEW i \in 1..Len(triggers'), NEW j \in 1..Len(triggers'),
                        i <= j
                 PROVE  triggers'[i] <= triggers'[j]
      BY DEF Ordered
    <3>1. i + 1 <= j + 1
      BY <1>5
    <3> QED
      BY <1>1, <1>5, <3>1 DEF HandedOverInOrder, Ordered
  <2>2. \A i \in 1..Len(triggers') : triggers'[i] <= slice_end
    BY <1>1, <1>5 DEF HandedOverInOrder
  <2>3. raw => \A k \in 1..Len(stream), i \in 1..Len(triggers') :
                 stream[k] <= triggers'[i]
    BY <1>1, <1>5 DEF HandedOverInOrder
  <2> QED
    BY <1>1, <1>6, <2>1, <2>2, <2>3 DEF HandedOverInOrder, Ordered
<1>14. raw => \A k \in 1..Len(stream) : stream[k] <= t
  BY <1>1, <1>3 DEF HandedOverInOrder, t
<1>15. OpenImage'
  <2>1. \A i \in 1..Len(triggers') : t <= triggers'[i]
    BY <1>4, <1>5
  <2>2. raw => \A i \in 1..Len(slice) : t <= slice[i]
    BY DEF t
  <2>3. raw => \A k \in 1..Len(stream) : ~(stream[k] > t)
    BY <1>2, <1>4, <1>14
  <2> QED
    BY <1>4, <1>6, <2>1, <2>2, <2>3 DEF OpenImage
<1>16. ASSUME NEW i \in 1..Len(images')
       PROVE  SettledImage(images[i])'
  <2>1. CASE i \in 1..Len(images)
    <3>1. SettledImage(images[i]) /\ images[i] \in ImageWindow
      BY <1>1, <2>1, TriggerFacts DEF ImagesSettled
    <3>2. images[i].end <= t
      BY <1>2, <1>4, <3>1 DEF SettledImage, ImageWindow
    <3>3. images'[i] = images[i]
      BY <1>10, <2>1
    <3> QED
      BY <1>6, <3>1, <3>2, <3>3 DEF SettledImage
  <2>2. CASE i = Len(images) + 1
    <3>1. \A k \in image_buffer : stream[k] >= trigger_window_start
      BY <1>1 DEF OpenImage
    <3>2. raw => /\ \A k \in image_buffer : stream[k] <= t
                 /\ \A k \in 1..Len(stream) :
                      stream[k] > trigger_window_start /\ stream[k] < t
                        => k \in image_buffer
      BY <1>1, <1>2, <1>14 DEF OpenImage
    <3>3. images'[i] = w
      BY <1>10, <2>2
    <3> QED
      <4>0. /\ stream' = stream /\ trigger_window_start' = t
            /\ image_buffer' = {} /\ raw' = raw
        BY <1>6
      <4>1. w.start <= w.end /\ w.end <= trigger_window_start'
        BY <1>4, <1>8, <4>0
      <4>a. /\ w.events \subseteq 1..Len(stream')
            /\ \A k \in w.events : stream'[k] >= w.start
        BY <1>2, <1>8, <3>1, <4>0
      <4>b. w.events \cap image_buffer' = {}
        BY <4>0
      <4>2. raw' => /\ \A k \in w.events : stream'[k] <= w.end
                    /\ \A k \in 1..Len(stream') :
                         stream'[k] > w.start /\ stream'[k] < w.end
                           => k \in w.events
        BY <1>8, <3>2, <4>0
      <4> QED
        BY <3>3, <4>1, <4>a, <4>b, <4>2 DEF SettledImage
  <2> QED
    BY <1>11, <2>1, <2>2
<1>17. ImagesSettled'
  <2>1. ASSUME NEW i \in 1..Len(images')
        PROVE  images'[i].start = IF i = 1 THEN origin ELSE images'[i - 1].end
    <3>1. CASE i \in 1..Len(images)
      <4>1. i # 1 => i - 1 \in 1..Len(images)
        BY <1>2, <3>1
      <4> QED
        BY <1>1, <1>10, <3>1, <4>1 DEF ImagesSettled
    <3>2. CASE i = Len(images) + 1
      <4>1. i # 1 => i - 1 \in 1..Len(images) /\ i - 1 = Len(images)
                     /\ Len(images) # 0
        BY <1>2, <3>2
      <4>2. i = 1 => Len(images) = 0
        BY <1>2, <3>2
      <4>3. images'[i].start = trigger_window_start
        BY <1>8, <1>10, <3>2
      <4> QED
        BY <1>1, <1>10, <4>1, <4>2, <4>3 DEF ImagesSettled
    <3> QED
      BY <1>11, <3>1, <3>2
  <2>2. t = IF Len(images') = 0 THEN origin ELSE images'[Len(images')].end
    BY <1>2, <1>8, <1>10
  <2>3. ASSUME NEW i \in 1..Len(images'), NEW j \in 1..Len(images'), i # j
        PROVE  images'[i].events \cap images'[j].events = {}
    <3>1. \A k \in 1..Len(images) : images[k].events \cap w.events = {}
      BY <1>1, <1>8 DEF ImagesSettled, SettledImage
    <3> QED
      BY <1>1, <1>10, <1>11, <2>3, <3>1 DEF ImagesSettled
  <2> QED
    BY <1>6, <1>16, <2>1, <2>2, <2>3 DEF ImagesSettled
<1>18. ASSUME raw
       PROVE  OpenMemory' /\ MemorySettled'
  <2>1. \A i \in 1..Len(slice) : t <= slice[i]
    BY <1>18 DEF t
  <2>2. \A k \in 1..Len(stream) :
          /\ k < current' => stream[k] <= timestamp_cutoff' /\ stream[k] <= t
          /\ k >= current' => stream[k] >= t
    <3>1. \A k \in 1..Len(stream) : k < current /\ ~(k >= current)
      BY <1>2
    <3> QED
      BY <1>1, <1>6, <1>14, <1>18, <3>1 DEF OpenMemory
  <2>3. SettledMemory(m)
    <3>1. \A k \in buffer : /\ k \in 1..Len(stream)
                            /\ stream[k] >= window_start_timestamp
                            /\ stream[k] <= t
      BY <1>1, <1>14, <1>18 DEF OpenMemory, TypeOK
    <3>2. \A k \in 1..Len(stream) :
            stream[k] > window_start_timestamp => k \in buffer
      BY <1>1, <1>2, <1>18 DEF OpenMemory
    <3> QED
      BY <1>4, <1>9, <2>1, <3>1, <3>2 DEF SettledMemory
  <2>4. UNCHANGED <<raw, stream, slice, slice_end>>
    BY <1>6
  <2> QED
    BY <1>1, <1>2, <1>4, <1>6, <1>7, <1>18, <2>1, <2>2, <2>3, <2>4,
       MemoryCloses
<1>19. OpenMemory' /\ MemorySettled'
  BY <1>6, <1>18 DEF OpenMemory, MemorySettled
<1> QED
  BY <1>12, <1>13, <1>15, <1>17, <1>19 DEF TriggerInv

\* A new slice brings events and triggers that are not before the end of the last.
LEMMA NextSliceStep == TriggerInv /\ NextSlice => TriggerInv'
<1> SUFFICES ASSUME TriggerInv, NextSlice
             PROVE  TriggerInv'
  OBVIOUS
<1>1. TriggerTypes /\ TypeOK /\ HandedOverInOrder /\ OpenMemory /\ MemorySettled
      /\ OpenImage /\ ImagesSettled
  BY TriggerFacts DEF TriggerInv
<1>2. PICK t \in NextEnds :
        /\ slice_end' = t
        /\ slice' \in Batches(slice_end, t, MaxEvents - Len(stream))
        /\ triggers' \in Batches(slice_end, t, MaxTriggers - Len(images))
  BY DEF NextSlice
<1>3. /\ Len(stream) \in Nat /\ Len(images) \in Nat /\ Len(published) \in Nat
      /\ slice_end \in Nat /\ trigger_window_start \in Nat
      /\ window_start_timestamp \in Nat /\ until \in Nat
      /\ \A k \in 1..Len(stream) : stream[k] \in Nat
      /\ \A i \in 1..Len(published) : published[i].end \in Nat
  BY <1>1, Types, TriggerFacts DEF Window
<1>4. t \in Nat /\ t > slice_end
  BY SliceEndsAssumption, BoundsAssumption DEF NextEnds
<1>5. /\ MaxEvents - Len(stream) \in Int /\ MaxTriggers - Len(images) \in Int
  BY <1>3, BoundsAssumption, TriggersAssumption
<1>6. /\ slice' \in Seq(Nat) /\ Ordered(slice')
      /\ \A i \in 1..Len(slice') : slice'[i] \in slice_end..t
  BY <1>2, <1>3, <1>4, <1>5, BatchProperties
<1>7. /\ triggers' \in Seq(Nat) /\ Ordered(triggers')
      /\ \A i \in 1..Len(triggers') : triggers'[i] \in slice_end..t
  BY <1>2, <1>3, <1>4, <1>5, BatchProperties
<1>8. /\ raw' = raw /\ stream' = stream /\ current' = current /\ until' = until
      /\ origin' = origin /\ timestamp_cutoff' = timestamp_cutoff
      /\ window_start_timestamp' = window_start_timestamp
      /\ start_timestamp' = start_timestamp /\ buffer' = buffer
      /\ drawn' = drawn /\ published' = published
      /\ trigger_window_start' = trigger_window_start
      /\ image_buffer' = image_buffer /\ images' = images
  BY DEF NextSlice, vars, windowVars, imageVars
<1>9. TypeOK'
  BY <1>1, <1>8 DEF TypeOK
<1>10. TriggerTypes'
  BY <1>1, <1>2, <1>4, <1>6, <1>7, <1>8, <1>9 DEF TriggerTypes, TriggerTypeOK
<1>11. HandedOverInOrder'
  <2>1. \A k \in 1..Len(stream) : stream[k] <= slice_end
    BY <1>1 DEF HandedOverInOrder
  <2>2. /\ \A k \in 1..Len(stream) : stream[k] <= t
        /\ \A k \in 1..Len(stream), i \in 1..Len(slice') : stream[k] <= slice'[i]
        /\ \A k \in 1..Len(stream), i \in 1..Len(triggers') :
             stream[k] <= triggers'[i]
    BY <1>3, <1>4, <1>6, <1>7, <2>1
  <2>3. raw => until <= t /\ \A i \in 1..Len(slice') : until <= slice'[i]
    BY <1>3, <1>4, <1>6 DEF NextSlice
  <2>4. /\ \A i \in 1..Len(slice') : slice'[i] <= t
        /\ \A i \in 1..Len(triggers') : triggers'[i] <= t
    BY <1>3, <1>4, <1>6, <1>7
  <2>5. Ordered(stream') /\ Ordered(slice') /\ Ordered(triggers')
    BY <1>1, <1>6, <1>7, <1>8 DEF HandedOverInOrder, Ordered
  <2>6. slice_end' = t /\ stream' = stream /\ until' = until /\ raw' = raw
    BY <1>2, <1>8
  <2> QED
    BY <2>2, <2>3, <2>4, <2>5, <2>6 DEF HandedOverInOrder
<1>12. OpenImage'
  <2>1. /\ trigger_window_start <= t
        /\ \A i \in 1..Len(triggers') : trigger_window_start <= triggers'[i]
        /\ \A i \in 1..Len(slice') : trigger_window_start <= slice'[i]
    BY <1>1, <1>3, <1>4, <1>6, <1>7 DEF OpenImage
  <2> QED
    BY <1>1, <1>2, <1>8, <2>1 DEF OpenImage
<1>13. ImagesSettled'
  BY <1>1, <1>8 DEF ImagesSettled, SettledImage
<1>14. OpenMemory'
  <2>1. raw => /\ window_start_timestamp <= t
               /\ \A i \in 1..Len(slice') : window_start_timestamp <= slice'[i]
    BY <1>1, <1>3, <1>4, <1>6 DEF OpenMemory
  <2> QED
    BY <1>1, <1>2, <1>8, <2>1 DEF OpenMemory
<1>15. MemorySettled'
  <2>1. raw => \A i \in 1..Len(published) :
                 /\ published[i].end <= t
                 /\ \A j \in 1..Len(slice') : published[i].end <= slice'[j]
    <3>1. raw => \A i \in 1..Len(published) : published[i].end <= slice_end
      BY <1>1 DEF MemorySettled, SettledMemory
    <3> QED
      BY <1>3, <1>4, <1>6, <3>1
  <2>2. ASSUME raw, NEW i \in 1..Len(published)
        PROVE  SettledMemory(published[i])'
    <3>1. SettledMemory(published[i]) /\ published' = published
      BY <1>1, <1>8, <2>2 DEF MemorySettled
    <3> QED
      BY <1>2, <1>8, <2>1, <2>2, <3>1 DEF SettledMemory
  <2> QED
    BY <1>8, <2>2 DEF MemorySettled
<1> QED
  BY <1>10, <1>11, <1>12, <1>13, <1>14, <1>15 DEF TriggerInv

\* publishEventMemoryUntil only sets the time its loop runs to.
LEMMA PublishUntilStep == TriggerInv /\ PublishEventMemoryUntil => TriggerInv'
<1> SUFFICES ASSUME TriggerInv, PublishEventMemoryUntil
             PROVE  TriggerInv'
  OBVIOUS
<1>1. TriggerTypes /\ TypeOK /\ HandedOverInOrder /\ OpenMemory /\ MemorySettled
      /\ OpenImage /\ ImagesSettled
  BY TriggerFacts DEF TriggerInv
<1>2. slice_end \in Nat /\ until' = slice_end /\ Len(slice) = 0
  BY <1>1, TriggerFacts DEF PublishEventMemoryUntil
<1>3. /\ raw' = raw /\ stream' = stream /\ current' = current
      /\ origin' = origin /\ timestamp_cutoff' = timestamp_cutoff
      /\ window_start_timestamp' = window_start_timestamp
      /\ start_timestamp' = start_timestamp /\ buffer' = buffer
      /\ drawn' = drawn /\ published' = published
      /\ slice' = slice /\ triggers' = triggers /\ slice_end' = slice_end
      /\ trigger_window_start' = trigger_window_start
      /\ image_buffer' = image_buffer /\ images' = images
  BY DEF PublishEventMemoryUntil, sliceVars, imageVars
<1>4. TriggerTypes'
  BY <1>1, <1>2, <1>3 DEF TriggerTypes, TriggerTypeOK, TypeOK
<1>5. HandedOverInOrder'
  BY <1>1, <1>2, <1>3 DEF HandedOverInOrder, Ordered
<1>6. OpenImage' /\ ImagesSettled'
  BY <1>1, <1>3 DEF OpenImage, ImagesSettled, SettledImage
<1>7. OpenMemory' /\ MemorySettled'
  BY <1>1, <1>3 DEF OpenMemory, MemorySettled, SettledMemory
<1> QED
  BY <1>4, <1>5, <1>6, <1>7 DEF TriggerInv

\* Raw mode: events up to the next trigger at most.
LEMMA RawEventsStep == TriggerInv /\ RawEvents => TriggerInv'
<1> SUFFICES ASSUME TriggerInv, RawEvents
             PROVE  TriggerInv'
  OBVIOUS
<1>1. /\ slice \in Seq(Nat) /\ triggers \in Seq(Nat) /\ Ordered(slice)
      /\ Ordered(triggers) /\ Len(slice) \in Nat /\ Len(triggers) \in Nat
      /\ \A i \in 1..Len(slice) : slice[i] \in Nat
      /\ \A i \in 1..Len(triggers) : triggers[i] \in Nat
  BY TriggerFacts DEF TriggerInv, HandedOverInOrder
<1>2. PICK n \in 1..Len(slice) :
        /\ triggers # <<>> =>
             \E last \in Preceding(slice, triggers[1]) : n <= last
        /\ Accumulate(SubSeq(slice, 1, n))
        /\ slice' = SubSeq(slice, n + 1, Len(slice))
  BY DEF RawEvents
<1>3. /\ n \in Nat /\ n <= Len(slice)
      /\ triggers # <<>> => \A i \in 1..n : slice[i] <= triggers[1]
  <2>1. ASSUME triggers # <<>>
        PROVE  \A i \in 1..n : slice[i] <= triggers[1]
    <3>1. PICK last \in Preceding(slice, triggers[1]) : n <= last
      BY <1>2, <2>1
    <3>2. last \in Nat /\ \A i \in 1..last : slice[i] <= triggers[1]
      BY <1>1, <3>1 DEF Preceding
    <3> QED
      BY <1>1, <3>1, <3>2
  <2> QED
    BY <1>1, <2>1
<1> DEFINE b == SubSeq(slice, 1, n)
           rest == SubSeq(slice, n + 1, Len(slice))
<1>4. /\ b \in Seq(Nat) /\ Len(b) = n
      /\ \A i \in 1..n : b[i] = slice[i] /\ i \in 1..Len(slice)
  BY <1>1, <1>3
<1>5. /\ rest \in Seq(Nat) /\ Len(rest) = Len(slice) - n
      /\ \A i \in 1..(Len(slice) - n) :
           rest[i] = slice[n + i] /\ n + i \in 1..Len(slice)
  BY <1>1, <1>3
<1>6. Accumulate(b) /\ slice' = rest
  BY <1>2
<1> HIDE DEF b, rest
<1>7. Ordered(b)
  BY <1>1, <1>4 DEF Ordered
<1>8. Ordered(rest)
  <2> SUFFICES ASSUME NEW i \in 1..Len(rest), NEW j \in 1..Len(rest), i <= j
               PROVE  rest[i] <= rest[j]
    BY DEF Ordered
  <2>1. n + i <= n + j
    BY <1>3
  <2> QED
    BY <1>1, <1>5, <2>1 DEF Ordered
<1>9. \A i \in 1..Len(b), j \in 1..Len(rest) : b[i] <= rest[j]
  <2> SUFFICES ASSUME NEW i \in 1..Len(b), NEW j \in 1..Len(rest)
               PROVE  b[i] <= rest[j]
    OBVIOUS
  <2>1. i <= n + j /\ i \in 1..n /\ j \in 1..(Len(slice) - n)
    BY <1>3, <1>4, <1>5
  <2> QED
    BY <1>1, <1>4, <1>5, <2>1 DEF Ordered
<1>10. \A i \in 1..Len(b), j \in 1..Len(triggers) : b[i] <= triggers[j]
  <2> SUFFICES ASSUME NEW i \in 1..Len(b), NEW j \in 1..Len(triggers)
               PROVE  b[i] <= triggers[j]
    OBVIOUS
  <2>1. triggers # <<>> /\ 1 \in 1..Len(triggers) /\ 1 <= j
    BY <1>1
  <2>2. triggers[1] <= triggers[j]
    BY <1>1, <2>1 DEF Ordered
  <2>3. b[i] <= triggers[1] /\ b[i] \in Nat
    BY <1>1, <1>3, <1>4, <2>1
  <2> QED
    BY <1>1, <2>1, <2>2, <2>3
<1>11. \A i \in 1..Len(b) : \E j \in 1..Len(slice) : b[i] = slice[j]
  BY <1>4
<1>12. \A i \in 1..Len(rest) : \E j \in 1..Len(slice) : rest[i] = slice[j]
  BY <1>5
<1>13. Idle /\ UNCHANGED <<raw, triggers, slice_end>>
  BY DEF RawEvents
<1> QED
  BY <1>4, <1>5, <1>6, <1>7, <1>8, <1>9, <1>10, <1>11, <1>12, <1>13, HandOver

\* Live: all the events of a buffer.
LEMMA LiveEventsStep == TriggerInv /\ LiveEvents => TriggerInv'
<1> SUFFICES ASSUME TriggerInv, LiveEvents
             PROVE  TriggerInv'
  OBVIOUS
<1>1. slice \in Seq(Nat) /\ Ordered(slice)
  BY TriggerFacts DEF TriggerInv, HandedOverInOrder
<1>2. <<>> \in Seq(Nat) /\ Ordered(<<>>) /\ Len(<<>>) = 0
  BY DEF Ordered
<1>3. /\ Accumulate(slice) /\ slice' = <<>> /\ ~raw /\ Idle
      /\ UNCHANGED <<raw, triggers, slice_end>>
  BY DEF LiveEvents
<1>4. /\ \A i \in 1..Len(slice) : \E j \in 1..Len(slice) : slice[i] = slice[j]
      /\ \A i \in 1..Len(<<>>) : FALSE
  BY <1>2
<1> QED
  BY <1>1, <1>2, <1>3, <1>4, HandOver

\* Raw mode: a trigger that no event of the slice precedes.
LEMMA RawTriggerStep == TriggerInv /\ RawTrigger => TriggerInv'
<1> SUFFICES ASSUME TriggerInv, RawTrigger
             PROVE  TriggerInv'
  OBVIOUS
<1>1. /\ Len(slice) \in Nat /\ Len(triggers) \in Nat /\ triggers \in Seq(Nat)
      /\ \A i \in 1..Len(slice) : slice[i] \in Nat
      /\ \A i \in 1..Len(triggers) : triggers[i] \in Nat
  BY TriggerFacts DEF TriggerInv
<1>2. /\ Idle /\ triggers # <<>> /\ 0 \in Preceding(slice, triggers[1])
      /\ PublishMemoryAt(triggers[1]) /\ PublishImagesAt(triggers[1])
      /\ triggers' = Tail(triggers) /\ UNCHANGED <<raw, slice, slice_end>>
  BY DEF RawTrigger
<1>3. 1 \in 1..Len(triggers)
  BY <1>1, <1>2, EmptySeq
<1>4. \A i \in 1..Len(slice) : slice[i] > triggers[1]
  BY <1>1, <1>2 DEF Preceding
<1>5. \A i \in 1..Len(slice) : triggers[1] <= slice[i]
  BY <1>1, <1>3, <1>4
<1> QED
  BY <1>2, <1>5, TriggerHandled

\* Live: the trigger callback, whatever events have come.
LEMMA LiveTriggerStep == TriggerInv /\ LiveTrigger => TriggerInv'
  BY TriggerHandled DEF LiveTrigger

\* The session starts over.
LEMMA TriggerRestartStep == TriggerInv /\ TriggerRestart => TriggerInv'
<1> SUFFICES ASSUME TriggerInv, TriggerRestart
             PROVE  TriggerInv'
  OBVIOUS
<1>1. PICK o \in SessionOrigins :
        OpenSession(o) /\ slice_end' = o /\ trigger_window_start' = o
  BY DEF TriggerRestart
<1>2. /\ stream' = <<>> /\ current' = 1 /\ until' = o /\ origin' = o
      /\ window_start_timestamp' = o
      /\ timestamp_cutoff' = o + Timespan
      /\ start_timestamp' = KeptFrom(o + Timespan)
      /\ buffer' = {} /\ drawn' = {} /\ published' = <<>>
      /\ slice' = <<>> /\ triggers' = <<>> /\ slice_end' = o
      /\ trigger_window_start' = o /\ image_buffer' = {} /\ images' = <<>>
      /\ raw' = raw
  BY <1>1 DEF TriggerRestart, OpenSession, Forget, MoveWindow, ClearPayload
<1>3. o \in Nat /\ o + Timespan \in Nat /\ KeptFrom(o + Timespan) \in Nat
  BY OriginsAssumption, TimespanAssumption DEF KeptFrom, SessionOrigins
<1>4. raw \in BOOLEAN
  BY TriggerFacts DEF TriggerInv, TypeOK
<1>5. /\ Len(stream') = 0 /\ Len(published') = 0 /\ Len(slice') = 0
      /\ Len(triggers') = 0 /\ Len(images') = 0
  BY <1>2
<1>6. TypeOK'
  BY <1>2, <1>3, <1>4, <1>5 DEF TypeOK
<1>7. TriggerTypes'
  BY <1>2, <1>3, <1>5, <1>6 DEF TriggerTypes, TriggerTypeOK
<1>8. HandedOverInOrder'
  BY <1>2, <1>3, <1>5 DEF HandedOverInOrder, Ordered
<1>9. OpenImage' /\ ImagesSettled'
  BY <1>2, <1>3, <1>5 DEF OpenImage, ImagesSettled
<1>10. OpenMemory' /\ MemorySettled'
  BY <1>2, <1>3, <1>5 DEF OpenMemory, MemorySettled
<1> QED
  BY <1>7, <1>8, <1>9, <1>10 DEF TriggerInv

\* The initial states satisfy the invariant.
LEMMA TriggerInitInv == TriggerInit => TriggerInv
<1> SUFFICES ASSUME TriggerInit
             PROVE  TriggerInv
  OBVIOUS
<1>1. PICK o \in SessionOrigins :
        /\ stream = <<>> /\ current = 1 /\ until = o /\ origin = o
        /\ window_start_timestamp = o
        /\ timestamp_cutoff = o + Timespan
        /\ start_timestamp = KeptFrom(o + Timespan)
        /\ buffer = {} /\ drawn = {} /\ published = <<>>
  BY DEF TriggerInit, Init
<1>2. /\ slice = <<>> /\ triggers = <<>> /\ slice_end = o
      /\ trigger_window_start = o /\ image_buffer = {} /\ images = <<>>
      /\ raw \in BOOLEAN
  BY <1>1 DEF TriggerInit, Init
<1>3. o \in Nat /\ o + Timespan \in Nat /\ KeptFrom(o + Timespan) \in Nat
  BY OriginsAssumption, TimespanAssumption DEF KeptFrom, SessionOrigins
<1>4. /\ Len(stream) = 0 /\ Len(published) = 0 /\ Len(slice) = 0
      /\ Len(triggers) = 0 /\ Len(images) = 0
  BY <1>1, <1>2
<1>5. TypeOK
  BY <1>1, <1>2, <1>3, <1>4 DEF TypeOK
<1>6. TriggerTypes
  BY <1>1, <1>2, <1>3, <1>4, <1>5 DEF TriggerTypes, TriggerTypeOK
<1>7. HandedOverInOrder
  BY <1>1, <1>2, <1>3, <1>4 DEF HandedOverInOrder, Ordered
<1>8. OpenImage /\ ImagesSettled
  BY <1>1, <1>2, <1>3, <1>4 DEF OpenImage, ImagesSettled
<1>9. OpenMemory /\ MemorySettled
  BY <1>1, <1>2, <1>3, <1>4 DEF OpenMemory, MemorySettled
<1> QED
  BY <1>6, <1>7, <1>8, <1>9 DEF TriggerInv

\* A step that changes nothing preserves the invariant.
LEMMA TriggerStutter == TriggerInv /\ UNCHANGED triggerVars => TriggerInv'
<1> SUFFICES ASSUME TriggerInv, UNCHANGED triggerVars
             PROVE  TriggerInv'
  OBVIOUS
<1>1. /\ raw' = raw /\ stream' = stream /\ current' = current /\ until' = until
      /\ origin' = origin /\ timestamp_cutoff' = timestamp_cutoff
      /\ window_start_timestamp' = window_start_timestamp
      /\ start_timestamp' = start_timestamp /\ buffer' = buffer
      /\ drawn' = drawn /\ published' = published
      /\ slice' = slice /\ slice_end' = slice_end
      /\ UNCHANGED <<sliceVars, imageVars>>
  BY DEF triggerVars, vars, windowVars, sliceVars
<1>2. TypeOK'
  BY <1>1, TriggerFacts DEF TriggerInv, TypeOK
<1>3. OpenMemory' /\ MemorySettled'
  BY <1>1 DEF TriggerInv, OpenMemory, MemorySettled, SettledMemory
<1> QED
  BY <1>1, <1>2, <1>3, MemoryOnly

----------------------------------------------------------------------------
\* The strengthening holds in every reachable state.
THEOREM TriggerInvariance == TriggerSpec => []TriggerInv
<1>1. TriggerInv /\ [TriggerNext]_triggerVars => TriggerInv'
  <2> SUFFICES ASSUME TriggerInv, [TriggerNext]_triggerVars
               PROVE  TriggerInv'
    OBVIOUS
  <2>1. CASE NextSlice
    BY <2>1, NextSliceStep
  <2>2. CASE RawEvents
    BY <2>2, RawEventsStep
  <2>3. CASE RawTrigger
    BY <2>3, RawTriggerStep
  <2>4. CASE PublishEventMemoryUntil
    BY <2>4, PublishUntilStep
  <2>5. CASE LiveEvents
    BY <2>5, LiveEventsStep
  <2>6. CASE LiveTrigger
    BY <2>6, LiveTriggerStep
  <2>7. CASE MemoryLoop
    BY <2>7, CloseStaleStep, FinishStep, FillStep, UntilStep DEF MemoryLoop
  <2>8. CASE TriggerRestart
    BY <2>8, TriggerRestartStep
  <2>9. CASE UNCHANGED triggerVars
    BY <2>9, TriggerStutter
  <2> QED
    BY <2>1, <2>2, <2>3, <2>4, <2>5, <2>6, <2>7, <2>8, <2>9 DEF TriggerNext
<1> QED
  BY <1>1, TriggerInitInv, PTL DEF TriggerSpec

\* The types are right in both modes, whatever the slices are.
THEOREM TriggerTypeCorrect == TriggerSpec => []TriggerTypeOK
<1>1. TriggerInv => TriggerTypeOK
  BY DEF TriggerInv, TriggerTypes
<1> QED
  BY <1>1, TriggerInvariance, PTL

\* Image windows follow one another from trigger to trigger and share no event,
\* in whichever order handleTriggerIn and the event callback run.
THEOREM ImagesBetweenTriggersAlways == TriggerSpec => []ImagesBetweenTriggers
<1>1. TriggerInv => ImagesBetweenTriggers
  BY DEF TriggerInv, ImagesSettled, SettledImage, ImagesBetweenTriggers
<1> QED
  BY <1>1, TriggerInvariance, PTL

\* In raw playback an image has every event since the trigger before it, and no
\* other: what processRawTriggerModeEvents merges the two streams for.
THEOREM ImagesCompleteAlways == TriggerSpec => []ImagesComplete
<1>1. TriggerInv => ImagesComplete
  <2> SUFFICES ASSUME TriggerInv, raw, NEW i \in 1..Len(images)
               PROVE  /\ \A k \in images[i].events :
                           stream[k] \in images[i].start..images[i].end
                      /\ \A k \in 1..Len(stream) :
                           stream[k] \in (images[i].start + 1)..(images[i].end - 1)
                             => k \in images[i].events
    BY DEF ImagesComplete
  <2>1. /\ SettledImage(images[i]) /\ images[i] \in ImageWindow
        /\ \A k \in 1..Len(stream) : stream[k] \in Nat
    BY TriggerFacts DEF TriggerInv, ImagesSettled
  <2>2. images[i].start \in Nat /\ images[i].end \in Nat
    BY <2>1 DEF ImageWindow
  <2> QED
    BY <2>1, <2>2 DEF SettledImage
<1> QED
  BY <1>1, TriggerInvariance, PTL

\* The windows of event memory, cut at triggers and cutoffs, have every event
\* from strictly inside and none from outside.
THEOREM MemoryWindowsFaithfulAlways == TriggerSpec => []MemoryWindowsFaithful
<1>1. TriggerInv => MemoryWindowsFaithful
  <2> SUFFICES ASSUME TriggerInv, raw, NEW i \in 1..Len(published)
               PROVE  /\ \A k \in published[i].events :
                           stream[k] \in published[i].start..published[i].end
                      /\ \A k \in 1..Len(stream) :
                           stream[k] \in
                               (published[i].start + 1)..(published[i].end - 1)
                             => k \in published[i].events
    BY DEF MemoryWindowsFaithful, ReplayWindowFaithful
  <2>1. /\ SettledMemory(published[i]) /\ published[i] \in Window
        /\ \A k \in 1..Len(stream) : stream[k] \in Nat
    BY TriggerFacts DEF TriggerInv, MemorySettled
  <2>2. published[i].start \in Nat /\ published[i].end \in Nat
    BY <2>1 DEF Window
  <2>3. ASSUME NEW k \in published[i].events
        PROVE  stream[k] \in published[i].start..published[i].end
    <3>1. /\ k \in 1..Len(stream) /\ published[i].start <= stream[k]
          /\ stream[k] <= published[i].end
      BY <2>1 DEF SettledMemory
    <3> QED
      BY <2>1, <2>2, <3>1
  <2>4. ASSUME NEW k \in 1..Len(stream),
               stream[k] \in (published[i].start + 1)..(published[i].end - 1)
        PROVE  k \in published[i].events
    <3>1. stream[k] > published[i].start /\ stream[k] < published[i].end
      BY <2>1, <2>2, <2>4
    <3> QED
      BY <2>1, <3>1 DEF SettledMemory
  <2> QED
    BY <2>3, <2>4
<1> QED
  BY <1>1, TriggerInvariance, PTL

----------------------------------------------------------------------------
(* Raw playback: the windows of event memory one after the other.             *)

\* No slice runs across a cutoff, wherever the session starts: for instance when
\* the interval at whose multiples slices end (getRawPlaybackInterval) divides
\* the timespan and the origins.
SlicesEndAtCutoffs ==
    \A o \in Origins, k \in Nat \ {0}, t \in SliceEnds :
       o + k * Timespan < t => o + k * Timespan \in SliceEnds

\* The cutoff is a whole number of timespans after the origin.
CutoffOnGrid ==
    /\ origin \in Origins
    /\ \E k \in Nat \ {0} : timestamp_cutoff = origin + k * Timespan

\* Raw: a slice does not pass the cutoff and the open window is no longer than
\* a timespan, so that a trigger of the slice falls into the window; no trigger
\* left is before its start, nor before what publishUntil was asked for.
InStep ==
    /\ CutoffOnGrid
    /\ slice_end <= timestamp_cutoff
    /\ window_start_timestamp <= timestamp_cutoff
    /\ timestamp_cutoff <= window_start_timestamp + Timespan
    /\ \A i \in 1..Len(triggers) : /\ window_start_timestamp <= triggers[i]
                                   /\ until <= triggers[i]

\* The inductive invariant with what the order of the windows needs.
OrderInv == TriggerInv /\ (raw => InStep) /\ MemoryWindowsInOrder

\* What the steps below use, spelled out.
LEMMA OrderFacts ==
    ASSUME OrderInv, raw
    PROVE  /\ InStep /\ MemoryWindowsInOrder
           /\ HandedOverInOrder /\ OpenMemory /\ published \in Seq(Window)
           /\ Len(stream) \in Nat /\ Len(triggers) \in Nat
           /\ triggers \in Seq(Nat)
           /\ \A k \in 1..Len(stream) : stream[k] \in Nat
           /\ \A k \in 1..Len(triggers) : triggers[k] \in Nat
           /\ until \in Nat /\ origin \in Nat /\ slice_end \in Nat
           /\ timestamp_cutoff \in Nat /\ window_start_timestamp \in Nat
           /\ current \in 1..(Len(stream) + 1) /\ current \in Nat
           /\ buffer \subseteq Nat /\ drawn \subseteq Nat
           /\ Timespan \in Nat /\ Timespan >= 1
<1>1. TriggerTypes /\ HandedOverInOrder /\ OpenMemory
  BY DEF OrderInv, TriggerInv
<1>2. TypeOK
  BY <1>1, TriggerFacts
<1>3. published \in Seq(Window) /\ buffer \subseteq Nat /\ drawn \subseteq Nat
  BY <1>2 DEF TypeOK
<1> QED
  BY <1>1, <1>2, <1>3, TriggerFacts, Types DEF OrderInv

\* A window is published and the next one starts where it ends.
LEMMA OrderExtends ==
    ASSUME OrderInv, raw, raw' = raw,
           NEW e \in Nat, NEW events \in SUBSET Nat, NEW image \in SUBSET Nat,
           published' = Append(published, [start |-> window_start_timestamp,
                                           end |-> e,
                                           events |-> events,
                                           image |-> image]),
           window_start_timestamp' = e,
           window_start_timestamp <= e, e <= window_start_timestamp + Timespan
    PROVE  MemoryWindowsInOrder'
<1> DEFINE w == [start |-> window_start_timestamp, end |-> e,
                 events |-> events, image |-> image]
           n == Len(published)
<1>1. /\ MemoryWindowsInOrder /\ published \in Seq(Window)
      /\ window_start_timestamp \in Nat /\ Timespan \in Nat
  BY OrderFacts
<1>2. w \in Window
  BY <1>1 DEF Window
<1>3. w.start = window_start_timestamp /\ w.end = e
  OBVIOUS
<1>4. published' = Append(published, w)
  OBVIOUS
<1> HIDE DEF w
<1>5. /\ n \in Nat /\ Len(published') = n + 1
      /\ \A i \in 1..n : published'[i] = published[i]
      /\ published'[n + 1] = w
  BY <1>1, <1>2, <1>4, PublishAppends
<1>6. \A i \in 1..n : published[i].start \in Nat /\ published[i].end \in Nat
  <2>1. \A i \in 1..n : published[i] \in Window
    BY <1>1, ElementOfSeq
  <2> QED
    BY <2>1 DEF Window
<1>7. /\ \A i \in 1..n :
           /\ published[i].start <= published[i].end
           /\ published[i].end <= published[i].start + Timespan
           /\ published[i].end <= window_start_timestamp
      /\ \A i, j \in 1..n : i < j => published[i].end <= published[j].start
  BY <1>1 DEF MemoryWindowsInOrder
<1> HIDE DEF n
<1>8. \A i \in 1..(n + 1) : i \in 1..n \/ i = n + 1
  BY <1>5
<1>9. \A i \in 1..n : published[i].end <= e
  BY <1>1, <1>6, <1>7
<1>10. \A i \in 1..(n + 1) :
         /\ published'[i].start <= published'[i].end
         /\ published'[i].end <= published'[i].start + Timespan
         /\ published'[i].end <= window_start_timestamp'
  BY <1>3, <1>5, <1>7, <1>8, <1>9
<1>11. ASSUME NEW i \in 1..(n + 1), NEW j \in 1..(n + 1), i < j
       PROVE  published'[i].end <= published'[j].start
  <2>1. i \in 1..n
    BY <1>5, <1>11
  <2>2. CASE j \in 1..n
    BY <1>5, <1>7, <1>11, <2>1, <2>2
  <2>3. CASE j = n + 1
    BY <1>3, <1>5, <1>7, <2>1, <2>3
  <2> QED
    BY <1>8, <2>2, <2>3
<1> QED
  BY <1>5, <1>10, <1>11 DEF MemoryWindowsInOrder

\* The next cutoff is on the grid again.
LEMMA NextCutoff ==
    ASSUME OrderInv, raw, origin' = origin,
           timestamp_cutoff' = timestamp_cutoff + Timespan
    PROVE  CutoffOnGrid'
<1>1. CutoffOnGrid /\ origin \in Nat /\ Timespan \in Nat
  BY OrderFacts DEF InStep
<1>2. PICK k \in Nat \ {0} : timestamp_cutoff = origin + k * Timespan
  BY <1>1 DEF CutoffOnGrid
<1>3. (k + 1) * Timespan = k * Timespan + Timespan
  BY <1>1
<1>4. k * Timespan \in Nat /\ k + 1 \in Nat \ {0}
  BY <1>1
<1>5. timestamp_cutoff' = origin' + (k + 1) * Timespan
  BY <1>1, <1>2, <1>3, <1>4
<1> QED
  BY <1>1, <1>4, <1>5 DEF CutoffOnGrid

\* The open window is closed at the cutoff, which what was handed over or asked
\* for has reached.
LEMMA CutoffReached ==
    ASSUME OrderInv, raw,
           NEW events \in SUBSET Nat, NEW image \in SUBSET Nat,
           Publish(events, image),
           MoveWindow(timestamp_cutoff, timestamp_cutoff + Timespan),
           UNCHANGED <<raw, until, origin, triggers, slice_end>>,
           \A i \in 1..Len(triggers) : timestamp_cutoff <= triggers[i]
    PROVE  InStep' /\ MemoryWindowsInOrder'
<1>1. /\ InStep /\ slice_end \in Nat /\ Timespan \in Nat /\ Timespan >= 1
      /\ timestamp_cutoff \in Nat /\ window_start_timestamp \in Nat
  BY OrderFacts
<1>2. /\ raw' = raw /\ until' = until /\ origin' = origin
      /\ triggers' = triggers /\ slice_end' = slice_end
      /\ window_start_timestamp' = timestamp_cutoff
      /\ timestamp_cutoff' = timestamp_cutoff + Timespan
  BY DEF MoveWindow
<1>3. CutoffOnGrid'
  BY <1>2, NextCutoff
<1>4. InStep'
  BY <1>1, <1>2, <1>3 DEF InStep
<1>5. /\ window_start_timestamp <= timestamp_cutoff
      /\ timestamp_cutoff <= window_start_timestamp + Timespan
  BY <1>1 DEF InStep
<1>6. MemoryWindowsInOrder'
  BY <1>1, <1>2, <1>5, OrderExtends DEF Publish
<1> QED
  BY <1>4, <1>6

\* A step that leaves the windows alone.
LEMMA OrderKeeps ==
    ASSUME OrderInv, raw,
           UNCHANGED <<raw, origin, timestamp_cutoff, window_start_timestamp,
                       published>>,
           slice_end' = slice_end, triggers' = triggers, until' = until
    PROVE  InStep' /\ MemoryWindowsInOrder'
<1>1. /\ raw' = raw /\ origin' = origin /\ published' = published
      /\ timestamp_cutoff' = timestamp_cutoff
      /\ window_start_timestamp' = window_start_timestamp
  OBVIOUS
<1>2. InStep /\ MemoryWindowsInOrder
  BY OrderFacts
<1> QED
  BY <1>1, <1>2 DEF InStep, CutoffOnGrid, MemoryWindowsInOrder

\* No event is past the cutoff: processEvents never finds a stale window.
LEMMA NotPastCutoff ==
    ASSUME OrderInv, raw, NEW k \in 1..Len(stream)
    PROVE  stream[k] <= timestamp_cutoff
<1>1. /\ InStep /\ HandedOverInOrder /\ stream[k] \in Nat /\ slice_end \in Nat
      /\ timestamp_cutoff \in Nat
  BY OrderFacts
<1>2. stream[k] <= slice_end /\ slice_end <= timestamp_cutoff
  BY <1>1 DEF InStep, HandedOverInOrder
<1> QED
  BY <1>1, <1>2

\* The loops of event memory.
LEMMA MemoryLoopInOrder ==
    ASSUME OrderInv, raw, MemoryLoop
    PROVE  InStep' /\ MemoryWindowsInOrder'
<1>1. /\ InStep /\ HandedOverInOrder /\ OpenMemory
      /\ Len(stream) \in Nat /\ current \in Nat /\ until \in Nat
      /\ \A k \in 1..Len(stream) : stream[k] \in Nat
      /\ \A k \in 1..Len(triggers) : triggers[k] \in Nat
      /\ timestamp_cutoff \in Nat /\ slice_end \in Nat
      /\ current \in 1..(Len(stream) + 1)
      /\ buffer \subseteq Nat /\ drawn \subseteq Nat
  BY OrderFacts
<1>2. triggers' = triggers /\ slice_end' = slice_end
  BY DEF MemoryLoop, sliceVars
<1>3. CASE CloseStaleWindow
  <2>1. current \in 1..Len(stream) /\ stream[current] > timestamp_cutoff
    BY <1>1, <1>3 DEF CloseStaleWindow, Pending
  <2> QED
    BY <1>1, <2>1, NotPastCutoff
<1>4. CASE FinishBatch
  BY <1>2, <1>4, OrderKeeps DEF FinishBatch
<1>5. CASE FillWindow
  <2>1. PICK upper \in UpperBounds :
          Publish(buffer \cup (current..upper),
                  drawn \cup Shown(current..upper))
    BY <1>5 DEF FillWindow
  <2>2. upper \in Nat
    BY <1>1 DEF UpperBounds, Pending
  <2>3. /\ buffer \cup (current..upper) \in SUBSET Nat
        /\ drawn \cup Shown(current..upper) \in SUBSET Nat
    <3>1. current..upper \subseteq Nat
      BY <1>1, <2>2
    <3>2. Shown(current..upper) \subseteq Nat
      BY <3>1 DEF Shown
    <3> QED
      BY <1>1, <3>1, <3>2
  <2>4. /\ MoveWindow(timestamp_cutoff, timestamp_cutoff + Timespan)
        /\ UNCHANGED <<raw, until, origin, triggers, slice_end>>
    BY <1>2, <1>5 DEF FillWindow
  <2>5. /\ Len(stream) \in 1..Len(stream)
        /\ stream[Len(stream)] >= timestamp_cutoff
        /\ stream[Len(stream)] \in Nat
    BY <1>1, <1>5 DEF FillWindow, Pending
  <2>6. \A i \in 1..Len(triggers) : stream[Len(stream)] <= triggers[i]
    BY <1>1, <2>5 DEF HandedOverInOrder
  <2>7. \A i \in 1..Len(triggers) : timestamp_cutoff <= triggers[i]
    BY <1>1, <2>5, <2>6
  <2> QED
    BY <2>1, <2>3, <2>4, <2>7, CutoffReached
<1>6. CASE PublishWindowUntil
  <2>1. /\ Publish(buffer, drawn) /\ until >= timestamp_cutoff
        /\ MoveWindow(timestamp_cutoff, timestamp_cutoff + Timespan)
        /\ UNCHANGED <<raw, until, origin, triggers, slice_end>>
    BY <1>2, <1>6 DEF PublishWindowUntil
  <2>2. \A i \in 1..Len(triggers) : until <= triggers[i]
    BY <1>1 DEF InStep
  <2>3. \A i \in 1..Len(triggers) : timestamp_cutoff <= triggers[i]
    BY <1>1, <2>1, <2>2
  <2>4. buffer \in SUBSET Nat /\ drawn \in SUBSET Nat
    BY <1>1
  <2> QED
    BY <2>1, <2>3, <2>4, CutoffReached
<1> QED
  BY <1>3, <1>4, <1>5, <1>6 DEF MemoryLoop

\* A new slice ends at the cutoff at the latest.
LEMMA NextSliceInOrder ==
    ASSUME SlicesEndAtCutoffs, OrderInv, raw, NextSlice
    PROVE  InStep' /\ MemoryWindowsInOrder'
<1>1. /\ InStep /\ OpenMemory /\ MemoryWindowsInOrder
      /\ timestamp_cutoff \in Nat /\ slice_end \in Nat /\ until \in Nat
      /\ window_start_timestamp \in Nat
  BY OrderFacts
<1>2. PICK t \in NextEnds :
        /\ slice_end' = t
        /\ triggers' \in Batches(slice_end, t, MaxTriggers - Len(images))
  BY DEF NextSlice
<1>3. /\ raw' = raw /\ until' = until /\ origin' = origin
      /\ timestamp_cutoff' = timestamp_cutoff /\ published' = published
      /\ window_start_timestamp' = window_start_timestamp
  BY DEF NextSlice, vars, windowVars
<1>4. until < timestamp_cutoff /\ until = slice_end
  BY DEF NextSlice, Idle
<1>5. t \in SliceEnds /\ t \in Nat
      /\ \A u \in SliceEnds : u > slice_end => t <= u
  BY <1>2, SliceEndsAssumption, BoundsAssumption DEF NextEnds
<1>6. t <= timestamp_cutoff
  <2> SUFFICES ASSUME timestamp_cutoff < t
               PROVE  FALSE
    BY <1>1, <1>5
  <2>1. PICK k \in Nat \ {0} : timestamp_cutoff = origin + k * Timespan
    BY <1>1 DEF InStep, CutoffOnGrid
  <2>2. timestamp_cutoff \in SliceEnds
    BY <1>1, <1>5, <2>1 DEF SlicesEndAtCutoffs, InStep, CutoffOnGrid
  <2> QED
    BY <1>1, <1>4, <1>5, <2>2
<1>7. PICK m \in Nat : triggers' \in [1..m -> slice_end..t]
  BY <1>2 DEF Batches
<1>8. Len(triggers') = m
  BY <1>7
<1>9. \A i \in 1..Len(triggers') : /\ slice_end <= triggers'[i]
                                   /\ triggers'[i] \in Nat
  BY <1>1, <1>5, <1>7, <1>8
<1>10. window_start_timestamp <= slice_end
  BY <1>1 DEF OpenMemory
<1>11. \A i \in 1..Len(triggers') : /\ window_start_timestamp <= triggers'[i]
                                    /\ until <= triggers'[i]
  BY <1>1, <1>4, <1>9, <1>10
<1>12. CutoffOnGrid'
  BY <1>1, <1>3 DEF InStep, CutoffOnGrid
<1>13. InStep'
  BY <1>1, <1>2, <1>3, <1>6, <1>11, <1>12 DEF InStep
<1>14. MemoryWindowsInOrder'
  BY <1>1, <1>3 DEF MemoryWindowsInOrder
<1> QED
  BY <1>13, <1>14

\* A trigger closes the window it falls into.
LEMMA RawTriggerInOrder ==
    ASSUME OrderInv, raw, RawTrigger
    PROVE  InStep' /\ MemoryWindowsInOrder'
<1> DEFINE t == triggers[1]
<1>1. /\ InStep /\ HandedOverInOrder
      /\ triggers \in Seq(Nat) /\ Len(triggers) \in Nat
      /\ \A k \in 1..Len(triggers) : triggers[k] \in Nat
      /\ until \in Nat /\ slice_end \in Nat /\ Timespan \in Nat
      /\ timestamp_cutoff \in Nat /\ window_start_timestamp \in Nat
      /\ buffer \in SUBSET Nat /\ drawn \in SUBSET Nat
  BY OrderFacts
<1>2. triggers # <<>> /\ PublishMemoryAt(t) /\ triggers' = Tail(triggers)
      /\ raw' = raw /\ slice_end' = slice_end
  BY DEF RawTrigger
<1>3. /\ published' = Append(published, [start |-> window_start_timestamp,
                                         end |-> t,
                                         events |-> buffer,
                                         image |-> drawn])
      /\ window_start_timestamp' = t
      /\ until' = until /\ origin' = origin
      /\ timestamp_cutoff' = timestamp_cutoff
  BY <1>2 DEF PublishMemoryAt, AnnounceMemory
<1>4. 1 \in 1..Len(triggers)
  BY <1>1, <1>2, EmptySeq
<1>5. t \in Nat /\ window_start_timestamp <= t /\ t <= slice_end
  BY <1>1, <1>4 DEF InStep, HandedOverInOrder
<1>6. \A i \in 1..Len(triggers) : t <= triggers[i]
  BY <1>1, <1>4 DEF HandedOverInOrder, Ordered
<1>7. /\ slice_end <= timestamp_cutoff
      /\ timestamp_cutoff <= window_start_timestamp + Timespan
  BY <1>1 DEF InStep
<1>8. /\ Len(triggers') = Len(triggers) - 1
      /\ \A i \in 1..Len(triggers') : /\ triggers'[i] = triggers[i + 1]
                                      /\ i + 1 \in 1..Len(triggers)
  BY <1>1, <1>2
<1> HIDE DEF t
<1>9. t <= timestamp_cutoff /\ timestamp_cutoff <= t + Timespan
      /\ t <= window_start_timestamp + Timespan
  BY <1>1, <1>5, <1>7
<1>10. \A i \in 1..Len(triggers') : t <= triggers'[i] /\ until <= triggers'[i]
  BY <1>1, <1>6, <1>8 DEF InStep
<1>11. CutoffOnGrid'
  BY <1>1, <1>3 DEF InStep, CutoffOnGrid
<1>12. InStep'
  BY <1>2, <1>3, <1>7, <1>9, <1>10, <1>11 DEF InStep
<1>13. MemoryWindowsInOrder'
  BY <1>1, <1>2, <1>3, <1>5, <1>9, OrderExtends
<1> QED
  BY <1>12, <1>13

\* The end of a slice, when no trigger is left.
LEMMA PublishUntilInOrder ==
    ASSUME OrderInv, raw, PublishEventMemoryUntil
    PROVE  InStep' /\ MemoryWindowsInOrder'
<1>1. InStep /\ MemoryWindowsInOrder
  BY OrderFacts
<1>2. /\ raw' = raw /\ origin' = origin /\ published' = published
      /\ timestamp_cutoff' = timestamp_cutoff
      /\ window_start_timestamp' = window_start_timestamp
      /\ triggers' = triggers /\ slice_end' = slice_end
      /\ Len(triggers) = 0
  BY DEF PublishEventMemoryUntil, sliceVars
<1>3. MemoryWindowsInOrder'
  BY <1>1, <1>2 DEF MemoryWindowsInOrder
<1> QED
  BY <1>1, <1>2, <1>3 DEF InStep, CutoffOnGrid

\* A session starts with a window of one timespan from its origin.
LEMMA SessionInOrder ==
    ASSUME NEW o \in Origins
    PROVE  /\ o \in Nat /\ Timespan \in Nat
           /\ o <= o + Timespan /\ o + Timespan <= o + Timespan
           /\ \E k \in Nat \ {0} : o + Timespan = o + k * Timespan
<1>1. o \in Nat /\ Timespan \in Nat
  BY OriginsAssumption, TimespanAssumption
<1>2. o + Timespan = o + 1 * Timespan /\ 1 \in Nat \ {0}
  BY <1>1
<1> QED
  BY <1>1, <1>2

LEMMA InitInOrder ==
    ASSUME TriggerInit, raw
    PROVE  InStep /\ MemoryWindowsInOrder
<1>1. PICK o \in Origins :
        /\ until = o /\ origin = o /\ window_start_timestamp = o
        /\ timestamp_cutoff = o + Timespan /\ published = <<>>
  BY DEF TriggerInit, Init, SessionOrigins
<1>2. /\ slice_end = o /\ triggers = <<>>
      /\ Len(triggers) = 0 /\ Len(published) = 0
  BY <1>1 DEF TriggerInit
<1>3. CutoffOnGrid
  BY <1>1, SessionInOrder DEF CutoffOnGrid
<1>4. InStep
  BY <1>1, <1>2, <1>3, SessionInOrder DEF InStep
<1> QED
  BY <1>2, <1>4 DEF MemoryWindowsInOrder

LEMMA RestartInOrder ==
    ASSUME raw, TriggerRestart
    PROVE  InStep' /\ MemoryWindowsInOrder'
<1>1. PICK o \in Origins : OpenSession(o) /\ slice_end' = o
  BY DEF TriggerRestart, SessionOrigins
<1>2. /\ until' = o /\ origin' = o /\ window_start_timestamp' = o
      /\ timestamp_cutoff' = o + Timespan /\ published' = <<>>
      /\ triggers' = <<>> /\ Len(triggers') = 0 /\ Len(published') = 0
  BY <1>1 DEF TriggerRestart, OpenSession, Forget, MoveWindow
<1>3. CutoffOnGrid'
  BY <1>2, SessionInOrder DEF CutoffOnGrid
<1>4. InStep'
  BY <1>1, <1>2, <1>3, SessionInOrder DEF InStep
<1> QED
  BY <1>2, <1>4 DEF MemoryWindowsInOrder

\* Every step keeps the order of the windows.
LEMMA OrderStep ==
    ASSUME SlicesEndAtCutoffs, OrderInv, raw, [TriggerNext]_triggerVars
    PROVE  InStep' /\ MemoryWindowsInOrder'
<1>1. CASE NextSlice
  BY <1>1, NextSliceInOrder
<1>2. CASE RawEvents
  BY <1>2, OrderKeeps DEF RawEvents, Accumulate
<1>3. CASE RawTrigger
  BY <1>3, RawTriggerInOrder
<1>4. CASE PublishEventMemoryUntil
  BY <1>4, PublishUntilInOrder
<1>5. CASE LiveEvents \/ LiveTrigger
  BY <1>5 DEF LiveEvents, LiveTrigger
<1>6. CASE MemoryLoop
  BY <1>6, MemoryLoopInOrder
<1>7. CASE TriggerRestart
  BY <1>7, RestartInOrder
<1>8. CASE UNCHANGED triggerVars
  BY <1>8, OrderKeeps DEF triggerVars, vars, windowVars, sliceVars
<1> QED
  BY <1>1, <1>2, <1>3, <1>4, <1>5, <1>6, <1>7, <1>8 DEF TriggerNext

\* No step changes the mode of playback.
LEMMA ModeStays == [TriggerNext]_triggerVars => raw' = raw
<1>1. MemoryLoop => raw' = raw
  BY DEF MemoryLoop, CloseStaleWindow, FinishBatch, FillWindow,
         PublishWindowUntil
<1>2. NextSlice => raw' = raw
  BY DEF NextSlice, vars
<1>3. /\ RawEvents => raw' = raw
      /\ RawTrigger => raw' = raw
      /\ PublishEventMemoryUntil => raw' = raw
      /\ LiveEvents => raw' = raw
      /\ LiveTrigger => raw' = raw
      /\ TriggerRestart => raw' = raw
  BY DEF RawEvents, RawTrigger, PublishEventMemoryUntil, LiveEvents,
         LiveTrigger, TriggerRestart
<1> QED
  BY <1>1, <1>2, <1>3 DEF TriggerNext, triggerVars, vars

\* The inductive invariant of the order holds in every reachable state, when no
\* slice runs across a cutoff.
THEOREM OrderInvariance ==
    ASSUME SlicesEndAtCutoffs
    PROVE  TriggerSpec => []((raw => InStep) /\ MemoryWindowsInOrder)
<1> DEFINE InOrder == (raw => InStep) /\ MemoryWindowsInOrder
<1>1. TriggerInit => InOrder
  BY InitInOrder DEF MemoryWindowsInOrder
<1>2. TriggerInv /\ InOrder /\ [TriggerNext]_triggerVars => InOrder'
  <2> SUFFICES ASSUME TriggerInv, InOrder, [TriggerNext]_triggerVars
               PROVE  InOrder'
    OBVIOUS
  <2>1. CASE raw
    BY <2>1, OrderStep DEF OrderInv
  <2>2. CASE ~raw
    BY <2>2, ModeStays DEF MemoryWindowsInOrder
  <2> QED
    BY <2>1, <2>2
<1> HIDE DEF InOrder
<1>3. TriggerSpec => []InOrder
  BY <1>1, <1>2, TriggerInvariance, PTL DEF TriggerSpec
<1> QED
  BY <1>3 DEF InOrder

\* In raw playback the windows that event memory publishes, at its cutoffs and at
\* triggers, follow one another, and none is turned round, longer than a timespan
\* or reaches into the next: when no slice runs across a cutoff.
THEOREM MemoryWindowsInOrderAlways ==
    ASSUME SlicesEndAtCutoffs
    PROVE  TriggerSpec => []MemoryWindowsInOrder
<1>1. (raw => InStep) /\ MemoryWindowsInOrder => MemoryWindowsInOrder
  OBVIOUS
<1> QED
  BY <1>1, OrderInvariance, PTL

============================================================================
