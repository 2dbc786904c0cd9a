------------------------- MODULE EventWindow_proofs -------------------------
(* Proofs about EventWindow, for every timespan, keep fraction, slice length  *)
(* and event stream: type correctness, and the safety invariants the runs     *)
(* check, from one inductive invariant, and that it implements WindowStream. *)
EXTENDS EventWindow, SequenceTheorems, TLAPS

----------------------------------------------------------------------------
(* The inductive invariant.                                                   *)

\* The open window is [cutoff - timespan, cutoff], an image starts with the
\* kept part of it, and the module has heard of a time not before its start.
OpenWindow ==
    /\ timestamp_cutoff = window_start_timestamp + Timespan
    /\ start_timestamp = KeptFrom(timestamp_cutoff)
    /\ window_start_timestamp <= Horizon

\* What has been processed is not past the cutoff, and the part of it that is
\* inside the open window is in the buffer.  What is pending is not before it.
CursorSplitsStream ==
    /\ Ordered(stream)
    /\ \A k \in 1..(current - 1) :
         /\ stream[k] <= timestamp_cutoff
         /\ stream[k] > window_start_timestamp => k \in buffer
    /\ \A k \in Pending : stream[k] >= window_start_timestamp

\* The payload belongs to the open window.
PayloadOfWindow ==
    /\ \A k \in buffer : k < current /\ stream[k] >= window_start_timestamp
    /\ drawn = {k \in buffer : stream[k] >= start_timestamp}

\* In raw mode no event is past the end of the slice it came with.
SlicesBoundStream ==
    raw => \A k \in 1..Len(stream) : stream[k] <= until

\* The windows lie on the grid of the origin, the open one included.
OnGrid ==
    /\ origin <= window_start_timestamp
    /\ (timestamp_cutoff - origin) % Timespan = 0

\* Slices no longer than the timespan reach into the next window at most.
SlicesReachNextWindow ==
    raw /\ Interval <= Timespan => until < timestamp_cutoff + Timespan

\* What is known of one published window.
Settled(w) ==
    /\ w.end = w.start + Timespan
    /\ w.end <= window_start_timestamp
    /\ w.events \subseteq 1..(current - 1)
    /\ w.events \cap buffer = {}
    /\ \A k \in w.events : stream[k] \in w.start..w.end
    /\ \A k \in 1..Len(stream) :
         stream[k] \in (w.start + 1)..(w.end - 1) => k \in w.events
    /\ w.image = {k \in w.events : stream[k] >= KeptFrom(w.end)}

PublishedSettled ==
    /\ \A i \in 1..Len(published) : Settled(published[i])
    /\ \A i, j \in 1..Len(published) :
         /\ i < j => published[i].end <= published[j].start
         /\ i # j => published[i].events \cap published[j].events = {}
    /\ \A k \in 1..(current - 1) :
         k \in buffer \/ \E i \in 1..Len(published) : k \in published[i].events

IInv ==
    /\ TypeOK
    /\ OpenWindow
    /\ CursorSplitsStream
    /\ SlicesBoundStream
    /\ PayloadOfWindow
    /\ PublishedSettled
    /\ OnGrid
    /\ SlicesReachNextWindow
    /\ RawWindowsContiguous

----------------------------------------------------------------------------
(* Lemmas about the operators.                                                *)

\* A batch is a sorted sequence of timestamps in lo..hi.
LEMMA BatchProperties ==
    ASSUME NEW lo \in Nat, NEW hi \in Nat, NEW n \in Int,
           NEW b \in Batches(lo, hi, n)
    PROVE  /\ b \in Seq(Nat)
           /\ Ordered(b)
           /\ \A i \in 1..Len(b) : b[i] \in lo..hi
<1>1. PICK k \in 0..n : b \in [1..k -> lo..hi]
  BY DEF Batches
<1>2. b \in Seq(lo..hi)
  BY <1>1, SeqDef
<1>3. lo..hi \subseteq Nat
  OBVIOUS
<1>4. b \in Seq(Nat)
  BY <1>2, <1>3, SeqMonotonic
<1>5. Ordered(b)
  BY DEF Batches
<1>6. \A i \in 1..Len(b) : b[i] \in lo..hi
  BY <1>2, ElementOfSeq
<1> QED
  BY <1>4, <1>5, <1>6

\* A stream extended by a batch that is not older stays ordered.
LEMMA OrderedConcat ==
    ASSUME NEW s \in Seq(Nat), NEW b \in Seq(Nat), Ordered(s), Ordered(b),
           \A i \in 1..Len(b) : s # <<>> => b[i] >= s[Len(s)]
    PROVE  /\ s \o b \in Seq(Nat)
           /\ Len(s \o b) = Len(s) + Len(b)
           /\ \A i \in 1..Len(s) : (s \o b)[i] = s[i]
           /\ \A i \in (Len(s) + 1)..Len(s \o b) :
                (i - Len(s)) \in 1..Len(b) /\ (s \o b)[i] = b[i - Len(s)]
           /\ Ordered(s \o b)
<1> DEFINE t == s \o b
<1>1. /\ t \in Seq(Nat)
      /\ Len(t) = Len(s) + Len(b)
      /\ \A i \in 1..(Len(s) + Len(b)) :
           t[i] = IF i <= Len(s) THEN s[i] ELSE b[i - Len(s)]
  BY ConcatProperties
<1> HIDE DEF t
<1>2. Len(s) \in Nat /\ Len(b) \in Nat
  BY LenProperties
<1>3. /\ \A i \in 1..Len(s) : t[i] = s[i]
      /\ \A i \in (Len(s) + 1)..Len(t) :
           (i - Len(s)) \in 1..Len(b) /\ t[i] = b[i - Len(s)]
  <2>1. ASSUME NEW i \in 1..Len(s) PROVE t[i] = s[i]
    BY <1>1, <1>2
  <2>2. ASSUME NEW i \in (Len(s) + 1)..Len(t)
        PROVE  (i - Len(s)) \in 1..Len(b) /\ t[i] = b[i - Len(s)]
    <3>1. i \in 1..(Len(s) + Len(b)) /\ ~(i <= Len(s))
      BY <1>1, <1>2
    <3> QED
      BY <3>1, <1>1, <1>2
  <2> QED
    BY <2>1, <2>2
<1>4. ASSUME NEW i \in 1..Len(t), NEW j \in 1..Len(t), i <= j
      PROVE  t[i] <= t[j]
  <2>1. CASE j <= Len(s)
    BY <1>1, <1>2, <1>3, <1>4, <2>1 DEF Ordered
  <2>2. CASE i > Len(s)
    <3>1. /\ t[i] = b[i - Len(s)] /\ (i - Len(s)) \in 1..Len(b)
          /\ t[j] = b[j - Len(s)] /\ (j - Len(s)) \in 1..Len(b)
          /\ i - Len(s) <= j - Len(s)
      BY <1>1, <1>2, <1>3, <1>4, <2>2
    <3> QED
      BY <3>1 DEF Ordered
  <2>3. CASE i <= Len(s) /\ j > Len(s)
    <3>1. t[i] = s[i] /\ t[j] = b[j - Len(s)] /\ (j - Len(s)) \in 1..Len(b)
      BY <1>1, <1>2, <1>3, <2>3
    <3>2. s # <<>> /\ s[i] <= s[Len(s)] /\ Len(s) \in 1..Len(s)
      BY <1>2, <2>3 DEF Ordered
    <3>3. s[Len(s)] \in Nat
      BY <3>2, ElementOfSeq
    <3>4. i \in 1..Len(s)
      BY <1>1, <1>2, <2>3
    <3>5. s[i] \in Nat
      BY <3>4, ElementOfSeq
    <3>6. b[j - Len(s)] \in Nat
      BY <3>1, ElementOfSeq
    <3>7. b[j - Len(s)] >= s[Len(s)]
      BY <3>1, <3>2
    <3>8. s[i] <= b[j - Len(s)]
      BY <3>2, <3>3, <3>5, <3>6, <3>7
    <3> QED
      BY <3>1, <3>8
  <2> QED
    BY <1>2, <2>1, <2>2, <2>3
<1>5. Ordered(t)
  BY <1>4 DEF Ordered
<1> QED
  BY <1>1, <1>3, <1>5 DEF t

\* Appending one window leaves the ones before it where they are.
LEMMA PublishAppends ==
    ASSUME NEW w \in Window, published \in Seq(Window),
           published' = Append(published, w)
    PROVE  /\ published' \in Seq(Window)
           /\ Len(published) \in Nat
           /\ Len(published') = Len(published) + 1
           /\ \A i \in 1..Len(published) : published'[i] = published[i]
           /\ published'[Len(published) + 1] = w
BY AppendProperties, LenProperties

\* The types the proofs below use, spelled out.
LEMMA Types ==
    ASSUME TypeOK
    PROVE  /\ Len(stream) \in Nat
           /\ \A k \in 1..Len(stream) : stream[k] \in Nat
           /\ current \in 1..(Len(stream) + 1) /\ current \in Nat
           /\ until \in Nat /\ origin \in Nat
           /\ timestamp_cutoff \in Nat /\ window_start_timestamp \in Nat
           /\ start_timestamp \in Nat
           /\ Timespan \in Nat /\ Timespan >= 1
           /\ Keep \in Nat /\ Keep <= Timespan
           /\ Len(published) \in Nat
           /\ \A i \in 1..Len(published) :
                /\ published[i].start \in Nat /\ published[i].end \in Nat
                /\ published[i].events \subseteq Nat
<1>1. Len(stream) \in Nat /\ Len(published) \in Nat
  BY LenProperties DEF TypeOK
<1>2. \A k \in 1..Len(stream) : stream[k] \in Nat
  BY ElementOfSeq DEF TypeOK
<1>3. \A i \in 1..Len(published) : published[i] \in Window
  BY ElementOfSeq DEF TypeOK
<1>4. \A i \in 1..Len(published) :
        /\ published[i].start \in Nat /\ published[i].end \in Nat
        /\ published[i].events \subseteq Nat
  BY <1>3 DEF Window
<1> QED
  BY <1>1, <1>2, <1>4, TimespanAssumption DEF TypeOK

\* The quotient of a multiple, and the sum of two multiples.
LEMMA Multiple ==
    ASSUME NEW a \in Int, NEW n \in Nat \ {0}, a % n = 0
    PROVE  a = n * (a \div n) /\ a \div n \in Int
OBVIOUS

LEMMA MultipleMod ==
    ASSUME NEW q \in Int, NEW n \in Nat \ {0}
    PROVE  (n * q) % n = 0
OBVIOUS

LEMMA MultipleSum ==
    ASSUME NEW a \in Int, NEW b \in Int, NEW n \in Nat \ {0},
           a % n = 0, b % n = 0
    PROVE  (a + b) % n = 0
<1> DEFINE q == a \div n + b \div n
<1>1. q \in Int /\ a + b = n * q
  BY Multiple
<1> HIDE DEF q
<1> QED
  BY <1>1, MultipleMod

\* The only multiple of n in n..2n-1 is n.
LEMMA OneMultiple ==
    ASSUME NEW a \in Int, NEW n \in Nat \ {0}, a % n = 0, n <= a, a < n + n
    PROVE  a = n
<1> DEFINE q == a \div n
<1>1. a = n * q /\ q \in Int
  BY Multiple
<1> HIDE DEF q
<1>2. CASE q <= 0
  BY <1>1, <1>2
<1>3. CASE q >= 2
  BY <1>1, <1>3
<1> QED
  BY <1>1, <1>2, <1>3

\* Moving the cursor from c to d splits the stream in three.
LEMMA CursorMove ==
    ASSUME NEW c \in Nat, NEW d \in Nat, NEW l \in Nat,
           1 <= c, c <= d, d <= l + 1
    PROVE  /\ \A k \in 1..l : k \in 1..(c - 1) \/ k \in c..(d - 1) \/ k \in d..l
           /\ \A k \in c..(d - 1) : k \in c..l /\ k \in 1..l /\ k \notin 1..(c - 1)
           /\ \A k : k \in 1..(d - 1) <=> k \in 1..(c - 1) \/ k \in c..(d - 1)
           /\ \A k \in d..l : k \in c..l /\ k \in 1..l
           /\ \A k \in 1..(d - 1) : k \in 1..l
OBVIOUS

\* A step that closes the open window with message w, moving the cursor past
\* the events that belong to it.
ClosesWindow(w) ==
    /\ published' = Append(published, w)
    /\ w.start = window_start_timestamp
    /\ w.end = timestamp_cutoff
    /\ w.events = buffer \cup (current..(current' - 1))
    /\ w.image = {k \in w.events : stream[k] >= KeptFrom(w.end)}
    /\ stream' = stream
    /\ current' \in current..(Len(stream) + 1)
    /\ buffer' = {}
    /\ window_start_timestamp' \in Nat
    /\ window_start_timestamp' >= timestamp_cutoff
    /\ \A k \in current..(current' - 1) : stream[k] <= timestamp_cutoff
    /\ \A k \in current'..Len(stream) : stream[k] > timestamp_cutoff

\* What is known of the published windows is known of one more.
LEMMA PublishSettles ==
    ASSUME IInv, NEW w \in Window, ClosesWindow(w)
    PROVE  PublishedSettled'
<1> DEFINE n == Len(published)
<1>1. /\ Len(published') = n + 1
      /\ \A i \in 1..n : published'[i] = published[i]
      /\ published'[n + 1] = w
  BY PublishAppends DEF IInv, TypeOK, ClosesWindow
<1>2. TypeOK /\ OpenWindow /\ CursorSplitsStream /\ PayloadOfWindow
      /\ PublishedSettled
  BY DEF IInv
<1>t. /\ n \in Nat /\ Len(stream) \in Nat
      /\ current \in Nat /\ current' \in Nat
      /\ 1 <= current /\ current <= current' /\ current' <= Len(stream) + 1
  <2>1. current' \in current..(Len(stream) + 1)
    BY DEF ClosesWindow
  <2> QED
    BY <1>2, <2>1, Types
<1>u. /\ timestamp_cutoff \in Nat /\ window_start_timestamp \in Nat
      /\ \A k \in 1..Len(stream) : stream[k] \in Nat
  BY <1>2, Types
<1>v. /\ timestamp_cutoff = window_start_timestamp + Timespan
      /\ window_start_timestamp <= timestamp_cutoff
      /\ window_start_timestamp <= window_start_timestamp'
  <2>1. timestamp_cutoff = window_start_timestamp + Timespan
    BY <1>2 DEF OpenWindow
  <2>2. window_start_timestamp' \in Nat
        /\ window_start_timestamp' >= timestamp_cutoff
    BY DEF ClosesWindow
  <2> QED
    BY <2>1, <2>2, <1>u, TimespanAssumption
<1>w. /\ w.start = window_start_timestamp /\ w.end = timestamp_cutoff
      /\ w.events = buffer \cup (current..(current' - 1))
      /\ stream' = stream /\ buffer' = {}
  BY DEF ClosesWindow
<1>x. \A k : k \in 1..(current' - 1)
               <=> k \in 1..(current - 1) \/ k \in current..(current' - 1)
  BY <1>t, CursorMove
<1>y. \A k \in 1..Len(stream) : \/ k \in 1..(current - 1)
                                \/ k \in current..(current' - 1)
                                \/ k \in current'..Len(stream)
  BY <1>t, CursorMove
<1>z. \A k \in current..(current' - 1) : k \in Pending /\ k \in 1..Len(stream)
  BY <1>t, CursorMove DEF Pending
<1>3. \A i \in 1..n : Settled(published[i])
  BY <1>2 DEF PublishedSettled
<1> HIDE DEF n
<1>4. ASSUME NEW i \in 1..n
      PROVE  /\ Settled(published[i])'
             /\ published[i].end <= w.start
             /\ published[i].events \cap w.events = {}
  <2> DEFINE v == published[i]
  <2>1. Settled(v) /\ published'[i] = v
    BY <1>1, <1>3
  <2>2. /\ v.start \in Nat /\ v.end \in Nat /\ v.events \subseteq Nat
    BY <1>2, Types DEF n
  <2> HIDE DEF v
  <2>3. v.end <= window_start_timestamp /\ v.events \subseteq 1..(current - 1)
        /\ v.events \cap buffer = {}
    BY <2>1 DEF Settled
  <2>4. window_start_timestamp <= window_start_timestamp'
        /\ v.end <= window_start_timestamp'
    <3>1. window_start_timestamp' \in Nat
      BY DEF ClosesWindow
    <3> QED
      BY <3>1, <2>2, <2>3, <1>u, <1>v
  <2>5. v.events \subseteq 1..(current' - 1)
    BY <2>3, <1>x
  <2>6. v.events \cap buffer' = {}
    BY <1>w
  <2>7. Settled(published[i])'
    BY <2>1, <2>4, <2>5, <2>6, <1>w DEF Settled, KeptFrom
  <2>8. v.events \cap w.events = {}
    <3>1. v.events \cap (current..(current' - 1)) = {}
      BY <2>3, <1>t
    <3> QED
      BY <3>1, <2>3, <1>w
  <2> QED
    BY <1>w, <2>3, <2>7, <2>8 DEF v
<1>5. Settled(w)'
  <2>1. w.end = w.start + Timespan /\ w.end <= window_start_timestamp'
    BY <1>v, <1>w DEF ClosesWindow
  <2>2. buffer \subseteq 1..(current - 1)
    BY <1>2, Types DEF PayloadOfWindow, TypeOK
  <2>3. w.events \subseteq 1..(current' - 1)
    BY <2>2, <1>w, <1>x
  <2>4. ASSUME NEW k \in w.events
        PROVE  stream[k] \in w.start..w.end
    <3>1. CASE k \in buffer
      <4>1. k \in 1..(current - 1) /\ stream[k] >= window_start_timestamp
            /\ stream[k] <= timestamp_cutoff
        BY <3>1, <2>2, <1>2 DEF PayloadOfWindow, CursorSplitsStream
      <4>2. stream[k] \in Nat
        BY <4>1, <1>t, <1>u
      <4> QED
        BY <4>1, <4>2, <1>u, <1>w
    <3>2. CASE k \in current..(current' - 1)
      <4>1. stream[k] >= window_start_timestamp /\ stream[k] <= timestamp_cutoff
        BY <3>2, <1>2, <1>z DEF CursorSplitsStream, ClosesWindow
      <4>2. stream[k] \in Nat
        BY <3>2, <1>u, <1>z
      <4> QED
        BY <4>1, <4>2, <1>u, <1>w
    <3> QED
      BY <3>1, <3>2, <1>w
  <2>5. ASSUME NEW k \in 1..Len(stream),
               stream[k] \in (w.start + 1)..(w.end - 1)
        PROVE  k \in w.events
    <3>1. /\ stream[k] > window_start_timestamp
          /\ stream[k] < timestamp_cutoff
          /\ stream[k] \in Nat
      BY <2>5, <1>u, <1>w
    <3>2. CASE k \in 1..(current - 1)
      BY <3>1, <3>2, <1>2, <1>w DEF CursorSplitsStream
    <3>3. CASE k \in current..(current' - 1)
      BY <3>3, <1>w
    <3>4. CASE k \in current'..Len(stream)
      <4>1. stream[k] > timestamp_cutoff
        BY <3>4 DEF ClosesWindow
      <4> QED
        BY <3>1, <4>1, <1>u
    <3> QED
      BY <3>2, <3>3, <3>4, <1>y
  <2>6. w.events \cap buffer' = {}
    BY <1>w
  <2>7. w.image = {k \in w.events : stream[k] >= KeptFrom(w.end)}
    BY DEF ClosesWindow
  <2> QED
    BY <2>1, <2>3, <2>4, <2>5, <2>6, <2>7, <1>w DEF Settled, KeptFrom
<1>6. \A i \in 1..Len(published') : Settled(published[i])'
  BY <1>1, <1>4, <1>5, <1>t
<1>7. \A i, j \in 1..Len(published') :
        /\ i < j => published'[i].end <= published'[j].start
        /\ i # j => published'[i].events \cap published'[j].events = {}
  <2> TAKE i, j \in 1..Len(published')
  <2>1. CASE i \in 1..n /\ j \in 1..n
    BY <1>1, <1>2, <2>1 DEF PublishedSettled, n
  <2>2. CASE i \in 1..n /\ j = n + 1
    BY <1>1, <1>4, <2>2, <1>t
  <2>3. CASE i = n + 1 /\ j \in 1..n
    <3>1. ~(i < j)
      BY <2>3, <1>t
    <3> QED
      BY <1>1, <1>4, <2>3, <3>1
  <2>4. CASE i = n + 1 /\ j = n + 1
    BY <2>4, <1>t
  <2> QED
    BY <2>1, <2>2, <2>3, <2>4, <1>1, <1>t
<1>8. ASSUME NEW k \in 1..(current' - 1)
      PROVE  \E i \in 1..Len(published') : k \in published'[i].events
  <2>1. CASE k \in buffer \cup (current..(current' - 1))
    <3>1. k \in published'[n + 1].events
      BY <1>1, <1>w, <2>1
    <3>2. n + 1 \in 1..Len(published')
      BY <1>1, <1>t
    <3> QED
      BY <3>1, <3>2
  <2>2. CASE k \notin buffer \cup (current..(current' - 1))
    <3>1. k \in 1..(current - 1)
      BY <2>2, <1>x
    <3>2. PICK i \in 1..n : k \in published[i].events
      BY <3>1, <2>2, <1>2 DEF PublishedSettled, n
    <3>3. i \in 1..Len(published') /\ k \in published'[i].events
      BY <3>2, <1>1, <1>t
    <3> QED
      BY <3>3
  <2> QED
    BY <2>1, <2>2
<1> QED
  BY <1>6, <1>7, <1>8 DEF PublishedSettled

\* A step that closes the window with message w and opens the window of the
\* grid that starts at s, which is not past what the module has heard of.
Closing(w, s) ==
    /\ w \in Window
    /\ ClosesWindow(w)
    /\ s \in Nat
    /\ s >= timestamp_cutoff
    /\ s <= Horizon
    /\ (s - timestamp_cutoff) % Timespan = 0
    /\ raw /\ Interval <= Timespan => s = timestamp_cutoff
    /\ MoveWindow(s, s + Timespan)
    /\ \A k \in current'..Len(stream) : stream[k] >= s
    /\ drawn' = {}
    /\ UNCHANGED <<raw, until, origin>>

\* Closing the open window and opening [s, s + Timespan] keeps the invariant.
LEMMA ClosingStep ==
    ASSUME IInv, NEW w, NEW s, Closing(w, s)
    PROVE  IInv'
<1>0. /\ w \in Window /\ ClosesWindow(w)
      /\ s \in Nat /\ s >= timestamp_cutoff /\ s <= Horizon
      /\ MoveWindow(s, s + Timespan)
      /\ \A k \in current'..Len(stream) : stream[k] >= s
      /\ drawn' = {} /\ UNCHANGED <<raw, until, origin>>
  BY DEF Closing
<1>1. TypeOK /\ OpenWindow /\ CursorSplitsStream /\ PayloadOfWindow
      /\ SlicesBoundStream /\ OnGrid /\ SlicesReachNextWindow
      /\ RawWindowsContiguous
  BY DEF IInv
<1>2. /\ window_start_timestamp' = s /\ timestamp_cutoff' = s + Timespan
      /\ start_timestamp' = KeptFrom(s + Timespan)
  BY <1>0 DEF MoveWindow
<1>3. stream' = stream /\ buffer' = {} /\ current' \in current..(Len(stream) + 1)
      /\ published' = Append(published, w)
  BY <1>0 DEF ClosesWindow
<1>4. Horizon' = Horizon
  BY <1>0, <1>3 DEF Horizon
<1>t. /\ Len(stream) \in Nat /\ current \in Nat /\ current' \in Nat
      /\ 1 <= current /\ current <= current' /\ current' <= Len(stream) + 1
      /\ timestamp_cutoff \in Nat /\ window_start_timestamp \in Nat
      /\ \A k \in 1..Len(stream) : stream[k] \in Nat
  BY <1>1, <1>3, Types
<1>k. KeptFrom(s + Timespan) \in Nat
  BY <1>0, TimespanAssumption DEF KeptFrom
<1>5. TypeOK'
  <2>1. current' \in 1..(Len(stream') + 1)
    BY <1>3, <1>t
  <2>2. published' \in Seq(Window)
    BY <1>0, <1>1, <1>3, PublishAppends DEF TypeOK
  <2>3. {until, origin, timestamp_cutoff, window_start_timestamp,
         start_timestamp}' \subseteq Nat
    BY <1>0, <1>1, <1>2, <1>k, TimespanAssumption DEF TypeOK
  <2> QED
    BY <1>0, <1>1, <1>3, <2>1, <2>2, <2>3 DEF TypeOK
<1>6. OpenWindow'
  BY <1>0, <1>2, <1>4 DEF OpenWindow
<1>7. CursorSplitsStream'
  <2>1. \A k \in current..(current' - 1) : k \in 1..Len(stream)
    BY <1>t, CursorMove
  <2>2. ASSUME NEW k \in 1..(current' - 1)
        PROVE  stream[k] <= s
    <3>1. stream[k] <= timestamp_cutoff
      <4>1. k \in 1..(current - 1) \/ k \in current..(current' - 1)
        BY <1>t, CursorMove
      <4> QED
        BY <4>1, <1>0, <1>1 DEF CursorSplitsStream, ClosesWindow
    <3>2. k \in 1..Len(stream)
      BY <1>t, CursorMove
    <3>3. stream[k] \in Nat
      BY <3>2, <1>t
    <3> QED
      BY <3>1, <3>3, <1>0, <1>t
  <2>3. ASSUME NEW k \in 1..(current' - 1)
        PROVE  stream[k] <= s + Timespan /\ ~(stream[k] > s)
    <3>1. k \in 1..Len(stream)
      BY <1>t, CursorMove
    <3>2. stream[k] \in Nat
      BY <3>1, <1>t
    <3> QED
      BY <1>0, <2>2, <3>2, TimespanAssumption
  <2> QED
    BY <1>0, <1>1, <1>2, <1>3, <2>3 DEF CursorSplitsStream, Ordered, Pending
<1>8. PayloadOfWindow'
  BY <1>0, <1>3 DEF PayloadOfWindow
<1>9. PublishedSettled'
  BY <1>0, PublishSettles
<1>10. SlicesBoundStream'
  BY <1>0, <1>1, <1>3 DEF SlicesBoundStream
<1>11. OnGrid'
  <2>1. (s - timestamp_cutoff) % Timespan = 0 /\ origin \in Nat
    BY <1>1, Types DEF Closing
  <2>2. Timespan % Timespan = 0
    <3>1. Timespan * 1 = Timespan
      BY TimespanAssumption
    <3> QED
      BY <3>1, MultipleMod, TimespanAssumption
  <2>3. (s - origin) % Timespan = 0
    <3>1. s - timestamp_cutoff \in Int /\ timestamp_cutoff - origin \in Int
      BY <1>0, <1>t, <2>1
    <3>2. (timestamp_cutoff - origin) % Timespan = 0
      BY <1>1 DEF OnGrid
    <3>3. ((s - timestamp_cutoff) + (timestamp_cutoff - origin)) % Timespan = 0
      BY ONLY <2>1, <3>1, <3>2, MultipleSum, TimespanAssumption
    <3>4. (s - timestamp_cutoff) + (timestamp_cutoff - origin) = s - origin
      BY <1>0, <1>t, <2>1
    <3> QED
      BY <3>3, <3>4
  <2>4. ((s + Timespan) - origin) % Timespan = 0
    <3>1. s - origin \in Int /\ Timespan \in Int
      BY <1>0, <2>1, TimespanAssumption
    <3>2. ((s - origin) + Timespan) % Timespan = 0
      BY ONLY <2>2, <2>3, <3>1, MultipleSum, TimespanAssumption
    <3>3. (s - origin) + Timespan = (s + Timespan) - origin
      BY <1>0, <2>1, TimespanAssumption
    <3> QED
      BY <3>2, <3>3
  <2>5. origin <= s
    BY <1>0, <1>1, <1>t, <2>1, TimespanAssumption DEF OnGrid, OpenWindow
  <2> QED
    BY <1>0, <1>2, <2>4, <2>5 DEF OnGrid
<1>12. SlicesReachNextWindow'
  BY <1>0, <1>1, <1>2, <1>t, Types, TimespanAssumption DEF SlicesReachNextWindow
<1>13. RawWindowsContiguous'
  <2> SUFFICES ASSUME raw, Interval <= Timespan
               PROVE  RawWindowsContiguous'
    BY <1>0 DEF RawWindowsContiguous
  <2> DEFINE n == Len(published)
  <2>1. /\ n \in Nat /\ Len(published') = n + 1
        /\ \A i \in 1..n : published'[i] = published[i]
        /\ published'[n + 1] = w
    BY <1>0, <1>1, PublishAppends DEF TypeOK, ClosesWindow
  <2>2. /\ w.start = window_start_timestamp
        /\ w.end = timestamp_cutoff /\ window_start_timestamp' = timestamp_cutoff
    BY <1>2 DEF Closing, ClosesWindow
  <2>3. window_start_timestamp = IF n = 0 THEN origin ELSE published[n].end
    BY <1>1 DEF RawWindowsContiguous, TypeOK
  <2>4. ASSUME NEW i \in 1..(n + 1)
        PROVE  published'[i].start =
                 IF i = 1 THEN origin ELSE published'[i - 1].end
    <3>1. CASE i = n + 1
      <4>1. i # 1 => n \in 1..n /\ i - 1 = n /\ n # 0
        BY <2>1, <3>1
      <4> QED
        BY <2>1, <2>2, <2>3, <3>1, <4>1
    <3>2. CASE i # n + 1
      <4>1. i \in 1..n /\ (i # 1 => i - 1 \in 1..n)
        BY <2>1, <3>2
      <4> QED
        BY <1>1, <2>1, <4>1 DEF RawWindowsContiguous
    <3> QED
      BY <3>1, <3>2
  <2>5. published' # <<>> /\ published'[Len(published')].end = timestamp_cutoff
    BY <2>1, <2>2
  <2> QED
    BY <1>0, <2>1, <2>2, <2>4, <2>5 DEF RawWindowsContiguous
<1> QED
  BY <1>10, <1>11, <1>12, <1>13, <1>5, <1>6, <1>7, <1>8, <1>9 DEF IInv

\* The latest of a stream and a time is not before either.
LEMMA LatestProperties ==
    ASSUME NEW s \in Seq(Nat), NEW t \in Nat
    PROVE  /\ Latest(s, t) \in Nat
           /\ Latest(s, t) >= t
           /\ s # <<>> => Len(s) \in 1..Len(s)
           /\ s # <<>> => s[Len(s)] \in Nat /\ Latest(s, t) >= s[Len(s)]
           /\ s = <<>> => Latest(s, t) = t
           /\ Latest(s, t) = t \/ (s # <<>> /\ Latest(s, t) = s[Len(s)])
<1>1. CASE s = <<>>
  BY <1>1 DEF Latest
<1>2. CASE s # <<>>
  <2>1. Len(s) \in 1..Len(s)
    BY <1>2, EmptySeq
  <2>2. s[Len(s)] \in Nat
    BY <2>1, ElementOfSeq
  <2> QED
    BY <1>2, <2>1, <2>2 DEF Latest
<1> QED
  BY <1>1, <1>2

\* Handing in a batch that is not older than the horizon keeps the invariant.
LEMMA DeliveryStep ==
    ASSUME IInv, NEW b \in Seq(Nat), Ordered(b),
           \A i \in 1..Len(b) : b[i] >= Horizon,
           stream' = stream \o b,
           until' \in Nat, until' >= until,
           raw => \A i \in 1..Len(b) : b[i] <= until',
           raw /\ Interval <= Timespan => until' < timestamp_cutoff + Timespan,
           UNCHANGED <<raw, current, origin, timestamp_cutoff,
                       window_start_timestamp, start_timestamp, buffer, drawn,
                       published>>
    PROVE  IInv'
<1>1. TypeOK /\ OpenWindow /\ CursorSplitsStream /\ PayloadOfWindow
      /\ SlicesBoundStream
      /\ PublishedSettled
  BY DEF IInv
<1>t. /\ Len(stream) \in Nat /\ current \in 1..(Len(stream) + 1)
      /\ current \in Nat /\ Len(b) \in Nat
      /\ window_start_timestamp \in Nat /\ timestamp_cutoff \in Nat
      /\ until \in Nat /\ Horizon \in Nat
  BY <1>1, Types, LatestProperties, LenProperties DEF Horizon, TypeOK
<1>b. \A i \in 1..Len(b) : b[i] \in Nat
  BY ElementOfSeq
<1>2. \A i \in 1..Len(b) : stream # <<>> => b[i] >= stream[Len(stream)]
  <2> SUFFICES ASSUME NEW i \in 1..Len(b), stream # <<>>
               PROVE  b[i] >= stream[Len(stream)]
    OBVIOUS
  <2>1. stream[Len(stream)] \in Nat /\ Horizon >= stream[Len(stream)]
    BY <1>1, LatestProperties, Types DEF Horizon, TypeOK
  <2>2. b[i] >= Horizon /\ b[i] \in Nat
    BY <1>b
  <2> QED
    BY <2>1, <2>2, <1>t
<1>3. /\ stream' \in Seq(Nat)
      /\ Len(stream') = Len(stream) + Len(b)
      /\ \A i \in 1..Len(stream) : stream'[i] = stream[i]
      /\ \A i \in (Len(stream) + 1)..Len(stream') :
           (i - Len(stream)) \in 1..Len(b) /\ stream'[i] = b[i - Len(stream)]
      /\ Ordered(stream')
  BY <1>1, <1>2, OrderedConcat DEF TypeOK, CursorSplitsStream
<1>4. ASSUME NEW k \in (Len(stream) + 1)..Len(stream')
      PROVE  stream'[k] \in Nat /\ stream'[k] >= Horizon
             /\ stream'[k] >= window_start_timestamp
  <2>1. stream'[k] \in Nat /\ stream'[k] >= Horizon
    BY <1>3, <1>b
  <2> QED
    BY <2>1, <1>1, <1>t DEF OpenWindow
<1>5. TypeOK'
  BY <1>1, <1>3, <1>t DEF TypeOK
<1>6. OpenWindow'
  <2>1. Horizon' >= Horizon
    <3>1. /\ Horizon' \in Nat /\ Horizon' >= until'
          /\ stream' # <<>> => Horizon' >= stream'[Len(stream')]
      BY <1>3, LatestProperties DEF Horizon
    <3>2. CASE b = <<>>
      <4>1. stream' = stream
        BY <1>1, <3>2, ConcatEmptySeq DEF TypeOK
      <4>2. Horizon = until \/ (stream # <<>> /\ Horizon = stream[Len(stream)])
        BY <1>1, <1>t, LatestProperties DEF Horizon, TypeOK
      <4>3. CASE Horizon = until
        BY <4>3, <3>1, <1>t
      <4> QED
        BY <4>1, <4>2, <4>3, <3>1
    <3>3. CASE b # <<>>
      <4>1. Len(b) >= 1 /\ Len(stream') \in (Len(stream) + 1)..Len(stream')
        BY <3>3, <1>3, <1>t, EmptySeq
      <4>2. stream' # <<>>
        BY <4>1, <1>3, <1>t, EmptySeq
      <4>3. stream'[Len(stream')] \in Nat /\ stream'[Len(stream')] >= Horizon
        BY <4>1, <1>4
      <4> QED
        BY <4>2, <4>3, <3>1, <1>t
    <3> QED
      BY <3>2, <3>3
  <2>2. Horizon' \in Nat
    BY <1>3, LatestProperties DEF Horizon
  <2> QED
    BY <1>1, <1>t, <2>1, <2>2 DEF OpenWindow
<1>i. /\ \A k \in 1..(current - 1) : k \in 1..Len(stream)
      /\ \A k \in current..Len(stream') :
           k \in Pending \/ k \in (Len(stream) + 1)..Len(stream')
      /\ \A k \in 1..Len(stream') :
           k \in 1..Len(stream) \/ k \in (Len(stream) + 1)..Len(stream')
  BY <1>3, <1>t DEF Pending
<1>p. \A k \in Pending : k \in 1..Len(stream)
  BY <1>t DEF Pending
<1>7. CursorSplitsStream'
  <2>1. ASSUME NEW k \in 1..(current - 1)
        PROVE  /\ stream'[k] <= timestamp_cutoff
               /\ stream'[k] > window_start_timestamp => k \in buffer
    BY <1>1, <1>3, <1>i DEF CursorSplitsStream
  <2>2. ASSUME NEW k \in current..Len(stream')
        PROVE  stream'[k] >= window_start_timestamp
    BY <1>1, <1>3, <1>4, <1>i, <1>p DEF CursorSplitsStream
  <2> QED
    BY <1>3, <2>1, <2>2 DEF CursorSplitsStream, Pending
<1>8. PayloadOfWindow'
  <2>1. \A k \in buffer : stream'[k] = stream[k]
    BY <1>1, <1>3 DEF TypeOK
  <2> QED
    BY <1>1, <2>1 DEF PayloadOfWindow
<1>9. PublishedSettled'
  <2>1. ASSUME NEW i \in 1..Len(published)
        PROVE  Settled(published[i])'
    <3> DEFINE v == published[i]
    <3>1. Settled(v)
      BY <1>1 DEF PublishedSettled
    <3>2. v.end \in Nat /\ v.start \in Nat
      BY <1>1, Types
    <3> HIDE DEF v
    <3>3. \A k \in v.events : k \in 1..Len(stream) /\ stream'[k] = stream[k]
      BY <3>1, <1>3, <1>i DEF Settled
    <3>4. ASSUME NEW k \in (Len(stream) + 1)..Len(stream')
          PROVE  stream'[k] \notin (v.start + 1)..(v.end - 1)
      <4>1. v.end <= window_start_timestamp
        BY <3>1 DEF Settled
      <4>2. \A x, e, a, l \in Nat : e <= l /\ x >= l => x \notin (a + 1)..(e - 1)
        OBVIOUS
      <4> QED
        BY <4>1, <4>2, <1>4, <3>2, <1>t
    <3>5. ASSUME NEW k \in 1..Len(stream'),
                 stream'[k] \in (v.start + 1)..(v.end - 1)
          PROVE  k \in v.events
      BY <3>1, <3>4, <3>5, <1>3, <1>i DEF Settled
    <3>6. /\ \A k \in v.events : stream'[k] \in v.start..v.end
          /\ v.image = {k \in v.events : stream'[k] >= KeptFrom(v.end)}
      BY <3>1, <3>3 DEF Settled
    <3> QED
      BY <3>1, <3>5, <3>6 DEF Settled, KeptFrom, v
  <2> QED
    BY <1>1, <2>1 DEF PublishedSettled
<1>10. SlicesBoundStream'
  <2> SUFFICES ASSUME raw, NEW k \in 1..Len(stream')
               PROVE  stream'[k] <= until'
    BY DEF SlicesBoundStream
  <2>1. CASE k \in 1..Len(stream)
    <3>1. stream[k] \in Nat /\ stream[k] <= until
      BY <2>1, <1>1, Types DEF SlicesBoundStream
    <3> QED
      BY <3>1, <2>1, <1>3, <1>t
  <2>2. CASE k \in (Len(stream) + 1)..Len(stream')
    BY <2>2, <1>3
  <2> QED
    BY <1>i, <2>1, <2>2
<1>11. (OnGrid /\ SlicesReachNextWindow /\ RawWindowsContiguous)'
  BY DEF IInv, OnGrid, SlicesReachNextWindow, RawWindowsContiguous
<1> QED
  BY <1>5, <1>6, <1>7, <1>8, <1>9, <1>10, <1>11 DEF IInv

----------------------------------------------------------------------------
(* The invariant holds initially and is preserved by every action.            *)

\* A session starts with no event, one open window and nothing published.
LEMMA InitIInv == Init => IInv
<1> SUFFICES ASSUME raw \in BOOLEAN, NEW o \in SessionOrigins,
                    /\ stream = <<>> /\ current = 1 /\ until = o /\ origin = o
                    /\ window_start_timestamp = o
                    /\ timestamp_cutoff = o + Timespan
                    /\ start_timestamp = KeptFrom(o + Timespan)
                    /\ buffer = {} /\ drawn = {} /\ published = <<>>
             PROVE  IInv
  BY DEF Init
<1>1. o \in Nat /\ o + Timespan \in Nat /\ KeptFrom(o + Timespan) \in Nat
  BY OriginsAssumption, TimespanAssumption DEF KeptFrom, SessionOrigins
<1>2. Len(stream) = 0 /\ Len(published) = 0
  OBVIOUS
<1>3. TypeOK
  BY <1>1, <1>2 DEF TypeOK
<1>4. OpenWindow
  BY <1>1 DEF OpenWindow, Horizon, Latest
<1>5. CursorSplitsStream
  BY <1>2 DEF CursorSplitsStream, Ordered, Pending
<1>6. PayloadOfWindow
  BY DEF PayloadOfWindow
<1>7. PublishedSettled
  BY <1>2 DEF PublishedSettled
<1>8. SlicesBoundStream
  BY <1>2 DEF SlicesBoundStream
<1>9. OnGrid
  <2>1. (o + Timespan) - o = Timespan * 1
    BY <1>1, TimespanAssumption
  <2>2. ((o + Timespan) - o) % Timespan = 0
    BY <2>1, MultipleMod, TimespanAssumption
  <2> QED
    BY <1>1, <1>2, <2>2 DEF OnGrid
<1>10. SlicesReachNextWindow
  BY <1>1, <1>2, TimespanAssumption DEF SlicesReachNextWindow
<1>11. RawWindowsContiguous
  BY <1>1, <1>2 DEF RawWindowsContiguous
<1> QED
  BY <1>3, <1>4, <1>5, <1>6, <1>7, <1>8, <1>9, <1>10, <1>11 DEF IInv

\* Restarting the session is a fresh start: nothing of the old one is left.
LEMMA RestartStep == IInv /\ Restart => IInv'
<1> SUFFICES ASSUME IInv, NEW o \in SessionOrigins, OpenSession(o),
                    UNCHANGED raw
             PROVE  IInv'
  BY DEF Restart
<1>0. /\ stream' = <<>> /\ current' = 1 /\ until' = o /\ origin' = o
      /\ window_start_timestamp' = o
      /\ timestamp_cutoff' = o + Timespan
      /\ start_timestamp' = KeptFrom(o + Timespan)
      /\ buffer' = {} /\ drawn' = {} /\ published' = <<>>
  BY DEF OpenSession, Forget, MoveWindow, ClearPayload
<1>1. o \in Nat /\ o + Timespan \in Nat /\ KeptFrom(o + Timespan) \in Nat
  BY OriginsAssumption, TimespanAssumption DEF KeptFrom, SessionOrigins
<1>2. Len(stream') = 0 /\ Len(published') = 0
  BY <1>0
<1>3. TypeOK'
  <2>1. raw' \in BOOLEAN
    BY DEF IInv, TypeOK
  <2> QED
    BY <2>1, <1>0, <1>1, <1>2 DEF TypeOK
<1>4. OpenWindow'
  BY <1>0, <1>1 DEF OpenWindow, Horizon, Latest
<1>5. CursorSplitsStream'
  BY <1>0, <1>2 DEF CursorSplitsStream, Ordered, Pending
<1>6. PayloadOfWindow'
  BY <1>0 DEF PayloadOfWindow
<1>7. PublishedSettled'
  BY <1>0, <1>2 DEF PublishedSettled
<1>8. SlicesBoundStream'
  BY <1>0, <1>2 DEF SlicesBoundStream
<1>9. OnGrid'
  <2>1. (o + Timespan) - o = Timespan * 1
    BY <1>1, TimespanAssumption
  <2>2. ((o + Timespan) - o) % Timespan = 0
    BY <2>1, MultipleMod, TimespanAssumption
  <2> QED
    BY <1>0, <1>1, <1>2, <2>2 DEF OnGrid
<1>10. SlicesReachNextWindow'
  BY <1>0, <1>1, <1>2, TimespanAssumption DEF SlicesReachNextWindow
<1>11. RawWindowsContiguous'
  BY <1>0, <1>1, <1>2 DEF RawWindowsContiguous
<1> QED
  BY <1>3, <1>4, <1>5, <1>6, <1>7, <1>8, <1>9, <1>10, <1>11 DEF IInv

\* A live batch only extends the stream beyond the cursor.
LEMMA DeliverBatchStep == IInv /\ DeliverBatch => IInv'
<1> SUFFICES ASSUME IInv, DeliverBatch
             PROVE  IInv'
  OBVIOUS
<1>1. TypeOK
  BY DEF IInv
<1>2. until \in Nat /\ Horizon \in Nat /\ MaxTime \in Nat
      /\ MaxEvents - Len(stream) \in Int
  BY <1>1, Types, LatestProperties, BoundsAssumption DEF Horizon, TypeOK
<1>3. PICK b \in Batches(Horizon, MaxTime, MaxEvents - Len(stream)) :
        stream' = stream \o b
  BY DEF DeliverBatch
<1>4. b \in Seq(Nat) /\ Ordered(b)
      /\ \A i \in 1..Len(b) : b[i] \in Horizon..MaxTime
  BY <1>2, <1>3, BatchProperties
<1>5. \A i \in 1..Len(b) : b[i] >= Horizon
  BY <1>2, <1>4
<1>6. UNCHANGED <<raw, current, until, origin, timestamp_cutoff,
                  window_start_timestamp, start_timestamp, buffer, drawn,
                  published>>
  BY DEF DeliverBatch
<1>7. until' \in Nat /\ until' >= until
  BY <1>2, <1>6
<1>8. ~raw
  BY DEF DeliverBatch
<1> QED
  BY <1>8, <1>3, <1>4, <1>5, <1>6, <1>7, DeliveryStep

\* In raw mode the module has heard of nothing past the last slice.
LEMMA HorizonOfSlices ==
    ASSUME IInv, raw
    PROVE  Horizon = until
<1>1. TypeOK /\ until \in Nat
  BY Types DEF IInv
<1>2. Horizon = until \/ (stream # <<>> /\ Horizon = stream[Len(stream)])
  BY <1>1, LatestProperties DEF Horizon, TypeOK
<1>3. stream # <<>> => /\ stream[Len(stream)] \in Nat
                       /\ stream[Len(stream)] <= until
  BY <1>1, LatestProperties DEF IInv, SlicesBoundStream, TypeOK
<1>4. Horizon \in Nat /\ Horizon >= until
  BY <1>1, LatestProperties DEF Horizon, TypeOK
<1> QED
  BY <1>1, <1>2, <1>3, <1>4

\* A raw slice extends the stream and moves the time to publish until.
LEMMA DeliverSliceStep == IInv /\ DeliverSlice => IInv'
<1> SUFFICES ASSUME IInv, DeliverSlice
             PROVE  IInv'
  OBVIOUS
<1>1. TypeOK /\ until \in Nat
  BY Types DEF IInv
<1>2. PICK t \in until..(until + Interval) :
        /\ \E b \in Batches(until, t, MaxEvents - Len(stream)) :
             stream' = stream \o b
        /\ until' = t
  BY DEF DeliverSlice
<1>3. PICK b \in Batches(until, t, MaxEvents - Len(stream)) :
        stream' = stream \o b
  BY <1>2
<1>4. t \in Nat /\ t >= until /\ MaxEvents - Len(stream) \in Int
  BY <1>1, <1>2, Types, IntervalAssumption, BoundsAssumption
<1>5. b \in Seq(Nat) /\ Ordered(b) /\ \A i \in 1..Len(b) : b[i] \in until..t
  BY <1>1, <1>4, BatchProperties
<1>6. Horizon = until
  BY HorizonOfSlices DEF DeliverSlice
<1>7. \A i \in 1..Len(b) : b[i] >= Horizon /\ b[i] <= until'
  BY <1>1, <1>2, <1>4, <1>5, <1>6
<1>8. Interval <= Timespan => until' < timestamp_cutoff + Timespan
  <2>1. until < timestamp_cutoff /\ timestamp_cutoff \in Nat
    BY <1>1, Types DEF DeliverSlice, Idle
  <2>2. until' <= until + Interval
    BY <1>1, <1>2, IntervalAssumption
  <2> QED
    BY <1>1, <1>2, <1>4, <2>1, <2>2, IntervalAssumption, TimespanAssumption
<1> QED
  BY <1>2, <1>3, <1>4, <1>5, <1>7, <1>8, DeliveryStep DEF DeliverSlice

\* The rest of a batch moves from the stream into the open payload.
LEMMA FinishBatchStep == IInv /\ FinishBatch => IInv'
<1> SUFFICES ASSUME IInv, FinishBatch
             PROVE  IInv'
  OBVIOUS
<1>1. TypeOK /\ OpenWindow /\ CursorSplitsStream /\ PayloadOfWindow
      /\ SlicesBoundStream /\ PublishedSettled
  BY DEF IInv
<1>2. /\ buffer' = buffer \cup Pending
      /\ drawn' = drawn \cup Shown(Pending)
      /\ current' = Len(stream) + 1
      /\ UNCHANGED <<raw, stream, until, origin, timestamp_cutoff,
                     window_start_timestamp, start_timestamp, published>>
  BY DEF FinishBatch
<1>t. /\ Len(stream) \in Nat /\ current \in Nat /\ 1 <= current
      /\ current <= Len(stream) + 1
      /\ timestamp_cutoff \in Nat
      /\ \A k \in 1..Len(stream) : stream[k] \in Nat
  BY <1>1, Types
<1>3. /\ \A k \in 1..Len(stream) : k \in 1..(current - 1) \/ k \in Pending
      /\ \A k \in Pending : k \in 1..Len(stream) /\ k \notin 1..(current - 1)
      /\ \A k \in 1..(current - 1) : k \in 1..Len(stream)
      /\ current' - 1 = Len(stream)
  BY <1>t, <1>2, CursorMove DEF Pending
<1>4. \A k \in Pending : stream[k] <= timestamp_cutoff
  <2> TAKE k \in Pending
  <2>1. k \in 1..Len(stream) /\ Len(stream) \in 1..Len(stream) /\ k <= Len(stream)
    BY <1>3, <1>t
  <2>2. stream[k] <= stream[Len(stream)]
    BY <2>1, <1>1 DEF CursorSplitsStream, Ordered
  <2>3. stream[k] \in Nat /\ stream[Len(stream)] \in Nat
        /\ stream[Len(stream)] < timestamp_cutoff
    BY <2>1, <1>t DEF FinishBatch
  <2> QED
    BY <2>2, <2>3, <1>t
<1>5. TypeOK'
  <2>1. current' \in 1..(Len(stream') + 1)
    BY <1>2, <1>t
  <2>2. buffer' \subseteq 1..Len(stream') /\ drawn' \subseteq buffer'
    BY <1>1, <1>2, <1>3 DEF TypeOK, Shown
  <2> QED
    BY <1>1, <1>2, <2>1, <2>2 DEF TypeOK
<1>6. OpenWindow'
  BY <1>1, <1>2 DEF OpenWindow, Horizon
<1>7. CursorSplitsStream'
  <2>1. \A k \in 1..Len(stream) :
          /\ stream[k] <= timestamp_cutoff
          /\ stream[k] > window_start_timestamp => k \in buffer'
    BY <1>1, <1>2, <1>3, <1>4 DEF CursorSplitsStream
  <2>2. Pending' = {}
    BY <1>2, <1>t DEF Pending
  <2> QED
    BY <1>1, <1>2, <1>3, <2>1, <2>2 DEF CursorSplitsStream, Ordered
<1>8. PayloadOfWindow'
  <2>1. \A k \in buffer' : k \in 1..Len(stream)
                           /\ stream[k] >= window_start_timestamp
    BY <1>1, <1>2, <1>3 DEF PayloadOfWindow, CursorSplitsStream, TypeOK
  <2>2. \A k \in 1..Len(stream) : k < Len(stream) + 1
    BY <1>t
  <2>3. drawn' = {k \in buffer' : stream[k] >= start_timestamp}
    BY <1>1, <1>2 DEF PayloadOfWindow, Shown
  <2> QED
    BY <1>2, <2>1, <2>2, <2>3 DEF PayloadOfWindow
<1>9. PublishedSettled'
  <2>1. ASSUME NEW i \in 1..Len(published)
        PROVE  Settled(published[i])'
    <3>1. Settled(published[i])
      BY <1>1 DEF PublishedSettled
    <3>2. published[i].events \subseteq 1..(current' - 1)
      BY <3>1, <1>3 DEF Settled
    <3>3. published[i].events \cap buffer' = {}
      BY <3>1, <1>2, <1>3 DEF Settled
    <3> QED
      BY <3>1, <3>2, <3>3, <1>2 DEF Settled, KeptFrom
  <2>2. \A k \in 1..(current' - 1) :
          \/ k \in buffer'
          \/ \E i \in 1..Len(published) : k \in published[i].events
    BY <1>1, <1>2, <1>3 DEF PublishedSettled
  <2> QED
    BY <1>1, <1>2, <2>1, <2>2 DEF PublishedSettled
<1>10. SlicesBoundStream'
  BY <1>1, <1>2 DEF SlicesBoundStream
<1>11. (OnGrid /\ SlicesReachNextWindow /\ RawWindowsContiguous)'
  BY <1>2 DEF IInv, OnGrid, SlicesReachNextWindow, RawWindowsContiguous
<1> QED
  BY <1>5, <1>6, <1>7, <1>8, <1>9, <1>10, <1>11 DEF IInv

\* The message the closing actions publish.
Message(events, image) == [start |-> window_start_timestamp,
                           end |-> timestamp_cutoff,
                           events |-> events,
                           image |-> image]

\* Closing a stale window settles it: what is pending is past its cutoff.
LEMMA CloseStaleWindowCloses ==
    IInv /\ CloseStaleWindow => \E w, s : Closing(w, s)
<1> SUFFICES ASSUME IInv, CloseStaleWindow
             PROVE  \E w, s : Closing(w, s)
  OBVIOUS
<1>1. TypeOK /\ CursorSplitsStream /\ PayloadOfWindow
  BY DEF IInv
<1>2. PICK c \in AdvancedCutoffs(stream[current]) : ReopenAt(c)
  BY DEF CloseStaleWindow
<1>3. /\ published' = Append(published, Message(buffer, drawn))
      /\ buffer' = {} /\ drawn' = {}
      /\ UNCHANGED <<raw, stream, current, until, origin>>
      /\ Pending # {} /\ stream[current] > timestamp_cutoff
  BY DEF CloseStaleWindow, Publish, ClearPayload, Message
<1>t. /\ Len(stream) \in Nat /\ current \in 1..(Len(stream) + 1)
      /\ current \in Nat
      /\ timestamp_cutoff \in Nat /\ window_start_timestamp \in Nat
      /\ \A k \in 1..Len(stream) : stream[k] \in Nat
      /\ Timespan \in Nat /\ Timespan >= 1
  BY <1>1, Types
<1>4. current \in 1..Len(stream) /\ stream[current] \in Nat
  BY <1>3, <1>t DEF Pending
<1> DEFINE s == c - Timespan
           w == Message(buffer, drawn)
<1>5. /\ c \in Int /\ s \in Nat /\ s + Timespan = c
      /\ s >= timestamp_cutoff /\ s < stream[current]
  BY <1>2, <1>4, <1>t DEF AdvancedCutoffs
<1>6. MoveWindow(s, s + Timespan)
  BY <1>2, <1>5 DEF ReopenAt
<1>7. w \in Window
  BY <1>1, <1>t DEF Message, Window, TypeOK
<1>8. ASSUME NEW k \in current..Len(stream)
      PROVE  stream[k] \in Nat /\ stream[k] >= stream[current]
  <2>1. k \in 1..Len(stream) /\ current <= k
    BY <1>t
  <2> QED
    BY <2>1, <1>1, <1>4, <1>t DEF CursorSplitsStream, Ordered
<1>9. s <= Horizon
  <2>1. Len(stream) \in current..Len(stream) /\ stream # <<>>
    BY <1>4, <1>t
  <2>2. stream[Len(stream)] >= stream[current] /\ stream[Len(stream)] \in Nat
    BY <2>1, <1>8
  <2>3. Horizon \in Nat /\ Horizon >= stream[Len(stream)]
    BY <1>1, <1>t, <2>1, LatestProperties DEF Horizon, TypeOK
  <2> QED
    BY <2>2, <2>3, <1>4, <1>5
<1> HIDE DEF s
<1>10. ClosesWindow(w)
  <2>1. current..(current' - 1) = {}
    BY <1>3, <1>t
  <2>2. w.image = {k \in w.events : stream[k] >= KeptFrom(w.end)}
    BY <1>1 DEF Message, PayloadOfWindow, IInv, OpenWindow
  <2>3. window_start_timestamp' \in Nat
        /\ window_start_timestamp' >= timestamp_cutoff
    BY <1>5, <1>6 DEF MoveWindow
  <2>4. \A k \in current'..Len(stream) : stream[k] > timestamp_cutoff
    BY <1>3, <1>4, <1>8, <1>t
  <2> QED
    BY <1>3, <1>t, <2>1, <2>2, <2>3, <2>4 DEF ClosesWindow, Message
<1>11. \A k \in current'..Len(stream) : stream[k] >= s
  BY <1>3, <1>4, <1>5, <1>8
<1> HIDE DEF w
<1>g. /\ (s - timestamp_cutoff) % Timespan = 0
      /\ raw /\ Interval <= Timespan => s = timestamp_cutoff
  <2>1. (c - timestamp_cutoff) % Timespan = 0 /\ c >= timestamp_cutoff + Timespan
        /\ c <= stream[current] + Timespan - 1
    BY <1>2, <1>4, <1>t DEF AdvancedCutoffs
  <2>2. (s - timestamp_cutoff) % Timespan = 0
    <3>1. c - timestamp_cutoff \in Int /\ Timespan * (-1) \in Int
      BY <1>5, <1>t
    <3>2. (Timespan * (-1)) % Timespan = 0
      BY ONLY MultipleMod, TimespanAssumption
    <3>3. ((c - timestamp_cutoff) + Timespan * (-1)) % Timespan = 0
      BY ONLY <2>1, <3>1, <3>2, MultipleSum, TimespanAssumption
    <3>4. (c - timestamp_cutoff) + Timespan * (-1) = s - timestamp_cutoff
      BY <1>5, <1>t
    <3> QED
      BY <3>3, <3>4
  <2>3. ASSUME raw, Interval <= Timespan
        PROVE  s = timestamp_cutoff
    <3>1. until \in Nat /\ until < timestamp_cutoff + Timespan
      BY <1>1, <2>3, Types DEF IInv, SlicesReachNextWindow
    <3>2. stream[current] <= until
      BY <1>4, <2>3 DEF IInv, SlicesBoundStream
    <3>3. /\ c - timestamp_cutoff >= Timespan
          /\ c - timestamp_cutoff < Timespan + Timespan
      BY <1>4, <1>5, <1>t, <2>1, <3>1, <3>2
    <3>4. c - timestamp_cutoff = Timespan
      <4>1. c - timestamp_cutoff \in Int
        BY <1>5, <1>t
      <4> QED
        BY ONLY <2>1, <3>3, <4>1, OneMultiple, TimespanAssumption
    <3> QED
      BY <1>5, <1>t, <3>4
  <2> QED
    BY <2>2, <2>3
<1>z. Closing(w, s)
  BY <1>3, <1>5, <1>6, <1>7, <1>9, <1>10, <1>11, <1>g DEF Closing
<1> QED
  BY <1>z

\* Filling a window settles it: what stays pending is past its cutoff.
LEMMA FillWindowCloses ==
    IInv /\ FillWindow => \E w, s : Closing(w, s)
<1> SUFFICES ASSUME IInv, FillWindow
             PROVE  \E w, s : Closing(w, s)
  OBVIOUS
<1>1. TypeOK /\ OpenWindow /\ CursorSplitsStream /\ PayloadOfWindow
  BY DEF IInv
<1>2. PICK upper \in UpperBounds :
        /\ Publish(buffer \cup (current..upper),
                   drawn \cup Shown(current..upper))
        /\ current' = upper + 1
  BY DEF FillWindow
<1>3. /\ buffer' = {} /\ drawn' = {}
      /\ MoveWindow(timestamp_cutoff, timestamp_cutoff + Timespan)
      /\ UNCHANGED <<raw, stream, until, origin>>
      /\ Pending # {} /\ stream[Len(stream)] >= timestamp_cutoff
  BY DEF FillWindow, ClearPayload
<1>t. /\ Len(stream) \in Nat /\ current \in 1..(Len(stream) + 1)
      /\ current \in Nat
      /\ timestamp_cutoff \in Nat /\ window_start_timestamp \in Nat
      /\ \A k \in 1..Len(stream) : stream[k] \in Nat
  BY <1>1, Types
<1>4. /\ upper \in current..Len(stream) /\ upper \in 1..Len(stream)
      /\ upper \in Nat /\ stream[upper] <= timestamp_cutoff
      /\ \A i \in (upper + 1)..Len(stream) : stream[i] > timestamp_cutoff
  BY <1>t DEF UpperBounds, Pending
<1> DEFINE w == Message(buffer \cup (current..upper),
                        drawn \cup Shown(current..upper))
<1>5. \A k \in current..upper : k \in 1..Len(stream) /\ k <= upper
  BY <1>4, <1>t
<1>6. \A k \in current..upper : stream[k] <= timestamp_cutoff
  <2> TAKE k \in current..upper
  <2>1. stream[k] <= stream[upper]
    BY <1>1, <1>4, <1>5 DEF CursorSplitsStream, Ordered
  <2>2. stream[k] \in Nat /\ stream[upper] \in Nat
    BY <1>4, <1>5, <1>t
  <2> QED
    BY <2>1, <2>2, <1>4, <1>t
<1>7. w \in Window
  <2>1. buffer \cup (current..upper) \subseteq Nat
    <3>1. 1..Len(stream) \subseteq Nat
      OBVIOUS
    <3>2. buffer \subseteq Nat
      BY <3>1, <1>1 DEF TypeOK
    <3>3. current..upper \subseteq Nat
      BY <3>1, <1>5
    <3> QED
      BY <3>2, <3>3
  <2>2. drawn \cup Shown(current..upper) \subseteq Nat
    BY <1>1, <2>1 DEF TypeOK, Shown
  <2> QED
    BY <1>t, <2>1, <2>2 DEF Message, Window
<1>8. timestamp_cutoff <= Horizon
  <2>1. stream # <<>>
    BY <1>4, <1>t
  <2>2. Horizon \in Nat /\ Horizon >= stream[Len(stream)]
        /\ stream[Len(stream)] \in Nat
    BY <1>1, <1>t, <2>1, LatestProperties DEF Horizon, TypeOK
  <2> QED
    BY <2>2, <1>3, <1>t
<1>9. ClosesWindow(w)
  <2>1. current' - 1 = upper /\ current' \in current..(Len(stream) + 1)
    BY <1>2, <1>4, <1>t
  <2>2. w.image = {k \in w.events : stream[k] >= KeptFrom(w.end)}
    BY <1>1 DEF Message, PayloadOfWindow, OpenWindow, Shown
  <2>3. window_start_timestamp' = timestamp_cutoff
    BY <1>3 DEF MoveWindow
  <2>4. published' = Append(published, w)
    BY <1>2 DEF Publish, Message
  <2>5. w.start = window_start_timestamp /\ w.end = timestamp_cutoff
        /\ w.events = buffer \cup (current..upper)
    BY DEF Message
  <2> HIDE DEF w
  <2>6. \A k \in current'..Len(stream) : stream[k] > timestamp_cutoff
    BY <1>2, <1>4
  <2>7. current..(current' - 1) = current..upper
    BY <2>1
  <2>8. \A k \in current..(current' - 1) : stream[k] <= timestamp_cutoff
    BY <1>6, <2>7
  <2>9. window_start_timestamp' \in Nat
        /\ window_start_timestamp' >= timestamp_cutoff
    BY <1>t, <2>3
  <2> QED
    BY <1>3, <2>1, <2>2, <2>4, <2>5, <2>6, <2>7, <2>8, <2>9 DEF ClosesWindow
<1>10. \A k \in current'..Len(stream) : stream[k] >= timestamp_cutoff
  <2> TAKE k \in current'..Len(stream)
  <2>1. k \in (upper + 1)..Len(stream) /\ k \in 1..Len(stream)
    BY <1>2, <1>4, <1>t
  <2>2. stream[k] > timestamp_cutoff /\ stream[k] \in Nat
    BY <2>1, <1>4, <1>t
  <2> QED
    BY <2>2, <1>t
<1> HIDE DEF w
<1>11. timestamp_cutoff >= timestamp_cutoff
  BY <1>t
<1>g. (timestamp_cutoff - timestamp_cutoff) % Timespan = 0
  <2>1. timestamp_cutoff - timestamp_cutoff = Timespan * 0
    BY <1>t, TimespanAssumption
  <2> QED
    BY <2>1, MultipleMod, TimespanAssumption
<1>z. Closing(w, timestamp_cutoff)
  BY <1>3, <1>7, <1>8, <1>9, <1>10, <1>11, <1>t, <1>g DEF Closing
<1> QED
  BY <1>z

\* Publishing a window that time has passed settles it: nothing is pending.
LEMMA PublishWindowUntilCloses ==
    IInv /\ PublishWindowUntil => \E w, s : Closing(w, s)
<1> SUFFICES ASSUME IInv, PublishWindowUntil
             PROVE  \E w, s : Closing(w, s)
  OBVIOUS
<1>1. TypeOK /\ OpenWindow /\ CursorSplitsStream /\ PayloadOfWindow
  BY DEF IInv
<1>2. /\ published' = Append(published, Message(buffer, drawn))
      /\ buffer' = {} /\ drawn' = {}
      /\ MoveWindow(timestamp_cutoff, timestamp_cutoff + Timespan)
      /\ UNCHANGED <<raw, stream, current, until, origin>>
      /\ Pending = {} /\ until >= timestamp_cutoff
  BY DEF PublishWindowUntil, Publish, ClearPayload, Message
<1>t. /\ Len(stream) \in Nat /\ current \in 1..(Len(stream) + 1)
      /\ current \in Nat /\ until \in Nat
      /\ timestamp_cutoff \in Nat /\ window_start_timestamp \in Nat
  BY <1>1, Types
<1> DEFINE w == Message(buffer, drawn)
<1>3. w \in Window
  BY <1>1, <1>t DEF Message, Window, TypeOK
<1>4. timestamp_cutoff <= Horizon
  <2>1. Horizon \in Nat /\ Horizon >= until
    BY <1>1, <1>t, LatestProperties DEF Horizon, TypeOK
  <2> QED
    BY <2>1, <1>2, <1>t
<1>5. current'..Len(stream) = {} /\ current..(current' - 1) = {}
  BY <1>2, <1>t DEF Pending
<1>6. ClosesWindow(w)
  <2>1. w.image = {k \in w.events : stream[k] >= KeptFrom(w.end)}
    BY <1>1 DEF Message, PayloadOfWindow, OpenWindow
  <2>2. window_start_timestamp' = timestamp_cutoff
    BY <1>2 DEF MoveWindow
  <2>3. current' \in current..(Len(stream) + 1)
    BY <1>2, <1>t
  <2>4. w.start = window_start_timestamp /\ w.end = timestamp_cutoff
        /\ w.events = buffer
    BY DEF Message
  <2>5. published' = Append(published, w)
    BY <1>2
  <2> HIDE DEF w
  <2> QED
    BY <1>2, <1>5, <1>t, <2>1, <2>2, <2>3, <2>4, <2>5 DEF ClosesWindow
<1> HIDE DEF w
<1>7. timestamp_cutoff >= timestamp_cutoff
  BY <1>t
<1>g. (timestamp_cutoff - timestamp_cutoff) % Timespan = 0
  <2>1. timestamp_cutoff - timestamp_cutoff = Timespan * 0
    BY <1>t, TimespanAssumption
  <2> QED
    BY <2>1, MultipleMod, TimespanAssumption
<1>z. Closing(w, timestamp_cutoff)
  BY <1>2, <1>3, <1>4, <1>5, <1>6, <1>7, <1>t, <1>g DEF Closing
<1> QED
  BY <1>z

\* A step that changes nothing preserves the invariant.
LEMMA StutterStep == IInv /\ UNCHANGED vars => IInv'
<1> SUFFICES ASSUME IInv, UNCHANGED vars
             PROVE  IInv'
  OBVIOUS
<1> USE DEF vars, windowVars
<1>1. TypeOK'
  BY DEF IInv, TypeOK
<1>2. OpenWindow' /\ CursorSplitsStream' /\ SlicesBoundStream'
  BY DEF IInv, OpenWindow, CursorSplitsStream, SlicesBoundStream, Horizon,
         Pending, Ordered
<1>3. PayloadOfWindow'
  BY DEF IInv, PayloadOfWindow
<1>4. PublishedSettled'
  BY DEF IInv, PublishedSettled, Settled
<1>5. (OnGrid /\ SlicesReachNextWindow /\ RawWindowsContiguous)'
  BY DEF IInv, OnGrid, SlicesReachNextWindow, RawWindowsContiguous
<1> QED
  BY <1>1, <1>2, <1>3, <1>4, <1>5 DEF IInv

----------------------------------------------------------------------------
(* The theorems.                                                              *)

\* The inductive invariant holds in every reachable state: its conjuncts
\* describe the module between any two iterations of its loops.
THEOREM Invariance == Spec => []IInv
<1>1. Init => IInv
  BY InitIInv
<1>2. IInv /\ [Next]_vars => IInv'
  <2> SUFFICES ASSUME IInv, [Next]_vars
               PROVE  IInv'
    OBVIOUS
  <2>1. CASE DeliverBatch
    BY <2>1, DeliverBatchStep
  <2>2. CASE DeliverSlice
    BY <2>2, DeliverSliceStep
  <2>3. CASE CloseStaleWindow
    BY <2>3, CloseStaleWindowCloses, ClosingStep
  <2>4. CASE FinishBatch
    BY <2>4, FinishBatchStep
  <2>5. CASE FillWindow
    BY <2>5, FillWindowCloses, ClosingStep
  <2>6. CASE PublishWindowUntil
    BY <2>6, PublishWindowUntilCloses, ClosingStep
  <2>7. CASE Restart
    BY <2>7, RestartStep
  <2>8. CASE UNCHANGED vars
    BY <2>8, StutterStep
  <2> QED
    BY <2>1, <2>2, <2>3, <2>4, <2>5, <2>6, <2>7, <2>8 DEF Next
<1> QED
  BY <1>1, <1>2, PTL DEF Spec

\* The module's variables are well typed: in particular the cursor never runs
\* past the batch and the cutoffs stay natural numbers (Timestamp is unsigned).
THEOREM TypeCorrect == Spec => []TypeOK
<1>1. IInv => TypeOK
  BY DEF IInv
<1> QED
  BY <1>1, Invariance, PTL

\* Published windows last one timespan each, do not overlap and never go back,
\* whatever processEvents and publishUntil are given.
THEOREM WindowsInOrderAlways == Spec => []WindowsInOrder
<1>1. IInv => WindowsInOrder
  BY DEF IInv, PublishedSettled, Settled, WindowsInOrder
<1> QED
  BY <1>1, Invariance, PTL

\* No processed event is lost or published twice.
THEOREM EachEventOnceAlways == Spec => []EachEventOnce
<1>1. IInv => EachEventOnce
  <2> SUFFICES ASSUME IInv
               PROVE  EachEventOnce
    OBVIOUS
  <2>1. buffer \subseteq 1..(current - 1)
    <3>1. TypeOK /\ PayloadOfWindow
      BY DEF IInv
    <3>2. ASSUME NEW k \in buffer
          PROVE  k \in 1..(current - 1)
      <4>1. k \in 1..Len(stream) /\ k < current
        BY <3>1 DEF TypeOK, PayloadOfWindow
      <4> QED
        BY <3>1, <4>1, Types
    <3> QED
      BY <3>2
  <2> QED
    BY <2>1 DEF IInv, PublishedSettled, Settled, EachEventOnce
<1> QED
  BY <1>1, Invariance, PTL

\* The replay window written in a message is true of its payload.
THEOREM ReplayWindowFaithfulAlways == Spec => []ReplayWindowFaithful
<1>1. IInv => ReplayWindowFaithful
  BY DEF IInv, PublishedSettled, Settled, ReplayWindowFaithful
<1> QED
  BY <1>1, Invariance, PTL

\* Images show the kept fraction of their window, no more and no less.
THEOREM KeepFractionAlways == Spec => []KeepFractionHonoured
<1>1. IInv => KeepFractionHonoured
  BY DEF IInv, PublishedSettled, Settled, KeepFractionHonoured
<1> QED
  BY <1>1, Invariance, PTL

\* Slices no longer than the timespan leave no gap between windows: what
\* publishUntil closes and what processEvents closes follow one another.
THEOREM RawWindowsContiguousAlways == Spec => []RawWindowsContiguous
<1>1. IInv => RawWindowsContiguous
  BY DEF IInv
<1> QED
  BY <1>1, Invariance, PTL

----------------------------------------------------------------------------
(* EventWindow implements WindowStream: every step of the windowed module is  *)
(* a step of the abstract stream, or changes nothing of it.                   *)

\* The abstract windows are the published ones without their images.
Payloads(p) == [i \in 1..Len(p) |-> Payload(p[i])]
Windows == Payloads(published)

PayloadType == [start : Nat, end : Nat, events : SUBSET Nat]

LEMMA PayloadsProperties ==
    ASSUME NEW p \in Seq(Window)
    PROVE  /\ Payloads(p) \in Seq(PayloadType)
           /\ Len(Payloads(p)) = Len(p)
           /\ \A i \in 1..Len(p) : Payloads(p)[i] = Payload(p[i])
<1>1. Len(p) \in Nat
  BY LenProperties
<1>2. \A i \in 1..Len(p) : Payload(p[i]) \in PayloadType
  <2> TAKE i \in 1..Len(p)
  <2>1. p[i] \in Window
    BY ElementOfSeq
  <2> QED
    BY <2>1 DEF Payload, PayloadType, Window
<1>3. Payloads(p) \in [1..Len(p) -> PayloadType]
  BY <1>2 DEF Payloads
<1>4. Payloads(p) \in Seq(PayloadType)
  BY <1>1, <1>3, SeqDef
<1>5. DOMAIN Payloads(p) = 1..Len(p)
  BY <1>3
<1>6. Len(Payloads(p)) = Len(p)
  BY <1>1, <1>4, <1>5, LenProperties
<1> QED
  BY <1>4, <1>6 DEF Payloads

\* Publishing a window publishes its payload.
LEMMA PayloadsAppend ==
    ASSUME NEW p \in Seq(Window), NEW w \in Window
    PROVE  Payloads(Append(p, w)) = Append(Payloads(p), Payload(w))
<1> DEFINE q == Append(p, w)
<1>1. /\ q \in Seq(Window) /\ Len(q) = Len(p) + 1 /\ Len(p) \in Nat
      /\ \A i \in 1..Len(p) : q[i] = p[i]
      /\ q[Len(p) + 1] = w
  BY AppendProperties, LenProperties
<1>2. Payload(w) \in PayloadType
  BY DEF Payload, PayloadType, Window
<1> DEFINE s == Payloads(p)
           t == Append(s, Payload(w))
<1>3. s \in Seq(PayloadType) /\ Len(s) = Len(p)
      /\ \A i \in 1..Len(p) : s[i] = Payload(p[i])
  BY PayloadsProperties
<1> HIDE DEF s, q
<1>4. /\ t \in Seq(PayloadType) /\ Len(t) = Len(p) + 1
      /\ \A i \in 1..Len(p) : t[i] = Payload(p[i])
      /\ t[Len(p) + 1] = Payload(w)
  BY <1>1, <1>2, <1>3, AppendProperties
<1>5. /\ Payloads(q) \in Seq(PayloadType) /\ Len(Payloads(q)) = Len(p) + 1
      /\ \A i \in 1..(Len(p) + 1) : Payloads(q)[i] = Payload(q[i])
  BY <1>1, PayloadsProperties
<1> HIDE DEF t
<1>6. \A i \in 1..(Len(p) + 1) : Payloads(q)[i] = t[i]
  <2> TAKE i \in 1..(Len(p) + 1)
  <2>1. i \in 1..Len(p) \/ i = Len(p) + 1
    BY <1>1
  <2> QED
    BY <2>1, <1>1, <1>4, <1>5
<1>7. Payloads(q) = t
  BY <1>4, <1>5, <1>6, SeqEqual
<1> QED
  BY <1>7 DEF q, s, t

\* No published window ends after the start of the open one.
LEMMA FrontierBehindOpenWindow ==
    ASSUME IInv
    PROVE  WS!Frontier \in Nat /\ WS!Frontier <= window_start_timestamp
<1>1. TypeOK /\ PublishedSettled /\ OnGrid
  BY DEF IInv
<1>2. CASE published = <<>>
  <2>1. Windows = <<>>
    BY <1>2 DEF Windows, Payloads
  <2> QED
    BY <1>1, <2>1, Types DEF WS!Frontier, Windows, Payloads, OnGrid
<1>3. CASE published # <<>>
  <2> DEFINE n == Len(published)
  <2>1. n \in Nat /\ n \in 1..n
    BY <1>1, <1>3, Types, EmptySeq DEF TypeOK
  <2>2. Len(Windows) = n /\ Windows # <<>> /\ Windows[n].end = published[n].end
    <3>1. Len(Windows) = n /\ Windows[n] = Payload(published[n])
          /\ Windows \in Seq(PayloadType)
      BY <1>1, <2>1, PayloadsProperties DEF Windows, TypeOK
    <3> QED
      BY <2>1, <3>1, EmptySeq DEF Payload
  <2>3. published[n].end \in Nat /\ published[n].end <= window_start_timestamp
    BY <1>1, <2>1, Types DEF PublishedSettled, Settled
  <2> QED
    BY <2>2, <2>3 DEF WS!Frontier, Windows, Payloads
<1> QED
  BY <1>2, <1>3

----------------------------------------------------------------------------
(* The simulation, one lemma per kind of step.                                *)

LEMMA InitRefines == Init => WS!StreamInit
<1> SUFFICES ASSUME Init
             PROVE  WS!StreamInit
  OBVIOUS
<1>1. origin \in Nat /\ stream = <<>> /\ current = 1 /\ buffer = {}
      /\ published = <<>>
  BY OriginsAssumption DEF Init, SessionOrigins
<1> QED
  BY <1>1 DEF WS!StreamInit, WS!Fresh

\* A batch or a slice arrives: nothing older than a published end.
LEMMA DeliveryRefines ==
    ASSUME IInv, NEW b \in Seq(Nat), \A i \in 1..Len(b) : b[i] >= Horizon,
           stream' = stream \o b,
           UNCHANGED <<current, origin, buffer, published>>
    PROVE  WS!Arrive
<1>1. TypeOK /\ OpenWindow
  BY DEF IInv
<1>2. Len(stream) \in Nat /\ Len(b) \in Nat /\ window_start_timestamp \in Nat
      /\ Horizon \in Nat /\ window_start_timestamp <= Horizon
  BY <1>1, Types, LatestProperties, LenProperties
     DEF Horizon, TypeOK, OpenWindow
<1>3. /\ Len(stream') = Len(stream) + Len(b)
      /\ \A i \in 1..(Len(stream) + Len(b)) :
           stream'[i] = IF i <= Len(stream) THEN stream[i]
                                            ELSE b[i - Len(stream)]
  BY <1>1, ConcatProperties DEF TypeOK
<1>4. WS!Frontier \in Nat /\ WS!Frontier <= window_start_timestamp
  BY FrontierBehindOpenWindow
<1>5. \A k \in 1..Len(stream) : stream'[k] = stream[k]
  BY <1>2, <1>3
<1>6. ASSUME NEW k \in (Len(stream) + 1)..Len(stream')
      PROVE  stream'[k] >= WS!Frontier
  <2>1. k \in 1..(Len(stream) + Len(b)) /\ ~(k <= Len(stream))
        /\ k - Len(stream) \in 1..Len(b)
    BY <1>2, <1>3
  <2>2. stream'[k] = b[k - Len(stream)] /\ b[k - Len(stream)] \in Nat
    BY <2>1, <1>3, ElementOfSeq
  <2>3. stream'[k] \in Nat /\ stream'[k] >= Horizon
    BY <2>1, <2>2
  <2> QED
    BY <1>2, <1>4, <2>3
<1> QED
  BY <1>2, <1>3, <1>5, <1>6 DEF WS!Arrive

LEMMA FinishBatchRefines ==
    ASSUME IInv, FinishBatch
    PROVE  WS!Take
<1>1. Len(stream) \in Nat /\ current \in Nat /\ current \in 1..(Len(stream) + 1)
  BY Types DEF IInv
<1>2. /\ current' = Len(stream) + 1
      /\ buffer' = buffer \cup Pending
      /\ UNCHANGED <<stream, origin, published>>
  BY DEF FinishBatch
<1>3. /\ current' - 1 \in (current - 1)..Len(stream)
      /\ Pending = ((current - 1) + 1)..(current' - 1)
  BY <1>1, <1>2 DEF Pending
<1> QED
  BY <1>2, <1>3 DEF WS!Take

\* The cursor is one past what has been taken.
LEMMA CursorBefore ==
    ASSUME NEW c \in Nat, NEW d \in Nat, NEW l \in Nat,
           1 <= c, c <= d, d <= l + 1
    PROVE  /\ d - 1 \in (c - 1)..l
           /\ c..(d - 1) = ((c - 1) + 1)..(d - 1)
           /\ ((d - 1) + 1)..l = d..l
<1>1. (c - 1) + 1 = c /\ (d - 1) + 1 = d
  OBVIOUS
<1>2. d - 1 \in (c - 1)..l
  OBVIOUS
<1> QED
  BY <1>1, <1>2

\* Whichever branch closes a window, it is the next one of the abstract stream.
LEMMA ClosingRefines ==
    ASSUME IInv, NEW w, NEW s, Closing(w, s)
    PROVE  WS!Close
<1>1. TypeOK /\ OpenWindow /\ OnGrid
  BY DEF IInv
<1>2. /\ w \in Window /\ published' = Append(published, w)
      /\ w.start = window_start_timestamp /\ w.end = timestamp_cutoff
      /\ w.events = buffer \cup (current..(current' - 1))
      /\ stream' = stream /\ origin' = origin /\ buffer' = {}
      /\ current' \in current..(Len(stream) + 1)
      /\ \A k \in current'..Len(stream) : stream[k] > timestamp_cutoff
  BY DEF Closing, ClosesWindow
<1> DEFINE n == Len(published)
<1>3. /\ n \in Nat /\ Len(published') = n + 1
      /\ \A i \in 1..n : published'[i] = published[i]
      /\ published'[n + 1] = w
      /\ published' \in Seq(Window)
  BY <1>1, <1>2, PublishAppends DEF TypeOK
<1>t. /\ Len(stream) \in Nat /\ current \in Nat /\ current >= 1
      /\ timestamp_cutoff \in Nat /\ window_start_timestamp \in Nat
      /\ origin \in Nat
      /\ \A k \in 1..Len(stream) : stream[k] \in Nat
  BY <1>1, Types
<1>4. /\ Len(Windows) = n /\ Len(Windows') = n + 1
      /\ Windows'[n + 1] = Payload(w)
      /\ Windows' = Append(Windows, Payload(w))
  <2>1. Windows \in Seq(PayloadType) /\ Len(Windows) = n
    BY <1>1, PayloadsProperties DEF Windows, TypeOK
  <2>2. Windows' = Append(Windows, Payload(w))
    BY <1>1, <1>2, PayloadsAppend DEF Windows, Payloads, TypeOK
  <2>3. Payload(w) \in PayloadType
    BY <1>2 DEF Payload, PayloadType, Window
  <2> QED
    BY <1>3, <2>1, <2>2, <2>3, AppendProperties
<1>5. /\ current' - 1 \in (current - 1)..Len(stream)
      /\ current..(current' - 1) = ((current - 1) + 1)..(current' - 1)
      /\ ((current' - 1) + 1)..Len(stream) = current'..Len(stream)
  <2>1. current' \in Nat /\ current' >= current /\ current' <= Len(stream) + 1
    BY <1>2, <1>t
  <2>2. Len(stream) \in Nat /\ current \in Nat /\ 1 <= current
    BY <1>t
  <2> QED
    BY ONLY <2>1, <2>2, CursorBefore
<1>6. WS!Frontier <= Payload(w).start
  BY <1>2, FrontierBehindOpenWindow DEF Payload
<1>7. (Payload(w).start - origin) % Timespan = 0
  <2>1. (Timespan * (-1)) % Timespan = 0 /\ Timespan * (-1) \in Int
    BY TimespanAssumption, MultipleMod
  <2>2. timestamp_cutoff - origin \in Int /\ (timestamp_cutoff - origin) % Timespan = 0
    BY <1>1, <1>t DEF OnGrid
  <2>3. ((timestamp_cutoff - origin) + Timespan * (-1)) % Timespan = 0
    BY ONLY <2>1, <2>2, MultipleSum, TimespanAssumption
  <2>4. (timestamp_cutoff - origin) + Timespan * (-1) = Payload(w).start - origin
    BY <1>1, <1>2, <1>t, TimespanAssumption DEF OpenWindow, Payload
  <2> QED
    BY <2>3, <2>4
<1>8. Payload(w).end = Payload(w).start + Timespan
  BY <1>1, <1>2 DEF OpenWindow, Payload
<1>9. \A k \in Payload(w).events :
        stream[k] \in Payload(w).start..Payload(w).end
  <2>1. IInv'
    BY ClosingStep
  <2>2. \A i \in 1..Len(published') : \A k \in published'[i].events :
          stream'[k] \in published'[i].start..published'[i].end
    BY <2>1 DEF IInv, PublishedSettled, Settled
  <2>3. n + 1 \in 1..Len(published')
    BY <1>3
  <2>4. \A k \in w.events : stream[k] \in w.start..w.end
    BY <1>2, <1>3, <2>2, <2>3
  <2> QED
    BY <2>4 DEF Payload
<1>10. \A k \in current'..Len(stream) : stream[k] >= Payload(w).end
  <2> TAKE k \in current'..Len(stream)
  <2>1. k \in 1..Len(stream)
    BY <1>2, <1>t
  <2> QED
    BY <1>2, <1>t, <2>1 DEF Payload
<1>11. Payload(w).events = buffer \cup (((current - 1) + 1)..(current' - 1))
  BY <1>2, <1>5 DEF Payload
<1> QED
  BY <1>2, <1>4, <1>5, <1>6, <1>7, <1>8, <1>9, <1>10, <1>11
     DEF WS!Close, Windows, Payloads

LEMMA RestartRefines ==
    ASSUME Restart
    PROVE  WS!NewSession
<1>1. origin' \in Nat /\ stream' = <<>> /\ current' = 1 /\ buffer' = {}
      /\ published' = <<>>
  BY OriginsAssumption
     DEF Restart, OpenSession, Forget, ClearPayload, SessionOrigins
<1> QED
  BY <1>1 DEF WS!NewSession, WS!Fresh

----------------------------------------------------------------------------
\* The windowed module implements WindowStream, for every timespan, origin,
\* slice length and stream: the payloads subscribers get are the stream split
\* over the windows of the grid, each closed after its events have come.
THEOREM Implements == Spec => SplitsStream
<1>1. Init => WS!StreamInit
  BY InitRefines
<1>2. IInv /\ [Next]_vars => [WS!StreamNext]_(WS!streamVars)
  <2> SUFFICES ASSUME IInv, [Next]_vars
               PROVE  WS!StreamNext \/ UNCHANGED WS!streamVars
    BY DEF WS!StreamNext
  <2>t. TypeOK
    BY DEF IInv
  <2>1. CASE DeliverBatch
    <3>1. Horizon \in Nat /\ MaxTime \in Nat /\ MaxEvents - Len(stream) \in Int
      BY <2>t, Types, LatestProperties, BoundsAssumption DEF Horizon, TypeOK
    <3>2. PICK b \in Batches(Horizon, MaxTime, MaxEvents - Len(stream)) :
            stream' = stream \o b
      BY <2>1 DEF DeliverBatch
    <3>3. b \in Seq(Nat) /\ \A i \in 1..Len(b) : b[i] >= Horizon
      BY <3>1, BatchProperties
    <3> QED
      BY <2>1, <3>2, <3>3, DeliveryRefines DEF DeliverBatch, WS!StreamNext
  <2>2. CASE DeliverSlice
    <3>1. PICK t \in until..(until + Interval) :
            \E b \in Batches(until, t, MaxEvents - Len(stream)) :
              stream' = stream \o b
      BY <2>2 DEF DeliverSlice
    <3>2. PICK b \in Batches(until, t, MaxEvents - Len(stream)) :
            stream' = stream \o b
      BY <3>1
    <3>3. until \in Nat /\ t \in Nat /\ MaxEvents - Len(stream) \in Int
      BY <2>t, <3>1, Types, IntervalAssumption, BoundsAssumption
    <3>4. b \in Seq(Nat) /\ \A i \in 1..Len(b) : b[i] >= until
      BY <3>3, BatchProperties
    <3>5. Horizon = until
      BY <2>2, HorizonOfSlices DEF DeliverSlice
    <3> QED
      BY <2>2, <3>2, <3>4, <3>5, DeliveryRefines DEF DeliverSlice, WS!StreamNext
  <2>3. CASE CloseStaleWindow
    BY <2>3, CloseStaleWindowCloses, ClosingRefines DEF WS!StreamNext
  <2>4. CASE FinishBatch
    BY <2>4, FinishBatchRefines DEF WS!StreamNext
  <2>5. CASE FillWindow
    BY <2>5, FillWindowCloses, ClosingRefines DEF WS!StreamNext
  <2>6. CASE PublishWindowUntil
    BY <2>6, PublishWindowUntilCloses, ClosingRefines DEF WS!StreamNext
  <2>7. CASE Restart
    BY <2>7, RestartRefines DEF WS!StreamNext
  <2>8. CASE UNCHANGED vars
    BY <2>8 DEF vars, windowVars, WS!streamVars
  <2> QED
    BY <2>1, <2>2, <2>3, <2>4, <2>5, <2>6, <2>7, <2>8 DEF Next
<1> QED
  BY <1>1, <1>2, Invariance, PTL DEF Spec, SplitsStream, WS!StreamSpec

============================================================================
