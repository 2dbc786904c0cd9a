------------------------- MODULE EventBuffer_proofs -------------------------
(* Proofs about EventBuffer, for every rate, target, memory and fault.  What  *)
(* a batch does to the module is a fold, and what is said of it is said of a  *)
(* run: the states the module goes through, one for each event.               *)
EXTENDS EventBuffer, SequenceTheorems, FiniteSetTheorems, TLAPS

----------------------------------------------------------------------------
(* Induction on the natural numbers, for sets of them.                        *)

\* A set of natural numbers has a least one.
LEMMA LeastNumber ==
    ASSUME NEW T \in SUBSET Nat, T # {}
    PROVE  \E x \in T : \A y \in T : x <= y
<1>1. PICK x \in T : \A y \in T : ~(<<y, x>> \in OpToRel(<, Nat))
  BY NatLessThanWellFounded, WFMin
<1>2. \A y \in T : ~(y < x)
  BY <1>1 DEF OpToRel
<1> QED
  BY <1>2

\* A set that holds 0 and what follows any number below n in it holds 0..n.
LEMMA UpTo ==
    ASSUME NEW n \in Nat, NEW T, 0 \in T,
           \A i \in 0..(n - 1) : i \in T => i + 1 \in T
    PROVE  0..n \subseteq T
<1> DEFINE Missing == (0..n) \ T
<1>1. SUFFICES ASSUME Missing # {} PROVE FALSE
  OBVIOUS
<1>2. PICK x \in Missing : \A y \in Missing : x <= y
  <2>1. Missing \in SUBSET Nat
    OBVIOUS
  <2> HIDE DEF Missing
  <2> QED
    BY <1>1, <2>1, LeastNumber
<1>3. x # 0 /\ x - 1 \in 0..(n - 1) /\ x - 1 \notin Missing
  BY <1>2
<1>4. x - 1 \in T /\ (x - 1) + 1 = x
  BY <1>2, <1>3
<1> QED
  BY <1>2, <1>3, <1>4

----------------------------------------------------------------------------
(* Folds over a finite set, an element taken out at a time.                   *)

\* g is a fold of step over the subsets of S: ch chooses the element to take.
Folds(g, S, base, ch, step) ==
    \A s \in SUBSET S :
       g[s] = IF s = {} THEN base ELSE step[<<s, g[s \ {ch[s]}]>>]

\* A function that satisfies the equation of a fold exists.
LEMMA FoldExists ==
    ASSUME NEW S, IsFiniteSet(S), NEW M, NEW base \in M, NEW ch,
           \A s \in SUBSET S : s # {} => ch[s] \in s,
           NEW step \in [(SUBSET S) \X M -> M]
    PROVE  \E g \in [SUBSET S -> M] : Folds(g, S, base, ch, step)
<1> DEFINE Right(g, s) == IF s = {} THEN base ELSE step[<<s, g[s \ {ch[s]}]>>]
           Good(g, c) == \A s \in SUBSET S :
                           Cardinality(s) <= c => g[s] = Right(g, s)
           T == {c \in Nat : \E g \in [SUBSET S -> M] : Good(g, c)}
<1>1. \A s \in SUBSET S : /\ Cardinality(s) \in Nat
                          /\ Cardinality(s) = 0 <=> s = {}
                          /\ Cardinality(s) <= Cardinality(S)
  BY FS_Subset, FS_CardinalityType, FS_EmptySet
<1>2. \A s \in SUBSET S : s # {} =>
         /\ s \ {ch[s]} \in SUBSET S
         /\ Cardinality(s \ {ch[s]}) = Cardinality(s) - 1
  BY FS_Subset, FS_RemoveElement
<1>3. 0 \in T
  <2>1. [s \in SUBSET S |-> base] \in [SUBSET S -> M]
    OBVIOUS
  <2>2. Good([s \in SUBSET S |-> base], 0)
    BY <1>1
  <2> QED
    BY <2>1, <2>2
<1>4. \A c \in Nat : c \in T => c + 1 \in T
  <2> SUFFICES ASSUME NEW c \in Nat, c \in T PROVE c + 1 \in T
    OBVIOUS
  <2>1. PICK g \in [SUBSET S -> M] : Good(g, c)
    OBVIOUS
  <2> DEFINE f == [s \in SUBSET S |-> Right(g, s)]
  <2>2. \A s \in SUBSET S : Right(g, s) \in M
    BY <1>2
  <2>3. f \in [SUBSET S -> M]
    BY <2>2
  <2>4. ASSUME NEW s \in SUBSET S, Cardinality(s) <= c + 1
        PROVE  f[s] = Right(f, s)
    <3>1. CASE s = {}
      BY <3>1
    <3>2. CASE s # {}
      <4>1. Cardinality(s \ {ch[s]}) <= c /\ s \ {ch[s]} \in SUBSET S
        BY <1>1, <1>2, <2>4, <3>2
      <4>2. g[s \ {ch[s]}] = f[s \ {ch[s]}]
        BY <4>1, <2>1
      <4> QED
        BY <4>2, <3>2
    <3> QED
      BY <3>1, <3>2
  <2>5. Good(f, c + 1)
    BY <2>4
  <2> HIDE DEF f, Good
  <2> QED
    BY <2>3, <2>5
<1>5. Cardinality(S) \in T
  <2> HIDE DEF T
  <2> QED
    BY <1>1, <1>3, <1>4, UpTo
<1>6. PICK g \in [SUBSET S -> M] : Good(g, Cardinality(S))
  BY <1>5
<1>7. Folds(g, S, base, ch, step)
  BY <1>1, <1>6 DEF Folds
<1> QED
  BY <1>7

\* What is kept by each element taken holds of the whole.
LEMMA FoldKeeps ==
    ASSUME NEW S, IsFiniteSet(S), NEW P \in SUBSET (SUBSET S), {} \in P,
           \A s \in SUBSET S : s # {} => \E x \in s : s \ {x} \in P => s \in P
    PROVE  P = SUBSET S
<1> DEFINE T == {c \in Nat : \A s \in SUBSET S : Cardinality(s) <= c => s \in P}
<1>1. \A s \in SUBSET S : /\ Cardinality(s) \in Nat
                          /\ Cardinality(s) = 0 <=> s = {}
                          /\ Cardinality(s) <= Cardinality(S)
  BY FS_Subset, FS_CardinalityType, FS_EmptySet
<1>2. \A s \in SUBSET S : \A x \in s : Cardinality(s \ {x}) = Cardinality(s) - 1
  BY FS_Subset, FS_RemoveElement
<1>3. 0 \in T
  BY <1>1
<1>4. \A c \in Nat : c \in T => c + 1 \in T
  <2>1. SUFFICES ASSUME NEW c \in T, NEW s \in SUBSET S, Cardinality(s) <= c + 1
                 PROVE  s \in P
    OBVIOUS
  <2>2. CASE s = {}
    BY <2>2
  <2>3. CASE s # {}
    <3>1. PICK x \in s : s \ {x} \in P => s \in P
      BY <2>3
    <3>2. s \ {x} \in SUBSET S /\ Cardinality(s \ {x}) <= c
      BY <1>1, <1>2, <2>1
    <3> QED
      BY <3>1, <3>2
  <2> QED
    BY <2>2, <2>3
<1>5. Cardinality(S) \in T
  <2> HIDE DEF T
  <2> QED
    BY <1>1, <1>3, <1>4, UpTo
<1> QED
  BY <1>1, <1>5

----------------------------------------------------------------------------
(* Runs: the states a batch takes the module through.                         *)

Growth == {"ok", "skip", "stop"}

\* The state of the module that processEventRange reads and writes.
ModuleState == [clock : Nat, events : Seq(Nat), size : Nat \ {0},
                ok : BOOLEAN, lost : BOOLEAN]

IsRun(x, b, rate, growth) ==
    /\ x \in [0..Len(b) -> ModuleState]
    /\ \A i \in 1..Len(b) : x[i] = Written(x[i - 1], b[i], rate, growth)

LEMMA Division ==
    ASSUME NEW a \in Nat, NEW n \in Nat \ {0}
    PROVE  /\ a \div n \in Nat
           /\ n * (a \div n) <= a
           /\ a < n * (a \div n) + n
  OBVIOUS

\* The clock moves forward by whole rates.
LEMMA NextSampleFacts ==
    ASSUME NEW c \in Nat, NEW t \in Nat, t > c, NEW rate \in Nat \ {0}
    PROVE  \E k \in Nat : NextSample(c, t, rate) = c + k * rate
<1>1. t - c + rate - 1 \in Nat
  OBVIOUS
<1>2. (t - c + rate - 1) \div rate \in Nat
  BY <1>1, Division
<1> QED
  BY <1>2 DEF NextSample

LEMMA NextSampleType ==
    ASSUME NEW c \in Nat, NEW t \in Nat, t > c, NEW rate \in Nat \ {0}
    PROVE  NextSample(c, t, rate) \in Nat
<1>1. PICK k \in Nat : NextSample(c, t, rate) = c + k * rate
  BY NextSampleFacts
<1>2. k * rate \in Nat
  OBVIOUS
<1> QED
  BY <1>1, <1>2

\* The clock an event is judged by, and the three things an event may do: be
\* left out, move the clock past itself, or be due to be written.
Clock(m, e) == IF m.clock = 0 THEN e.t ELSE m.clock
LeftOut(m, e, rate) == ~e.inside \/ ~m.ok \/ (rate > 1 /\ e.t < Clock(m, e))
Ahead(m, e, rate) == e.inside /\ m.ok /\ rate > 1 /\ e.t > Clock(m, e)
Due(m, e, rate) == /\ e.inside /\ m.ok
                   /\ rate > 1 => e.t = Clock(m, e)

\* m with its clock moved, and an event written or given up at it.
Moved(m, w, e, rate) ==
    /\ w.clock = NextSample(Clock(m, e), e.t, rate)
    /\ w.events = m.events /\ w.size = m.size /\ w.ok = m.ok /\ w.lost = m.lost

Appended(m, w, e) ==
    /\ w.clock = Clock(m, e)
    /\ w.events = Append(m.events, e.t)
    /\ w.ok = m.ok /\ w.lost = m.lost
    /\ \/ ~Full(m) /\ w.size = m.size
       \/ Full(m) /\ w.size = m.size + 1

GivenUp(m, w, e) ==
    /\ w.clock = Clock(m, e)
    /\ w.events = m.events
    /\ \/ w.lost = TRUE /\ w.ok = m.ok /\ w.size = m.size
       \/ w.ok = FALSE /\ w.lost = m.lost

LEMMA ClockCases ==
    ASSUME NEW m \in ModuleState, NEW e \in Event, NEW rate \in Nat \ {0}
    PROVE  /\ Clock(m, e) \in Nat /\ e.t \in Nat
           /\ e.inside \in BOOLEAN /\ m.ok \in BOOLEAN
           /\ LeftOut(m, e, rate) \/ Ahead(m, e, rate) \/ Due(m, e, rate)
           /\ ~(LeftOut(m, e, rate) /\ Ahead(m, e, rate))
           /\ ~(LeftOut(m, e, rate) /\ Due(m, e, rate))
           /\ ~(Ahead(m, e, rate) /\ Due(m, e, rate))
<1>1. /\ Clock(m, e) \in Nat /\ e.t \in Nat
      /\ e.inside \in BOOLEAN /\ m.ok \in BOOLEAN
  BY DEF Clock, ModuleState, Event
<1> QED
  BY <1>1 DEF LeftOut, Ahead, Due

\* What an event does to the module.
LEMMA WrittenCases ==
    ASSUME NEW m \in ModuleState, NEW e \in Event, NEW rate \in Nat \ {0},
           NEW growth \in Growth
    PROVE  LET w == Written(m, e, rate, growth)
           IN /\ w \in ModuleState
              /\ LeftOut(m, e, rate) => w = m
              /\ Ahead(m, e, rate) => Moved(m, w, e, rate)
              /\ Due(m, e, rate) =>
                   Appended(m, w, e) \/ (growth # "ok" /\ GivenUp(m, w, e))
<1> DEFINE c == Clock(m, e)
           w == Written(m, e, rate, growth)
<1>1. /\ m.clock \in Nat /\ m.events \in Seq(Nat) /\ m.size \in Nat \ {0}
      /\ m.size + 1 \in Nat \ {0}
      /\ m.ok \in BOOLEAN /\ m.lost \in BOOLEAN
      /\ e.t \in Nat /\ c \in Nat
  BY ClockCases DEF ModuleState
<1>2. Append(m.events, e.t) \in Seq(Nat)
  BY <1>1, AppendProperties
<1>3. CASE LeftOut(m, e, rate)
  <2>1. w = m
    <3>1. ~(e.t > c) \/ ~e.inside \/ ~m.ok
      BY <1>1, <1>3 DEF LeftOut
    <3> QED
      BY <1>3, <3>1 DEF Written, LeftOut, Clock
  <2> QED
    BY <1>3, <2>1, ClockCases
<1>4. CASE Ahead(m, e, rate)
  <2> DEFINE n == NextSample(c, e.t, rate)
  <2>1. w = [m EXCEPT !.clock = n]
    BY <1>4 DEF Written, Ahead, Clock
  <2>2. n \in Nat
    BY <1>1, <1>4, NextSampleType DEF Ahead
  <2> HIDE DEF n
  <2>3. w \in ModuleState
    BY <2>1, <2>2 DEF ModuleState
  <2>4. /\ w.clock = n /\ w.events = m.events /\ w.size = m.size
        /\ w.ok = m.ok /\ w.lost = m.lost
    BY <2>1 DEF ModuleState
  <2> QED
    BY <1>4, <2>3, <2>4, ClockCases DEF Moved, n
<1>5. CASE Due(m, e, rate)
  <2> DEFINE v == Append(m.events, e.t)
             z == m.size + 1
  <2>1. /\ ~Full(m) => w = [m EXCEPT !.clock = c, !.events = v]
        /\ Full(m) /\ growth = "ok" =>
             w = [m EXCEPT !.clock = c, !.size = z, !.events = v]
        /\ Full(m) /\ growth = "skip" =>
             w = [m EXCEPT !.clock = c, !.lost = TRUE]
        /\ Full(m) /\ growth = "stop" =>
             w = [m EXCEPT !.clock = c, !.size = z, !.ok = FALSE]
    <3>1. ~(rate > 1 /\ e.t > c) /\ ~(rate > 1 /\ e.t < c) /\ e.inside /\ m.ok
      BY <1>1, <1>5 DEF Due
    <3>2. w = IF ~Full(m)
              THEN [m EXCEPT !.clock = c, !.events = v]
              ELSE CASE growth = "ok" -> [m EXCEPT !.clock = c,
                                                   !.size = z,
                                                   !.events = v]
                     [] growth = "skip" -> [m EXCEPT !.clock = c, !.lost = TRUE]
                     [] growth = "stop" -> [m EXCEPT !.clock = c,
                                                     !.size = z,
                                                     !.ok = FALSE]
      BY <3>1 DEF Written, Clock
    <3> QED
      BY <3>2
  <2> HIDE DEF c, v, z
  <2>2. CASE ~Full(m)
    <3>1. w = [m EXCEPT !.clock = c, !.events = v]
      BY <2>1, <2>2
    <3>2. w \in ModuleState
      BY <1>1, <1>2, <3>1 DEF ModuleState, v
    <3>3. /\ w.clock = c /\ w.events = v /\ w.size = m.size
          /\ w.ok = m.ok /\ w.lost = m.lost
      BY <3>1 DEF ModuleState
    <3> QED
      BY <1>5, <2>2, <3>2, <3>3, ClockCases DEF Appended, c, v
  <2>3. CASE Full(m) /\ growth = "ok"
    <3>1. w = [m EXCEPT !.clock = c, !.size = z, !.events = v]
      BY <2>1, <2>3
    <3>2. c \in Nat /\ z \in Nat \ {0} /\ v \in Seq(Nat)
      BY <1>1, <1>2 DEF v, z
    <3>3. w \in ModuleState
      BY <3>1, <3>2 DEF ModuleState
    <3>4. /\ w.clock = c /\ w.events = v /\ w.size = z
          /\ w.ok = m.ok /\ w.lost = m.lost
      BY <3>1 DEF ModuleState
    <3> QED
      BY <1>5, <2>3, <3>3, <3>4, ClockCases DEF Appended, c, v, z
  <2>4. CASE Full(m) /\ growth = "skip"
    <3>1. w = [m EXCEPT !.clock = c, !.lost = TRUE]
      BY <2>1, <2>4
    <3>2. w \in ModuleState
      BY <1>1, <3>1 DEF ModuleState
    <3>3. /\ w.clock = c /\ w.events = m.events /\ w.size = m.size
          /\ w.ok = m.ok /\ w.lost = TRUE
      BY <3>1 DEF ModuleState
    <3> QED
      BY <1>5, <2>4, <3>2, <3>3, ClockCases DEF GivenUp, c
  <2>5. CASE Full(m) /\ growth = "stop"
    <3>1. w = [m EXCEPT !.clock = c, !.size = z, !.ok = FALSE]
      BY <2>1, <2>5
    <3>2. c \in Nat /\ z \in Nat \ {0}
      BY <1>1 DEF z
    <3>3. w \in ModuleState
      BY <3>1, <3>2 DEF ModuleState
    <3>4. w.clock = c /\ w.events = m.events /\ w.ok = FALSE /\ w.lost = m.lost
      BY <3>1 DEF ModuleState
    <3> QED
      BY <1>5, <2>5, <3>3, <3>4, ClockCases DEF GivenUp, c
  <2> QED
    BY <2>2, <2>3, <2>4, <2>5 DEF Growth
<1> QED
  BY <1>3, <1>4, <1>5, ClockCases

LEMMA WrittenType ==
    ASSUME NEW m \in ModuleState, NEW e \in Event, NEW rate \in Nat \ {0},
           NEW growth \in Growth
    PROVE  Written(m, e, rate, growth) \in ModuleState
  BY WrittenCases

\* The fold over a batch is the end of a run.
LEMMA RunExists ==
    ASSUME NEW m \in ModuleState, NEW b \in Seq(Event), NEW rate \in Nat \ {0},
           NEW growth \in Growth
    PROVE  \E x : /\ IsRun(x, b, rate, growth)
                  /\ x[0] = m
                  /\ Processed(m, b, rate, growth) = x[Len(b)]
<1> DEFINE S == DOMAIN b
           iter[s \in SUBSET S] ==
             IF s = {} THEN m
             ELSE Written(iter[s \ {Max(s)}], b[Max(s)], rate, growth)
           ch == [s \in SUBSET S |-> Max(s)]
           step == [p \in (SUBSET S) \X ModuleState |->
                      IF p[1] = {} THEN m
                      ELSE Written(p[2], b[Max(p[1])], rate, growth)]
<1>1. Processed(m, b, rate, growth) = iter[S]
  BY DEF Processed, FoldLeft, MapThenFoldSet
<1>2. S = 1..Len(b) /\ Len(b) \in Nat /\ \A i \in S : b[i] \in Event
  BY LenProperties, ElementOfSeq
<1>3. IsFiniteSet(S)
  BY <1>2, FS_Interval
<1>4. \A s \in SUBSET S : s # {} => Max(s) \in s /\ \A y \in s : Max(s) >= y
  <2> SUFFICES ASSUME NEW s \in SUBSET S, s # {}
               PROVE  \E x \in s : \A y \in s : x >= y
    BY DEF Max
  <2> DEFINE T == {Len(b) - y : y \in s}
  <2>1. T \in SUBSET Nat /\ T # {}
    BY <1>2
  <2>2. PICK z \in T : \A y \in T : z <= y
    <3> HIDE DEF T
    <3> QED
      BY <2>1, LeastNumber
  <2>3. PICK x \in s : z = Len(b) - x
    BY <2>2
  <2>4. \A y \in s : Len(b) - x <= Len(b) - y
    BY <2>2, <2>3
  <2> QED
    BY <1>2, <2>4
<1>5. step \in [(SUBSET S) \X ModuleState -> ModuleState]
  <2>1. ASSUME NEW p \in (SUBSET S) \X ModuleState, p[1] # {}
        PROVE  Written(p[2], b[Max(p[1])], rate, growth) \in ModuleState
    <3>1. p[2] \in ModuleState /\ p[1] \in SUBSET S
      OBVIOUS
    <3>2. b[Max(p[1])] \in Event
      BY <1>2, <1>4, <2>1, <3>1
    <3> QED
      BY <3>1, <3>2, WrittenType
  <2> QED
    BY <2>1
<1>6. iter = [s \in SUBSET S |->
                IF s = {} THEN m
                ELSE Written(iter[s \ {Max(s)}], b[Max(s)], rate, growth)]
  <2>1. PICK g \in [SUBSET S -> ModuleState] : Folds(g, S, m, ch, step)
    <3>1. \A s \in SUBSET S : s # {} => ch[s] \in s
      BY <1>4
    <3> HIDE DEF ch, step, S, iter
    <3> QED
      BY <1>3, <1>5, <3>1, FoldExists
  <2>2. \A s \in SUBSET S :
          g[s] = IF s = {} THEN m
                 ELSE Written(g[s \ {Max(s)}], b[Max(s)], rate, growth)
    <3> SUFFICES ASSUME NEW s \in SUBSET S, s # {}
                 PROVE  g[s] = Written(g[s \ {Max(s)}], b[Max(s)], rate, growth)
      BY <2>1 DEF Folds
    <3>1. ch[s] = Max(s) /\ g[s \ {Max(s)}] \in ModuleState
      OBVIOUS
    <3>2. step[<<s, g[s \ {Max(s)}]>>]
            = Written(g[s \ {Max(s)}], b[Max(s)], rate, growth)
      BY <3>1
    <3> QED
      BY <2>1, <3>1, <3>2 DEF Folds
  <2>3. g = [s \in SUBSET S |->
               IF s = {} THEN m
               ELSE Written(g[s \ {Max(s)}], b[Max(s)], rate, growth)]
    BY <2>2
  <2> QED
    BY <2>3
<1> DEFINE x == [i \in 0..Len(b) |-> iter[1..i]]
<1> HIDE DEF iter
<1>7. \A i \in 0..Len(b) : 1..i \in SUBSET S
  BY <1>2
<1>8. x[0] = m
  <2>1. 0 \in 0..Len(b) /\ 1..0 = {} /\ {} \in SUBSET S
    BY <1>2
  <2>2. iter[{}] = m
    BY <1>6, <2>1
  <2> QED
    BY <2>1, <2>2
<1>9. \A i \in 1..Len(b) : x[i] = Written(x[i - 1], b[i], rate, growth)
  <2> SUFFICES ASSUME NEW i \in 1..Len(b)
               PROVE  x[i] = Written(x[i - 1], b[i], rate, growth)
    OBVIOUS
  <2>1. 1..i \in SUBSET S /\ 1..i # {} /\ i \in 1..i
    <3>1. i \in 1..i /\ i \in 0..Len(b)
      BY <1>2
    <3> QED
      BY <1>7, <3>1
  <2>2. Max(1..i) = i
    <3>1. Max(1..i) \in 1..i /\ Max(1..i) >= i
      BY <1>4, <2>1
    <3> QED
      BY <1>2, <3>1
  <2>3. (1..i) \ {i} = 1..(i - 1) /\ i - 1 \in 0..Len(b) /\ i \in 0..Len(b)
    BY <1>2
  <2>4. iter[1..i] = Written(iter[1..(i - 1)], b[i], rate, growth)
    BY <1>6, <2>1, <2>2, <2>3
  <2> QED
    BY <2>3, <2>4
<1>10. x[Len(b)] = iter[S]
  BY <1>2
<1>11. DOMAIN x = 0..Len(b) /\ x = [i \in 0..Len(b) |-> x[i]]
  OBVIOUS
<1> HIDE DEF x
<1>12. \A i \in 0..Len(b) : x[i] \in ModuleState
  <2> DEFINE T == {i \in 0..Len(b) : x[i] \in ModuleState}
  <2>1. 0 \in T
    BY <1>2, <1>8
  <2>2. \A i \in 0..(Len(b) - 1) : i \in T => i + 1 \in T
    <3> SUFFICES ASSUME NEW i \in 0..(Len(b) - 1), x[i] \in ModuleState
                 PROVE  x[i + 1] \in ModuleState
      BY <1>2
    <3>1. i + 1 \in 1..Len(b) /\ (i + 1) - 1 = i
      BY <1>2
    <3>2. b[i + 1] \in Event
      BY <1>2, <3>1
    <3>3. x[i + 1] = Written(x[i], b[i + 1], rate, growth)
      BY <1>9, <3>1
    <3> QED
      BY <3>2, <3>3, WrittenType
  <2> HIDE DEF T
  <2>3. 0..Len(b) \subseteq T
    BY <1>2, <2>1, <2>2, UpTo
  <2> QED
    BY <2>3 DEF T
<1>13. IsRun(x, b, rate, growth)
  BY <1>9, <1>11, <1>12 DEF IsRun
<1> QED
  BY <1>1, <1>8, <1>10, <1>13


\* A module that stops stays stopped, and an event lost stays lost.
LEMMA OutcomeSticks ==
    ASSUME NEW m \in ModuleState, NEW e \in Event, NEW rate \in Nat \ {0},
           NEW growth \in Growth, NEW w, w = Written(m, e, rate, growth)
    PROVE  /\ w.ok => m.ok
           /\ ~w.lost => ~m.lost
           /\ growth = "ok" => w.ok = m.ok /\ w.lost = m.lost
<1>1. m.ok \in BOOLEAN /\ m.lost \in BOOLEAN
  BY DEF ModuleState
<1>2. CASE LeftOut(m, e, rate)
  BY <1>2, WrittenCases
<1>3. CASE Ahead(m, e, rate)
  BY <1>3, WrittenCases DEF Moved
<1>4. CASE Due(m, e, rate)
  <2>1. Appended(m, w, e) \/ (growth # "ok" /\ GivenUp(m, w, e))
    BY <1>4, WrittenCases
  <2> QED
    BY <1>1, <2>1 DEF Appended, GivenUp, Due
<1> QED
  BY <1>2, <1>3, <1>4, ClockCases

\* Room: a module that runs has not written behind the end of its file.
HasRoom(m) == m.ok => Len(m.events) <= Capacity(m.size)

LEMMA RoomKept ==
    ASSUME NEW m \in ModuleState, NEW e \in Event, NEW rate \in Nat \ {0},
           NEW growth \in Growth, HasRoom(m)
    PROVE  HasRoom(Written(m, e, rate, growth))
<1> DEFINE w == Written(m, e, rate, growth)
<1>1. /\ m.events \in Seq(Nat) /\ Len(m.events) \in Nat /\ m.size \in Nat
      /\ e.t \in Nat /\ Chunk \in Nat /\ Chunk >= 1
      /\ m.ok \in BOOLEAN /\ m.lost \in BOOLEAN
  BY LenProperties, ChunkAssumption DEF ModuleState, Event
<1>2. CASE LeftOut(m, e, rate)
  BY <1>2, WrittenCases
<1>3. CASE Ahead(m, e, rate)
  BY <1>3, WrittenCases DEF Moved, HasRoom
<1>4. CASE Due(m, e, rate)
  <2>1. Appended(m, w, e) \/ GivenUp(m, w, e)
    BY <1>4, WrittenCases
  <2>2. Len(m.events) <= Capacity(m.size) /\ m.ok
    BY <1>4 DEF HasRoom, Due
  <2>3. CASE Appended(m, w, e)
    <3>1. Len(w.events) = Len(m.events) + 1
      BY <1>1, <2>3, AppendProperties DEF Appended
    <3>2. Chunk * (m.size + 1) = Chunk * m.size + Chunk /\ Chunk * m.size \in Nat
      BY <1>1
    <3>3. Len(m.events) + 1 <= Capacity(w.size)
      <4>1. CASE ~Full(m) /\ w.size = m.size
        BY <1>1, <3>2, <4>1 DEF Full, Capacity
      <4>2. CASE Full(m) /\ w.size = m.size + 1
        BY <1>1, <2>2, <3>2, <4>2 DEF Capacity
      <4> QED
        BY <2>3, <4>1, <4>2 DEF Appended
    <3> QED
      BY <3>1, <3>3 DEF HasRoom
  <2>4. CASE GivenUp(m, w, e)
    BY <2>2, <2>4 DEF GivenUp, HasRoom
  <2> QED
    BY <2>1, <2>3, <2>4
<1> QED
  BY <1>2, <1>3, <1>4, ClockCases

\* Two modules that agree on the clock and the payload.
Same(m, n) == m.clock = n.clock /\ m.events = n.events

\* A module that neither stops nor loses the event does what one with memory
\* enough does.
LEMMA SameStep ==
    ASSUME NEW m \in ModuleState, NEW n \in ModuleState, Same(m, n), n.ok,
           NEW e \in Event, NEW rate \in Nat \ {0}, NEW growth \in Growth,
           NEW w, w = Written(m, e, rate, growth), w.ok, ~w.lost
    PROVE  Same(w, Written(n, e, rate, "ok")) /\ Written(n, e, rate, "ok").ok
<1> DEFINE z == Written(n, e, rate, "ok")
<1>1. m.ok /\ ~m.lost
  BY OutcomeSticks
<1>2. "ok" \in Growth
  BY DEF Growth
<1>3. z.ok
  BY <1>2, OutcomeSticks
<1>4. Clock(m, e) = Clock(n, e)
  BY DEF Same, Clock
<1>5. /\ LeftOut(m, e, rate) <=> LeftOut(n, e, rate)
      /\ Ahead(m, e, rate) <=> Ahead(n, e, rate)
      /\ Due(m, e, rate) <=> Due(n, e, rate)
  BY <1>1, <1>4 DEF LeftOut, Ahead, Due
<1>6. CASE LeftOut(m, e, rate)
  <2>1. w = m /\ z = n
    BY <1>2, <1>5, <1>6, WrittenCases
  <2> QED
    BY <1>3, <2>1
<1>7. CASE Ahead(m, e, rate)
  <2>1. Moved(m, w, e, rate) /\ Moved(n, z, e, rate)
    BY <1>2, <1>5, <1>7, WrittenCases
  <2> QED
    BY <1>3, <1>4, <2>1 DEF Moved, Same
<1>8. CASE Due(m, e, rate)
  <2>1. /\ Appended(m, w, e) \/ GivenUp(m, w, e)
        /\ Appended(n, z, e)
    BY <1>2, <1>5, <1>8, WrittenCases
  <2>2. Appended(m, w, e)
    BY <1>1, <2>1 DEF GivenUp
  <2> QED
    BY <1>3, <1>4, <2>1, <2>2 DEF Appended, Same
<1> QED
  BY <1>6, <1>7, <1>8, ClockCases

----------------------------------------------------------------------------
(* What holds of every state of a run.                                        *)

LEMMA RunTypes ==
    ASSUME NEW b \in Seq(Event), NEW rate, NEW growth, NEW x,
           IsRun(x, b, rate, growth)
    PROVE  /\ Len(b) \in Nat
           /\ \A i \in 0..Len(b) : x[i] \in ModuleState
           /\ \A i \in 0..(Len(b) - 1) :
                /\ b[i + 1] \in Event
                /\ x[i + 1] = Written(x[i], b[i + 1], rate, growth)
<1>1. Len(b) \in Nat
  BY LenProperties
<1>2. \A i \in 0..(Len(b) - 1) : i + 1 \in 1..Len(b) /\ (i + 1) - 1 = i
  BY <1>1
<1>3. \A i \in 1..Len(b) : b[i] \in Event
  BY ElementOfSeq
<1> QED
  BY <1>1, <1>2, <1>3 DEF IsRun

\* A run that ends without a loss had none, and started so.
LEMMA RunWithoutLoss ==
    ASSUME NEW b \in Seq(Event), NEW rate \in Nat \ {0}, NEW growth \in Growth,
           NEW x, IsRun(x, b, rate, growth), x[Len(b)].ok, ~x[Len(b)].lost
    PROVE  \A i \in 0..Len(b) : x[i].ok /\ ~x[i].lost
<1> DEFINE l == Len(b)
           T == {i \in 0..l : x[l - i].ok /\ ~x[l - i].lost}
<1>1. l \in Nat
  BY RunTypes
<1>2. 0 \in T
  BY <1>1
<1>3. \A i \in 0..(l - 1) : i \in T => i + 1 \in T
  <2> SUFFICES ASSUME NEW i \in 0..(l - 1), i \in T PROVE i + 1 \in T
    OBVIOUS
  <2> DEFINE k == l - (i + 1)
  <2>1. k \in 0..(l - 1) /\ k \in 0..l /\ k + 1 = l - i /\ i + 1 \in 0..l
    BY <1>1
  <2>2. /\ x[k] \in ModuleState /\ b[k + 1] \in Event
        /\ x[k + 1] = Written(x[k], b[k + 1], rate, growth)
    BY <2>1, RunTypes
  <2>3. x[k + 1].ok /\ ~x[k + 1].lost
    BY <2>1
  <2> HIDE DEF k
  <2>4. x[k].ok /\ ~x[k].lost
    BY <2>2, <2>3, OutcomeSticks
  <2> QED
    BY <2>1, <2>4 DEF k
<1> HIDE DEF T
<1>4. 0..l \subseteq T
  BY <1>1, <1>2, <1>3, UpTo
<1>5. ASSUME NEW i \in 0..l PROVE x[i].ok /\ ~x[i].lost
  <2>1. l - i \in 0..l /\ l - (l - i) = i
    BY <1>1
  <2>2. l - i \in T
    BY <1>4, <2>1
  <2> QED
    BY <2>1, <2>2 DEF T
<1> QED
  BY <1>5

\* With memory enough nothing is lost.
LEMMA RunWithMemory ==
    ASSUME NEW b \in Seq(Event), NEW rate \in Nat \ {0},
           NEW x, IsRun(x, b, rate, "ok"), x[0].ok, ~x[0].lost
    PROVE  x[Len(b)].ok /\ ~x[Len(b)].lost
<1> DEFINE T == {i \in 0..Len(b) : x[i].ok /\ ~x[i].lost}
<1>1. 0 \in T /\ Len(b) \in Nat
  BY RunTypes
<1>2. \A i \in 0..(Len(b) - 1) : i \in T => i + 1 \in T
  <2> SUFFICES ASSUME NEW i \in 0..(Len(b) - 1), i \in T PROVE i + 1 \in T
    OBVIOUS
  <2>1. /\ x[i] \in ModuleState /\ b[i + 1] \in Event /\ i + 1 \in 0..Len(b)
        /\ x[i + 1] = Written(x[i], b[i + 1], rate, "ok")
    BY <1>1, RunTypes
  <2>2. x[i + 1].ok = x[i].ok /\ x[i + 1].lost = x[i].lost
    BY <2>1, OutcomeSticks DEF Growth
  <2> QED
    BY <2>1, <2>2
<1> HIDE DEF T
<1>3. 0..Len(b) \subseteq T
  BY <1>1, <1>2, UpTo
<1> QED
  BY <1>1, <1>3 DEF T

\* No state of a run has written behind the end of its file.
LEMMA RunHasRoom ==
    ASSUME NEW b \in Seq(Event), NEW rate \in Nat \ {0}, NEW growth \in Growth,
           NEW x, IsRun(x, b, rate, growth), HasRoom(x[0])
    PROVE  HasRoom(x[Len(b)])
<1> DEFINE T == {i \in 0..Len(b) : HasRoom(x[i])}
<1>1. 0 \in T /\ Len(b) \in Nat
  BY RunTypes
<1>2. \A i \in 0..(Len(b) - 1) : i \in T => i + 1 \in T
  <2> SUFFICES ASSUME NEW i \in 0..(Len(b) - 1), i \in T PROVE i + 1 \in T
    OBVIOUS
  <2>1. /\ x[i] \in ModuleState /\ b[i + 1] \in Event /\ i + 1 \in 0..Len(b)
        /\ x[i + 1] = Written(x[i], b[i + 1], rate, growth)
    BY <1>1, RunTypes
  <2> QED
    BY <2>1, RoomKept
<1> HIDE DEF T
<1>3. 0..Len(b) \subseteq T
  BY <1>1, <1>2, UpTo
<1> QED
  BY <1>1, <1>3 DEF T

\* A run over b that ends without a loss does what a run with memory enough does
\* over the same events inside a longer batch c.
LEMMA SameRun ==
    ASSUME NEW b \in Seq(Event), NEW c \in Seq(Event), NEW d \in Nat,
           d + Len(b) <= Len(c), \A i \in 1..Len(b) : c[d + i] = b[i],
           NEW rate \in Nat \ {0}, NEW growth \in Growth,
           NEW x, IsRun(x, b, rate, growth), x[Len(b)].ok, ~x[Len(b)].lost,
           NEW z, IsRun(z, c, rate, "ok"), z[d].ok, Same(x[0], z[d])
    PROVE  Same(x[Len(b)], z[d + Len(b)]) /\ z[d + Len(b)].ok
<1> DEFINE T == {i \in 0..Len(b) : Same(x[i], z[d + i]) /\ z[d + i].ok}
<1>1. Len(b) \in Nat /\ Len(c) \in Nat /\ d + 0 = d
  BY LenProperties
<1>2. 0 \in T
  BY <1>1
<1>3. \A i \in 0..(Len(b) - 1) : i \in T => i + 1 \in T
  <2> SUFFICES ASSUME NEW i \in 0..(Len(b) - 1), i \in T PROVE i + 1 \in T
    OBVIOUS
  <2> DEFINE k == d + i
  <2>1. /\ i + 1 \in 1..Len(b) /\ i + 1 \in 0..Len(b) /\ i \in 0..Len(b)
        /\ k \in 0..(Len(c) - 1) /\ k \in 0..Len(c) /\ d + (i + 1) = k + 1
    BY <1>1
  <2>2. /\ x[i] \in ModuleState /\ b[i + 1] \in Event
        /\ x[i + 1] = Written(x[i], b[i + 1], rate, growth)
    BY <2>1, RunTypes
  <2>3. /\ z[k] \in ModuleState /\ c[k + 1] \in Event
        /\ z[k + 1] = Written(z[k], c[k + 1], rate, "ok")
    BY <2>1, RunTypes
  <2>4. c[k + 1] = b[i + 1]
    BY <2>1
  <2>5. x[i + 1].ok /\ ~x[i + 1].lost
    BY <2>1, RunWithoutLoss
  <2>6. Same(x[i], z[k]) /\ z[k].ok
    OBVIOUS
  <2> HIDE DEF k
  <2>7. Same(x[i + 1], z[k + 1]) /\ z[k + 1].ok
    BY <2>2, <2>3, <2>4, <2>5, <2>6, SameStep
  <2> QED
    BY <2>1, <2>7 DEF k
<1> HIDE DEF T
<1>4. 0..Len(b) \subseteq T
  BY <1>1, <1>2, <1>3, UpTo
<1> QED
  BY <1>1, <1>4 DEF T

----------------------------------------------------------------------------
(* What a subscriber rebuilds.                                                *)

\* Where a subscriber starts from.
AtStart(b, start) == [clock |-> start, events |-> <<>>, size |-> Len(b) + 1,
                      ok |-> TRUE, lost |-> FALSE]

\* The module of a subscriber after the events of b.
Rebuilding(b, start, rate) == Processed(AtStart(b, start), b, rate, "ok")

LEMMA RebuiltIsRebuilding ==
    ASSUME NEW b, NEW start, NEW rate
    PROVE  Rebuilt(b, start, rate) = Rebuilding(b, start, rate).events
  BY DEF Rebuilt, Rebuilding, AtStart

LEMMA AtStartType ==
    ASSUME NEW b \in Seq(Event), NEW start \in Nat
    PROVE  AtStart(b, start) \in ModuleState /\ "ok" \in Growth
<1>1. Len(b) + 1 \in Nat \ {0}
  BY LenProperties
<1>2. <<>> \in Seq(Nat)
  BY EmptySeq
<1> QED
  BY <1>1, <1>2 DEF AtStart, ModuleState, Growth

\* The run of a subscriber.
RebuildingIs(z, b, start, rate) ==
    /\ IsRun(z, b, rate, "ok")
    /\ z[0] = AtStart(b, start)
    /\ z[Len(b)] = Rebuilding(b, start, rate)
    /\ z[Len(b)].ok /\ ~z[Len(b)].lost

LEMMA RebuildingRun ==
    ASSUME NEW b \in Seq(Event), NEW start \in Nat, NEW rate \in Nat \ {0}
    PROVE  \E z : RebuildingIs(z, b, start, rate)
<1>1. AtStart(b, start) \in ModuleState /\ "ok" \in Growth
  BY AtStartType
<1>2. PICK z : /\ IsRun(z, b, rate, "ok")
               /\ z[0] = AtStart(b, start)
               /\ Processed(AtStart(b, start), b, rate, "ok") = z[Len(b)]
  BY <1>1, RunExists
<1>3. z[0].ok /\ ~z[0].lost
  BY <1>2 DEF AtStart
<1>4. z[Len(b)].ok /\ ~z[Len(b)].lost
  BY <1>2, <1>3, RunWithMemory
<1> QED
  BY <1>2, <1>4 DEF Rebuilding, RebuildingIs

\* Of no events, nothing is rebuilt.
LEMMA RebuildingNothing ==
    ASSUME NEW start \in Nat, NEW rate \in Nat \ {0}
    PROVE  /\ Rebuilding(<<>>, start, rate).clock = start
           /\ Rebuilding(<<>>, start, rate).events = <<>>
<1> DEFINE none == <<>>
<1>1. none \in Seq(Event) /\ Len(none) = 0
  BY EmptySeq
<1> HIDE DEF none
<1>2. PICK z : RebuildingIs(z, none, start, rate)
  BY <1>1, RebuildingRun
<1>3. AtStart(none, start) = Rebuilding(none, start, rate)
  BY <1>1, <1>2 DEF RebuildingIs
<1>4. /\ Rebuilding(none, start, rate).clock = start
      /\ Rebuilding(none, start, rate).events = <<>>
  BY <1>3 DEF AtStart
<1> QED
  BY <1>4 DEF none

\* When a batch loses no event, a subscriber that has kept up with the module
\* keeps up over the batch, however the window came in batches.
LEMMA RebuildingExtends ==
    ASSUME NEW v \in Seq(Event), NEW b \in Seq(Event), NEW start \in Nat,
           NEW rate \in Nat \ {0}, NEW growth \in Growth,
           NEW m \in ModuleState, Same(m, Rebuilding(v, start, rate)),
           NEW w, w = Processed(m, b, rate, growth), w.ok, ~w.lost
    PROVE  Same(w, Rebuilding(v \o b, start, rate))
<1> DEFINE c == v \o b
<1>1. /\ Len(v) \in Nat /\ Len(b) \in Nat /\ c \in Seq(Event)
      /\ Len(c) = Len(v) + Len(b)
      /\ \A i \in 1..Len(v) : c[i] = v[i]
      /\ \A i \in 1..Len(b) : c[Len(v) + i] = b[i]
  <2>1. Len(v) \in Nat /\ Len(b) \in Nat
    BY LenProperties
  <2>2. /\ c \in Seq(Event)
        /\ Len(c) = Len(v) + Len(b)
        /\ \A i \in 1..(Len(v) + Len(b)) :
             c[i] = IF i <= Len(v) THEN v[i] ELSE b[i - Len(v)]
    BY ConcatProperties
  <2>3. ASSUME NEW i \in 1..Len(b) PROVE c[Len(v) + i] = b[i]
    <3>1. /\ Len(v) + i \in 1..(Len(v) + Len(b)) /\ ~(Len(v) + i <= Len(v))
          /\ (Len(v) + i) - Len(v) = i
      BY <2>1
    <3> QED
      BY <2>2, <3>1
  <2> QED
    BY <2>1, <2>2, <2>3
<1>2. PICK x : /\ IsRun(x, b, rate, growth)
               /\ x[0] = m
               /\ x[Len(b)] = w
  BY RunExists
<1>3. PICK y : RebuildingIs(y, v, start, rate)
  BY RebuildingRun
<1> HIDE DEF c
<1>4. PICK z : RebuildingIs(z, c, start, rate)
  BY <1>1, RebuildingRun
<1>5. Same(y[Len(v)], z[Len(v)]) /\ z[Len(v)].ok
  <2>1. z[0].ok /\ Same(y[0], z[0])
    BY <1>3, <1>4 DEF AtStart, Same, RebuildingIs
  <2>2. /\ 0 + Len(v) <= Len(c) /\ 0 + Len(v) = Len(v)
        /\ \A i \in 1..Len(v) : c[0 + i] = v[i]
    BY <1>1
  <2>3. "ok" \in Growth
    BY DEF Growth
  <2>4. Same(y[Len(v)], z[0 + Len(v)]) /\ z[0 + Len(v)].ok
    BY <1>1, <1>3, <1>4, <2>1, <2>2, <2>3, SameRun DEF RebuildingIs
  <2> QED
    BY <2>2, <2>4
<1>6. Same(x[0], z[Len(v)])
  BY <1>2, <1>3, <1>5 DEF Same, RebuildingIs
<1>7. Same(x[Len(b)], z[Len(v) + Len(b)])
  <2>1. x[Len(b)].ok /\ ~x[Len(b)].lost /\ Len(v) + Len(b) <= Len(c)
    BY <1>1, <1>2
  <2>2. IsRun(x, b, rate, growth) /\ IsRun(z, c, rate, "ok")
    BY <1>2, <1>4 DEF RebuildingIs
  <2> QED
    BY <1>1, <1>5, <1>6, <2>1, <2>2, SameRun
<1>8. Same(w, Rebuilding(c, start, rate))
  BY <1>1, <1>2, <1>4, <1>7 DEF RebuildingIs
<1> QED
  BY <1>8 DEF c

\* The clock is set once there is an event, and every event lies whole rates
\* before it.
OnGrid(m, rate) ==
    /\ m.events # <<>> => m.clock # 0
    /\ \A i \in 1..Len(m.events) : \E q \in Int :
         m.clock = m.events[i] + rate * q

LEMMA GridKept ==
    ASSUME NEW m \in ModuleState, NEW e \in Event, e.t # 0,
           NEW rate \in Nat \ {0}, NEW growth \in Growth, OnGrid(m, rate)
    PROVE  OnGrid(Written(m, e, rate, growth), rate)
<1> DEFINE w == Written(m, e, rate, growth)
           c == Clock(m, e)
<1>1. /\ m.events \in Seq(Nat) /\ Len(m.events) \in Nat
      /\ \A i \in 1..Len(m.events) : m.events[i] \in Nat
      /\ e.t \in Nat /\ m.clock \in Nat /\ c \in Nat
  BY LenProperties, ElementOfSeq, ClockCases DEF ModuleState, Event
<1>2. c # 0
  BY DEF Clock
<1>3. \A i \in 1..Len(m.events) : \E q \in Int : c = m.events[i] + rate * q
  <2>1. CASE m.events = <<>>
    <3>1. Len(m.events) = 0
      BY <2>1, EmptySeq
    <3> QED
      BY <3>1
  <2>2. CASE m.events # <<>>
    <3>1. c = m.clock
      BY <2>2 DEF OnGrid, Clock
    <3> QED
      BY <3>1 DEF OnGrid
  <2> QED
    BY <2>1, <2>2
<1> HIDE DEF c
<1>4. CASE LeftOut(m, e, rate)
  BY <1>4, WrittenCases
<1>5. CASE Ahead(m, e, rate)
  <2>1. w.clock = NextSample(c, e.t, rate) /\ w.events = m.events
    BY <1>5, WrittenCases DEF Moved, c
  <2>2. PICK k \in Nat : NextSample(c, e.t, rate) = c + k * rate
    BY <1>1, <1>5, NextSampleFacts DEF Ahead, c
  <2>3. k * rate \in Nat /\ k * rate = rate * k
    OBVIOUS
  <2>4. w.clock # 0
    BY <1>1, <1>2, <2>1, <2>2, <2>3
  <2>5. ASSUME NEW i \in 1..Len(w.events)
        PROVE  \E q \in Int : w.clock = w.events[i] + rate * q
    <3>1. PICK q \in Int : c = m.events[i] + rate * q
      BY <1>3, <2>1, <2>5
    <3> DEFINE a == rate * q
               d == rate * k
               p == rate * (q + k)
    <3>2. p = a + d /\ a \in Int /\ d \in Int /\ q + k \in Int
      OBVIOUS
    <3>3. w.events[i] = m.events[i] /\ m.events[i] \in Nat
      BY <1>1, <2>1, <2>5
    <3>4. w.clock = c + d /\ c = w.events[i] + a
      BY <2>1, <2>2, <2>3, <3>1, <3>3
    <3> HIDE DEF a, d, p
    <3>5. w.clock = w.events[i] + p
      BY ONLY <3>2, <3>3, <3>4
    <3> QED
      BY <3>2, <3>5 DEF p
  <2> QED
    BY <2>4, <2>5 DEF OnGrid
<1>6. CASE Due(m, e, rate)
  <2>1. Appended(m, w, e) \/ GivenUp(m, w, e)
    BY <1>6, WrittenCases
  <2>2. CASE Appended(m, w, e)
    <3>1. w.clock = c /\ w.events = Append(m.events, e.t)
      BY <2>2 DEF Appended, c
    <3>2. /\ Len(w.events) = Len(m.events) + 1
          /\ \A i \in 1..Len(m.events) : w.events[i] = m.events[i]
          /\ w.events[Len(m.events) + 1] = e.t
      BY <1>1, <3>1, AppendProperties
    <3>3. \E q \in Int : c = e.t + rate * q
      <4>1. CASE rate > 1
        <5>1. c = e.t + rate * 0
          BY <1>1, <1>6, <4>1 DEF Due, c
        <5> QED
          BY <5>1
      <4>2. CASE rate = 1
        <5>1. c = e.t + rate * (c - e.t) /\ c - e.t \in Int
          BY <1>1, <4>2
        <5> QED
          BY <5>1
      <4> QED
        BY <4>1, <4>2
    <3>4. ASSUME NEW i \in 1..Len(w.events)
          PROVE  \E q \in Int : w.clock = w.events[i] + rate * q
      <4>1. i \in 1..Len(m.events) \/ i = Len(m.events) + 1
        BY <1>1, <3>2
      <4>2. CASE i \in 1..Len(m.events)
        BY <1>3, <3>1, <3>2, <4>2
      <4>3. CASE i = Len(m.events) + 1
        BY <3>1, <3>2, <3>3, <4>3
      <4> QED
        BY <4>1, <4>2, <4>3
    <3> QED
      BY <1>2, <3>1, <3>4 DEF OnGrid
  <2>3. CASE GivenUp(m, w, e)
    <3>1. w.clock = c /\ w.events = m.events
      BY <2>3 DEF GivenUp, c
    <3> QED
      BY <1>2, <1>3, <3>1 DEF OnGrid
  <2> QED
    BY <2>1, <2>2, <2>3
<1> QED
  BY <1>4, <1>5, <1>6, ClockCases

\* What is rebuilt of events none of which is at 0 lies on the grid of the rate.
LEMMA RebuildingOnGrid ==
    ASSUME NEW b \in Seq(Event), \A i \in 1..Len(b) : b[i].t # 0,
           NEW start \in Nat, NEW rate \in Nat \ {0}
    PROVE  OnGrid(Rebuilding(b, start, rate), rate)
<1>1. PICK z : /\ IsRun(z, b, rate, "ok")
               /\ z[0] = AtStart(b, start)
               /\ z[Len(b)] = Rebuilding(b, start, rate)
  BY RebuildingRun DEF RebuildingIs
<1> DEFINE T == {i \in 0..Len(b) : OnGrid(z[i], rate)}
<1>2. OnGrid(z[0], rate)
  <2>1. z[0].events = <<>> /\ Len(z[0].events) = 0
    BY <1>1, EmptySeq DEF AtStart
  <2> QED
    BY <2>1 DEF OnGrid
<1>3. 0 \in T /\ Len(b) \in Nat
  BY <1>2, LenProperties
<1>4. \A i \in 0..(Len(b) - 1) : i \in T => i + 1 \in T
  <2> SUFFICES ASSUME NEW i \in 0..(Len(b) - 1), i \in T PROVE i + 1 \in T
    OBVIOUS
  <2>1. /\ z[i] \in ModuleState /\ b[i + 1] \in Event
        /\ i + 1 \in 0..Len(b) /\ i + 1 \in 1..Len(b)
        /\ z[i + 1] = Written(z[i], b[i + 1], rate, "ok")
    BY <1>1, <1>3, RunTypes
  <2> QED
    BY <2>1, GridKept DEF Growth
<1> HIDE DEF T
<1>5. 0..Len(b) \subseteq T
  BY <1>3, <1>4, UpTo
<1> QED
  BY <1>1, <1>3, <1>5 DEF T

----------------------------------------------------------------------------
(* Sums over finite sets.                                                     *)

\* it sums h over the subsets of S.
Sums(it, h, S) ==
    /\ it \in [SUBSET S -> Nat]
    /\ it[{}] = 0
    /\ \A s \in SUBSET S : s # {} =>
         \E x \in s : it[s] = h[x] + it[s \ {x}]

LEMMA SumExists ==
    ASSUME NEW S, IsFiniteSet(S), NEW h, \A i \in S : h[i] \in Nat
    PROVE  \E it : Sums(it, h, S) /\ SumFunctionOnSet(h, S) = it[S]
<1> DEFINE iter[s \in SUBSET S] ==
             IF s = {} THEN 0
             ELSE h[CHOOSE x \in s : TRUE] + (iter[s \ {CHOOSE x \in s : TRUE}])
           ch == [s \in SUBSET S |-> CHOOSE x \in s : TRUE]
           step == [p \in (SUBSET S) \X Nat |->
                      IF p[1] = {} THEN 0 ELSE h[ch[p[1]]] + p[2]]
<1>1. SumFunctionOnSet(h, S) = iter[S]
  BY DEF SumFunctionOnSet, FoldFunctionOnSet, MapThenFoldSet
<1>2. \A s \in SUBSET S : s # {} =>
         ch[s] \in s /\ ch[s] = CHOOSE x \in s : TRUE
  OBVIOUS
<1>3. step \in [(SUBSET S) \X Nat -> Nat]
  <2>1. ASSUME NEW p \in (SUBSET S) \X Nat, p[1] # {}
        PROVE  h[ch[p[1]]] + p[2] \in Nat
    <3>1. p[1] \in SUBSET S /\ p[2] \in Nat
      OBVIOUS
    <3>2. ch[p[1]] \in S
      BY <1>2, <2>1, <3>1
    <3> HIDE DEF ch
    <3> QED
      BY <3>1, <3>2
  <2> HIDE DEF ch
  <2> QED
    BY <2>1
<1>4. iter = [s \in SUBSET S |->
                IF s = {} THEN 0
                ELSE h[CHOOSE x \in s : TRUE]
                       + (iter[s \ {CHOOSE x \in s : TRUE}])]
  <2>1. PICK g \in [SUBSET S -> Nat] : Folds(g, S, 0, ch, step)
    <3>1. \A s \in SUBSET S : s # {} => ch[s] \in s
      BY <1>2
    <3> HIDE DEF ch, step, iter
    <3> QED
      BY <1>3, <3>1, FoldExists
  <2>2. \A s \in SUBSET S :
          g[s] = IF s = {} THEN 0
                 ELSE h[CHOOSE x \in s : TRUE]
                        + (g[s \ {CHOOSE x \in s : TRUE}])
    <3> SUFFICES ASSUME NEW s \in SUBSET S, s # {}
                 PROVE  g[s] = h[CHOOSE x \in s : TRUE]
                                 + (g[s \ {CHOOSE x \in s : TRUE}])
      BY <2>1 DEF Folds
    <3> DEFINE c == CHOOSE x \in s : TRUE
    <3>1. ch[s] = c /\ g[s \ {c}] \in Nat
      BY <1>2
    <3>2. step[<<s, g[s \ {c}]>>] = h[c] + g[s \ {c}]
      BY <3>1
    <3>3. g[s] = step[<<s, g[s \ {ch[s]}]>>]
      BY <2>1 DEF Folds
    <3> HIDE DEF c, step, ch
    <3>4. g[s] = h[c] + g[s \ {c}]
      BY <3>1, <3>2, <3>3
    <3> QED
      BY <3>4 DEF c
  <2>3. g = [s \in SUBSET S |->
               IF s = {} THEN 0
               ELSE h[CHOOSE x \in s : TRUE]
                      + (g[s \ {CHOOSE x \in s : TRUE}])]
    BY <2>2
  <2> QED
    BY <2>3
<1> HIDE DEF iter, step
<1>5. iter[{}] = 0
  BY <1>4
<1>6. \A s \in SUBSET S : s # {} => iter[s] = h[ch[s]] + (iter[s \ {ch[s]}])
  BY <1>2, <1>4
<1> HIDE DEF ch
<1>7. \A s \in SUBSET S : iter[s] \in Nat
  <2> DEFINE P == {s \in SUBSET S : iter[s] \in Nat}
  <2>1. {} \in P
    BY <1>5
  <2>2. ASSUME NEW s \in SUBSET S, s # {}
        PROVE  \E x \in s : s \ {x} \in P => s \in P
    <3>1. ch[s] \in s /\ ch[s] \in S
      BY <1>2, <2>2
    <3>2. s \ {ch[s]} \in P => iter[s] \in Nat
      <4>1. h[ch[s]] \in Nat
        BY <3>1
      <4>2. iter[s] = h[ch[s]] + (iter[s \ {ch[s]}])
        BY <1>6, <2>2
      <4>3. s \ {ch[s]} \in P => iter[s \ {ch[s]}] \in Nat
        OBVIOUS
      <4> HIDE DEF P
      <4> QED
        BY <4>1, <4>2, <4>3
    <3> QED
      BY <3>1, <3>2
  <2> HIDE DEF P
  <2>3. P = SUBSET S
    <3>1. P \in SUBSET (SUBSET S)
      BY DEF P
    <3> QED
      BY <2>1, <2>2, <3>1, FoldKeeps
  <2> QED
    BY <2>3 DEF P
<1>8. iter \in [SUBSET S -> Nat]
  <2>1. DOMAIN iter = SUBSET S /\ iter = [s \in DOMAIN iter |-> iter[s]]
    BY <1>4
  <2> QED
    BY <1>7, <2>1
<1>9. Sums(iter, h, S)
  BY <1>2, <1>5, <1>6, <1>8 DEF Sums
<1> QED
  BY <1>1, <1>9

LEMMA SumType ==
    ASSUME NEW S, IsFiniteSet(S), NEW h, \A i \in S : h[i] \in Nat
    PROVE  SumFunctionOnSet(h, S) \in Nat
<1>1. PICK it : Sums(it, h, S) /\ SumFunctionOnSet(h, S) = it[S]
  BY SumExists
<1> QED
  BY <1>1 DEF Sums

\* A sum is between as many times the least and the greatest of its terms.
LEMMA SumBounds ==
    ASSUME NEW S, IsFiniteSet(S), NEW h, NEW lo \in Nat, NEW hi \in Nat,
           \A i \in S : h[i] \in Nat /\ lo <= h[i] /\ h[i] <= hi
    PROVE  /\ Cardinality(S) * lo <= SumFunctionOnSet(h, S)
           /\ SumFunctionOnSet(h, S) <= Cardinality(S) * hi
<1>1. PICK it : Sums(it, h, S) /\ SumFunctionOnSet(h, S) = it[S]
  BY SumExists
<1> DEFINE P == {s \in SUBSET S : /\ Cardinality(s) * lo <= it[s]
                                  /\ it[s] <= Cardinality(s) * hi}
<1>2. {} \in P
  <2>1. Cardinality({}) = 0 /\ it[{}] = 0
    BY <1>1, FS_EmptySet DEF Sums
  <2>2. Cardinality({}) * lo = 0 /\ Cardinality({}) * hi = 0
    BY <2>1
  <2> QED
    BY <2>1, <2>2
<1>3. ASSUME NEW s \in SUBSET S, s # {}
      PROVE  \E x \in s : s \ {x} \in P => s \in P
  <2>1. PICK x \in s : it[s] = h[x] + it[s \ {x}]
    BY <1>1, <1>3 DEF Sums
  <2> SUFFICES ASSUME s \ {x} \in P PROVE s \in P
    OBVIOUS
  <2> DEFINE k == Cardinality(s \ {x})
  <2>2. k \in Nat /\ Cardinality(s) = k + 1
    <3>1. IsFiniteSet(s)
      BY FS_Subset
    <3>2. Cardinality(s) \in Nat /\ k \in Nat /\ k = Cardinality(s) - 1
      BY <3>1, FS_RemoveElement, FS_CardinalityType
    <3> QED
      BY <3>2
  <2>3. h[x] \in Nat /\ lo <= h[x] /\ h[x] <= hi
    OBVIOUS
  <2>4. it[s \ {x}] \in Nat /\ k * lo <= it[s \ {x}] /\ it[s \ {x}] <= k * hi
    BY <1>1 DEF Sums
  <2> HIDE DEF k
  <2>5. (k + 1) * lo = k * lo + lo /\ (k + 1) * hi = k * hi + hi
    BY <2>2
  <2>6. k * lo \in Nat /\ k * hi \in Nat
    BY <2>2
  <2>7. (k + 1) * lo <= it[s] /\ it[s] <= (k + 1) * hi
    BY <2>1, <2>3, <2>4, <2>5, <2>6
  <2> QED
    BY <2>2, <2>7
<1> HIDE DEF P
<1>4. P = SUBSET S
  <2>1. P \in SUBSET (SUBSET S)
    BY DEF P
  <2> QED
    BY <1>2, <1>3, <2>1, FoldKeeps
<1> QED
  BY <1>1, <1>4 DEF P

----------------------------------------------------------------------------
(* The inductive invariant.                                                   *)

MessageType ==
    message \in [start : Nat, rate : RateMin..MaxRate, events : Seq(Nat),
                 window : Seq(Event), disturbed : BOOLEAN]

\* Before the first batch of a window nothing is in it.
NothingBeforeCapture == ~captured => window = <<>> /\ events = <<>>

\* A subscriber that starts where the window was captured and processes what has
\* come since is where the module is.
SubscriberKeepsUp ==
    initialized /\ captured /\ ~disturbed =>
      /\ replay_rate = temporal_sample_rate
      /\ Rebuilding(window, replay_start, replay_rate).clock
           = accumulation_start
      /\ Rebuilding(window, replay_start, replay_rate).events = events

NoHistoryWithoutTarget == Target = 0 => event_count_history = <<>>

BufferInv ==
    /\ BufferTypeOK
    /\ MessageType
    /\ NothingBeforeCapture
    /\ SubscriberKeepsUp
    /\ HistoryOfLastWindows
    /\ NoHistoryWithoutTarget
    /\ PayloadReplayableUnlessAdjusted

----------------------------------------------------------------------------
(* What the actions start from.                                               *)

LEMMA TypeFacts ==
    ASSUME BufferTypeOK
    PROVE  /\ initialized \in BOOLEAN /\ captured \in BOOLEAN
           /\ disturbed \in BOOLEAN
           /\ accumulation_start \in Nat /\ replay_start \in Nat
           /\ latest \in Nat /\ interval_event_count \in Nat
           /\ temporal_sample_rate \in RateMin..MaxRate
           /\ replay_rate \in RateMin..MaxRate
           /\ events \in Seq(Nat) /\ window \in Seq(Event)
           /\ reserved_data_multiplier \in Nat \ {0}
           /\ event_count_history \in Seq(Nat) /\ counts \in Seq(Nat)
  BY DEF BufferTypeOK

LEMMA RateFacts ==
    /\ RateMin \in RateMin..MaxRate
    /\ \A r \in RateMin..MaxRate : r \in Nat \ {0}
  BY RatesAssumption

LEMMA CapacityType ==
    ASSUME NEW n \in Nat
    PROVE  0 <= Capacity(n)
  BY ChunkAssumption DEF Capacity

\* A batch is a sequence of events, and not an empty one.
LEMMA BatchFacts ==
    ASSUME BufferTypeOK, NEW batch \in Batches(latest, MaxEvents - Handed)
    PROVE  /\ batch \in Seq(Event)
           /\ Len(batch) \in Nat \ {0}
           /\ batch[Len(batch)].t \in Nat
<1>1. Handed \in Nat
  <2>1. /\ DOMAIN counts = 1..Len(counts) /\ Len(counts) \in Nat
        /\ \A i \in 1..Len(counts) : counts[i] \in Nat
    BY TypeFacts, LenProperties, ElementOfSeq
  <2>2. SumFunction(counts) \in Nat
    <3>1. IsFiniteSet(DOMAIN counts) /\ \A i \in DOMAIN counts : counts[i] \in Nat
      BY <2>1, FS_Interval
    <3>2. SumFunctionOnSet(counts, DOMAIN counts) \in Nat
      BY <3>1, SumType
    <3> QED
      BY <3>2 DEF SumFunction
  <2>3. Len(window) \in Nat
    BY TypeFacts, LenProperties
  <2> QED
    BY <2>2, <2>3 DEF Handed
<1>2. PICK k \in 1..(MaxEvents - Handed) :
         batch \in [1..k -> [t : latest..MaxTime, inside : BOOLEAN]]
  BY DEF Batches
<1>3. k \in Nat \ {0} /\ MaxTime \in Nat /\ latest \in Nat
  BY <1>1, TypeFacts, BoundsAssumption
<1>4. \A e \in [t : latest..MaxTime, inside : BOOLEAN] : e \in Event
  BY <1>3 DEF Event
<1>5. batch \in [1..k -> Event]
  BY <1>2, <1>4
<1>6. batch \in Seq(Event)
  BY <1>3, <1>5, SeqDef
<1>7. Len(batch) = k
  BY <1>3, <1>5, <1>6, LenProperties
<1>8. batch[k] \in Event
  BY <1>3, <1>5
<1> QED
  BY <1>3, <1>6, <1>7, <1>8 DEF Event

\* The module as processEventRange finds it.
Module == [clock |-> accumulation_start, events |-> events,
           size |-> reserved_data_multiplier, ok |-> initialized,
           lost |-> FALSE]

LEMMA ModuleFacts ==
    ASSUME BufferTypeOK
    PROVE  Module \in ModuleState /\ HasRoom(Module)
<1>1. Module \in ModuleState
  BY TypeFacts DEF Module, ModuleState
<1>2. initialized => Len(events) <= Capacity(reserved_data_multiplier)
  BY DEF BufferTypeOK
<1> QED
  BY <1>1, <1>2 DEF Module, HasRoom

\* What processEventRange makes of the module.
LEMMA ProcessedFacts ==
    ASSUME BufferTypeOK, NEW b \in Seq(Event), NEW growth \in Growth,
           NEW m, m = Processed(Module, b, temporal_sample_rate, growth)
    PROVE  /\ m \in ModuleState
           /\ HasRoom(m)
           /\ m.ok => initialized
<1>1. temporal_sample_rate \in Nat \ {0}
  BY TypeFacts, RateFacts
<1>2. PICK x : /\ IsRun(x, b, temporal_sample_rate, growth)
               /\ x[0] = Module
               /\ m = x[Len(b)]
  BY <1>1, ModuleFacts, RunExists
<1>3. m \in ModuleState
  BY <1>2, RunTypes
<1>4. HasRoom(m)
  BY <1>1, <1>2, ModuleFacts, RunHasRoom
<1>5. m.ok => initialized
  <2> DEFINE T == {i \in 0..Len(b) : x[i].ok => initialized}
  <2>1. 0 \in T /\ Len(b) \in Nat
    BY <1>2, RunTypes DEF Module
  <2>2. \A i \in 0..(Len(b) - 1) : i \in T => i + 1 \in T
    <3> SUFFICES ASSUME NEW i \in 0..(Len(b) - 1), i \in T PROVE i + 1 \in T
      OBVIOUS
    <3>1. /\ x[i] \in ModuleState /\ b[i + 1] \in Event /\ i + 1 \in 0..Len(b)
          /\ x[i + 1] = Written(x[i], b[i + 1], temporal_sample_rate, growth)
      BY <1>2, <2>1, RunTypes
    <3>2. x[i + 1].ok => x[i].ok
      BY <1>1, <3>1, OutcomeSticks
    <3> QED
      BY <3>1, <3>2
  <2> HIDE DEF T
  <2>3. 0..Len(b) \subseteq T
    BY <2>1, <2>2, UpTo
  <2> QED
    BY <1>2, <2>1, <2>3 DEF T
<1> QED
  BY <1>3, <1>4, <1>5

\* A sequence with an entry put before it.
LEMMA Pushed ==
    ASSUME NEW S, NEW q \in Seq(S), NEW a \in S
    PROVE  /\ <<a>> \o q \in Seq(S)
           /\ Len(<<a>> \o q) = Len(q) + 1
           /\ (<<a>> \o q)[1] = a
           /\ \A i \in 2..(Len(q) + 1) : (<<a>> \o q)[i] = q[i - 1]
<1>1. <<a>> \in Seq(S) /\ Len(<<a>>) = 1 /\ <<a>>[1] = a
  OBVIOUS
<1> DEFINE s == <<a>>
<1> HIDE DEF s
<1>2. s \in Seq(S) /\ Len(s) = 1 /\ s[1] = a
  BY <1>1 DEF s
<1>3. /\ s \o q \in Seq(S)
      /\ Len(s \o q) = Len(s) + Len(q)
      /\ \A i \in 1..(Len(s) + Len(q)) :
           (s \o q)[i] = IF i <= Len(s) THEN s[i] ELSE q[i - Len(s)]
  BY <1>2, ConcatProperties
<1>4. Len(q) \in Nat
  BY LenProperties
<1>5. /\ s \o q \in Seq(S)
      /\ Len(s \o q) = Len(q) + 1
      /\ (s \o q)[1] = a
      /\ \A i \in 2..(Len(q) + 1) : (s \o q)[i] = q[i - 1]
  BY <1>2, <1>3, <1>4
<1> QED
  BY <1>5 DEF s

\* The counts of the history are those of the last windows.
CountsAgree(h, c) ==
    /\ Len(h) <= Len(c)
    /\ \A i \in 1..Len(h) : h[i] = c[i]

LEMMA CountsPushed ==
    ASSUME NEW h \in Seq(Nat), NEW c \in Seq(Nat), NEW a \in Nat,
           CountsAgree(h, c)
    PROVE  CountsAgree(<<a>> \o h, <<a>> \o c)
<1> DEFINE p == <<a>> \o h
           q == <<a>> \o c
<1>1. /\ Len(p) = Len(h) + 1 /\ p[1] = a
      /\ \A i \in 2..(Len(h) + 1) : p[i] = h[i - 1]
      /\ Len(q) = Len(c) + 1 /\ q[1] = a
      /\ \A i \in 2..(Len(c) + 1) : q[i] = c[i - 1]
  BY Pushed
<1>2. Len(h) \in Nat /\ Len(c) \in Nat /\ Len(h) <= Len(c)
  BY LenProperties DEF CountsAgree
<1> HIDE DEF p, q
<1>3. ASSUME NEW i \in 1..Len(p) PROVE p[i] = q[i]
  <2>1. CASE i = 1
    BY <1>1, <2>1
  <2>2. CASE i # 1
    <3>1. i \in 2..(Len(h) + 1) /\ i \in 2..(Len(c) + 1) /\ i - 1 \in 1..Len(h)
      BY <1>1, <1>2, <2>2
    <3>2. h[i - 1] = c[i - 1]
      BY <3>1 DEF CountsAgree
    <3> QED
      BY <1>1, <3>1, <3>2
  <2> QED
    BY <2>1, <2>2
<1>4. CountsAgree(p, q)
  BY <1>1, <1>2, <1>3 DEF CountsAgree
<1> QED
  BY <1>4 DEF p, q

LEMMA CountsAgreeSays ==
    ASSUME NEW h \in Seq(Nat), NEW c
    PROVE  CountsAgree(h, c) <=> /\ Len(h) <= Len(c)
                                 /\ \A i \in DOMAIN h : h[i] = c[i]
<1>1. DOMAIN h = 1..Len(h)
  BY LenProperties
<1> QED
  BY <1>1 DEF CountsAgree

----------------------------------------------------------------------------
(* The average that adjust sets the rate by.                                  *)

LEMMA IntervalSize ==
    ASSUME NEW a \in Int, NEW b \in Int, NEW k \in Nat, k = b - a + 1
    PROVE  IsFiniteSet(a..b) /\ Cardinality(a..b) = k
<1>1. IsFiniteSet(a..b) /\ Cardinality(a..b) = IF a > b THEN 0 ELSE b - a + 1
  BY FS_Interval
<1> QED
  BY <1>1

\* The three groups of a history of n counts.
LEMMA GroupIndices ==
    ASSUME NEW n \in Nat, NEW g, g = n \div 3
    PROVE  /\ g \in Nat /\ 3 * g <= n /\ n < 3 * g + 3
           /\ 1..g \subseteq 1..n
           /\ (g + 1)..(2 * g) \subseteq 1..n
           /\ (2 * g + 1)..n \subseteq 1..n
           /\ IsFiniteSet(1..g) /\ Cardinality(1..g) = g
           /\ IsFiniteSet((g + 1)..(2 * g))
           /\ Cardinality((g + 1)..(2 * g)) = g
           /\ IsFiniteSet((2 * g + 1)..n)
           /\ Cardinality((2 * g + 1)..n) = n - 2 * g
<1>1. g \in Nat /\ 3 * g <= n /\ n < 3 * g + 3
  OBVIOUS
<1>2. IsFiniteSet(1..g) /\ Cardinality(1..g) = g
  <2>1. g \in Int /\ g = g - 1 + 1
    BY <1>1
  <2> QED
    BY <1>1, <2>1, IntervalSize
<1>3. IsFiniteSet((g + 1)..(2 * g)) /\ Cardinality((g + 1)..(2 * g)) = g
  <2> DEFINE x == g + 1
             y == 2 * g
  <2>1. x \in Int /\ y \in Int /\ g = y - x + 1
    BY <1>1
  <2> HIDE DEF x, y
  <2>2. IsFiniteSet(x..y) /\ Cardinality(x..y) = g
    BY <1>1, <2>1, IntervalSize
  <2> QED
    BY <2>2 DEF x, y
<1>4. /\ IsFiniteSet((2 * g + 1)..n)
      /\ Cardinality((2 * g + 1)..n) = n - 2 * g
  <2> DEFINE x == 2 * g + 1
             k == n - 2 * g
  <2>1. x \in Int /\ k \in Nat /\ k = n - x + 1
    BY <1>1
  <2> HIDE DEF x, k
  <2>2. IsFiniteSet(x..n) /\ Cardinality(x..n) = k
    BY <2>1, IntervalSize
  <2> QED
    BY <2>2 DEF x, k
<1>5. /\ 1..g \subseteq 1..n
      /\ (g + 1)..(2 * g) \subseteq 1..n
      /\ (2 * g + 1)..n \subseteq 1..n
  BY <1>1
<1> QED
  BY <1>1, <1>2, <1>3, <1>4, <1>5

\* The sums of the three groups.
LEMMA GroupSumsType ==
    ASSUME NEW h \in Seq(Nat)
    PROVE  /\ GroupSums(h).recent \in Nat
           /\ GroupSums(h).middle \in Nat
           /\ GroupSums(h).oldest \in Nat
<1> DEFINE n == Len(h)
           g == n \div 3
<1>1. n \in Nat /\ \A i \in 1..n : h[i] \in Nat
  BY LenProperties, ElementOfSeq
<1> HIDE DEF n
<1>2. /\ g \in Nat /\ 1..g \subseteq 1..n
      /\ (g + 1)..(2 * g) \subseteq 1..n /\ (2 * g + 1)..n \subseteq 1..n
  BY <1>1, GroupIndices
<1> HIDE DEF g
<1>3. /\ GroupSums(h).recent = SumFunctionOnSet(h, 1..g)
      /\ GroupSums(h).middle = SumFunctionOnSet(h, (g + 1)..(2 * g))
      /\ GroupSums(h).oldest = SumFunctionOnSet(h, (2 * g + 1)..n)
  BY DEF GroupSums, g, n
<1>4. IsFiniteSet(1..g)
  BY <1>1, GroupIndices DEF g
<1>5. IsFiniteSet((g + 1)..(2 * g))
  BY <1>1, GroupIndices DEF g
<1>6. IsFiniteSet((2 * g + 1)..n)
  BY <1>1, GroupIndices DEF g
<1>7. SumFunctionOnSet(h, 1..g) \in Nat
  BY <1>1, <1>2, <1>4, SumType
<1>8. SumFunctionOnSet(h, (g + 1)..(2 * g)) \in Nat
  BY <1>1, <1>2, <1>5, SumType
<1>9. SumFunctionOnSet(h, (2 * g + 1)..n) \in Nat
  BY <1>1, <1>2, <1>6, SumType
<1> QED
  BY <1>3, <1>7, <1>8, <1>9

LEMMA WeightedSumType ==
    ASSUME NEW h \in Seq(Nat)
    PROVE  WeightedSum(h) \in Nat
<1> DEFINE r == GroupSums(h).recent
           m == GroupSums(h).middle
           o == GroupSums(h).oldest
<1>1. r \in Nat /\ m \in Nat /\ o \in Nat
  BY GroupSumsType
<1>2. WeightedSum(h) = 15 * r + 12 * m + 3 * o
  BY DEF WeightedSum
<1> HIDE DEF r, m, o
<1> QED
  BY <1>1, <1>2

\* A rate that adjust sets is one it may set, whatever the scale.
LEMMA ClampedType ==
    ASSUME NEW scale \in Int
    PROVE  Clamped(scale) \in RateMin..MaxRate
  BY RatesAssumption DEF Clamped

LEMMA AdjustedRateType ==
    ASSUME NEW h \in Seq(Nat), Len(h) >= TargetWindows, Target # 0
    PROVE  AdjustedRate(h) \in RateMin..MaxRate
<1> DEFINE a == WeightedSum(h) * TargetWindows
           d == 10 * Len(h) * Target
<1>1. /\ Target \in Nat \ {0} /\ TargetWindows \in Nat \ {0}
      /\ Len(h) \in Nat \ {0}
  BY TargetAssumption, LenProperties
<1>2. a \in Nat
  BY <1>1, WeightedSumType
<1>3. d \in Nat \ {0}
  <2>1. 10 * Len(h) \in Nat \ {0}
    BY <1>1
  <2> QED
    BY <1>1, <2>1
<1> HIDE DEF a, d
<1>4. a \div d \in Nat
  BY <1>2, <1>3, Division
<1>5. AdjustedRate(h) = Clamped(a \div d)
  BY DEF AdjustedRate, a, d
<1> QED
  BY <1>4, <1>5, ClampedType

----------------------------------------------------------------------------
(* The invariant, action by action.                                           *)

LEMMA InitInv == Init => BufferInv
<1> SUFFICES ASSUME Init PROVE BufferInv
  OBVIOUS
<1> USE DEF Init
<1>1. <<>> \in Seq(Nat) /\ <<>> \in Seq(Event) /\ Len(<<>>) = 0
  BY EmptySeq
<1>2. 0 <= Capacity(1) /\ 1 \in Nat \ {0}
  BY CapacityType
<1>3. BufferTypeOK
  <2>1. /\ events \in Seq(Nat) /\ event_count_history \in Seq(Nat)
        /\ counts \in Seq(Nat) /\ window \in Seq(Event)
    BY <1>1
  <2>2. /\ Len(events) <= Capacity(reserved_data_multiplier)
        /\ reserved_data_multiplier \in Nat \ {0}
    BY <1>1, <1>2
  <2>3. {initialized, captured, disturbed} \subseteq BOOLEAN
    OBVIOUS
  <2>4. {accumulation_start, replay_start, latest, interval_event_count}
          \subseteq Nat
    OBVIOUS
  <2>5. {temporal_sample_rate, replay_rate} \subseteq RateMin..MaxRate
    BY RateFacts
  <2> QED
    BY ONLY <2>1, <2>2, <2>3, <2>4, <2>5 DEF BufferTypeOK
<1>4. MessageType
  BY <1>1, RateFacts DEF MessageType, Nothing
<1>5. NothingBeforeCapture /\ SubscriberKeepsUp /\ NoHistoryWithoutTarget
  BY DEF NothingBeforeCapture, SubscriberKeepsUp, NoHistoryWithoutTarget
<1>6. HistoryOfLastWindows
  <2>1. CountsAgree(event_count_history, counts)
    BY <1>1 DEF CountsAgree
  <2> QED
    BY <1>1, <2>1, CountsAgreeSays DEF HistoryOfLastWindows
<1>7. PayloadReplayableUnlessAdjusted
  <2>1. Rebuilt(<<>>, 0, RateMin) = <<>>
    BY RebuildingNothing, RebuiltIsRebuilding, RatesAssumption
  <2> QED
    BY <2>1 DEF PayloadReplayableUnlessAdjusted, PayloadReplayable, Nothing
<1> QED
  BY <1>3, <1>4, <1>5, <1>6, <1>7 DEF BufferInv

\* processEventRange.
LEMMA ProcessInv ==
    ASSUME BufferInv, ProcessEventRange
    PROVE  BufferInv'
<1>1. BufferTypeOK
  BY DEF BufferInv
<1>2. PICK batch \in Batches(latest, MaxEvents - Handed),
           growth \in {"ok"} \cup (Faults \cap {"skip", "stop"}) :
         LET m == Processed(Module, batch, temporal_sample_rate, growth)
         IN /\ accumulation_start' = m.clock
            /\ events' = m.events
            /\ reserved_data_multiplier' = m.size
            /\ initialized' = m.ok
            /\ interval_event_count' = interval_event_count + Len(batch)
            /\ window' = window \o batch
            /\ latest' = batch[Len(batch)].t
            /\ disturbed' = (disturbed \/ m.lost)
  BY DEF ProcessEventRange, Module
<1> DEFINE m == Processed(Module, batch, temporal_sample_rate, growth)
<1>3. growth \in Growth
  BY DEF Growth
<1>4. /\ batch \in Seq(Event) /\ Len(batch) \in Nat
      /\ batch[Len(batch)].t \in Nat
  BY <1>1, BatchFacts
<1>5. m \in ModuleState /\ HasRoom(m) /\ (m.ok => initialized)
  BY <1>1, <1>3, <1>4, ProcessedFacts
<1>6. /\ accumulation_start' = m.clock
      /\ events' = m.events
      /\ reserved_data_multiplier' = m.size
      /\ initialized' = m.ok
      /\ interval_event_count' = interval_event_count + Len(batch)
      /\ window' = window \o batch
      /\ latest' = batch[Len(batch)].t
      /\ disturbed' = (disturbed \/ m.lost)
  BY <1>2
<1>7. /\ captured' = TRUE
      /\ replay_start' = IF captured THEN replay_start ELSE accumulation_start
      /\ replay_rate' = IF captured THEN replay_rate ELSE temporal_sample_rate
      /\ temporal_sample_rate' = temporal_sample_rate
      /\ event_count_history' = event_count_history
      /\ counts' = counts /\ message' = message
  BY DEF ProcessEventRange, CaptureReplayWindowState
<1>8. /\ window' \in Seq(Event)
      /\ Len(window') = Len(window) + Len(batch)
      /\ Len(window) \in Nat
  BY <1>1, <1>4, <1>6, TypeFacts, ConcatProperties, LenProperties
<1>9. /\ m.clock \in Nat /\ m.events \in Seq(Nat) /\ m.size \in Nat \ {0}
      /\ m.ok \in BOOLEAN /\ m.lost \in BOOLEAN
      /\ m.ok => Len(m.events) <= Capacity(m.size)
  BY <1>5 DEF ModuleState, HasRoom
<1> HIDE DEF m
<1>10. BufferTypeOK'
  <2>1. /\ initialized' \in BOOLEAN /\ captured' \in BOOLEAN
        /\ disturbed' \in BOOLEAN
    BY <1>6, <1>7, <1>9
  <2>2. interval_event_count' \in Nat
    BY <1>1, <1>4, <1>6, TypeFacts
  <2>3. /\ accumulation_start' \in Nat /\ replay_start' \in Nat
        /\ latest' \in Nat
    BY <1>1, <1>4, <1>6, <1>7, <1>9, TypeFacts
  <2>4. /\ temporal_sample_rate' \in RateMin..MaxRate
        /\ replay_rate' \in RateMin..MaxRate
    BY <1>1, <1>7, TypeFacts
  <2>5. /\ events' \in Seq(Nat) /\ reserved_data_multiplier' \in Nat \ {0}
        /\ event_count_history' \in Seq(Nat) /\ counts' \in Seq(Nat)
    BY <1>1, <1>6, <1>7, <1>9, TypeFacts
  <2>6. initialized' => Len(events') <= Capacity(reserved_data_multiplier')
    BY <1>6, <1>9
  <2> QED
    BY ONLY <2>1, <2>2, <2>3, <2>4, <2>5, <2>6, <1>8 DEF BufferTypeOK
<1>11. MessageType'
  BY <1>7 DEF BufferInv, MessageType
<1>12. NothingBeforeCapture'
  BY <1>7 DEF NothingBeforeCapture
<1>13. SubscriberKeepsUp'
  <2> SUFFICES ASSUME initialized', ~disturbed'
               PROVE  /\ replay_rate' = temporal_sample_rate
                      /\ Same(m, Rebuilding(window \o batch, replay_start',
                                            replay_rate'))
    BY <1>6, <1>7 DEF SubscriberKeepsUp, Same
  <2>1. initialized /\ ~disturbed /\ m.ok /\ ~m.lost
    BY <1>5, <1>6
  <2>2. replay_rate' = temporal_sample_rate
    BY <1>7, <2>1 DEF BufferInv, SubscriberKeepsUp
  <2>3. /\ replay_start' \in Nat /\ replay_rate' \in Nat \ {0}
        /\ window \in Seq(Event) /\ Module \in ModuleState
    BY <1>1, <1>7, TypeFacts, ModuleFacts, RateFacts
  <2>4. Same(Module, Rebuilding(window, replay_start', replay_rate'))
    <3>1. CASE captured
      BY <1>7, <2>1, <3>1 DEF BufferInv, SubscriberKeepsUp, Same, Module
    <3>2. CASE ~captured
      <4>1. window = <<>> /\ events = <<>>
        BY <3>2 DEF BufferInv, NothingBeforeCapture
      <4>2. replay_start' = accumulation_start
        BY <1>7, <3>2
      <4>3. /\ Rebuilding(window, replay_start', replay_rate').clock
                 = accumulation_start
            /\ Rebuilding(window, replay_start', replay_rate').events = events
        BY <2>3, <4>1, <4>2, RebuildingNothing
      <4> QED
        BY <4>3 DEF Same, Module
    <3> QED
      BY <3>1, <3>2
  <2>5. m = Processed(Module, batch, replay_rate', growth)
    BY <2>2 DEF m
  <2>6. Same(m, Rebuilding(window \o batch, replay_start', replay_rate'))
    BY <1>3, <1>4, <2>1, <2>3, <2>4, <2>5, RebuildingExtends
  <2> QED
    BY <2>2, <2>6
<1>14. HistoryOfLastWindows'
  BY <1>1, <1>4, <1>5, <1>6, <1>7, <1>8, TypeFacts
     DEF BufferInv, HistoryOfLastWindows
<1>15. NoHistoryWithoutTarget'
  BY <1>7 DEF BufferInv, NoHistoryWithoutTarget
<1>16. PayloadReplayableUnlessAdjusted'
  BY <1>7 DEF BufferInv, PayloadReplayableUnlessAdjusted, PayloadReplayable
<1> QED
  BY <1>10, <1>11, <1>12, <1>13, <1>14, <1>15, <1>16 DEF BufferInv

\* A message announced for what was captured, or for the module as it is, lets a
\* subscriber rebuild the payload.
LEMMA AnnounceInv ==
    ASSUME BufferInv, initialized, Announce,
           replay_start' = IF captured THEN replay_start ELSE accumulation_start,
           replay_rate' = IF captured THEN replay_rate ELSE temporal_sample_rate
    PROVE  /\ MessageType'
           /\ PayloadReplayableUnlessAdjusted'
           /\ replay_start' \in Nat /\ replay_rate' \in RateMin..MaxRate
<1>1. BufferTypeOK
  BY DEF BufferInv
<1>2. replay_start' \in Nat /\ replay_rate' \in RateMin..MaxRate
  BY <1>1, TypeFacts
<1>3. /\ message' = [start |-> replay_start', rate |-> replay_rate',
                     events |-> events, window |-> window,
                     disturbed |-> disturbed]
  BY DEF Announce
<1>4. MessageType'
  BY <1>1, <1>2, <1>3, TypeFacts DEF MessageType
<1>5. PayloadReplayableUnlessAdjusted'
  <2> SUFFICES ASSUME ~disturbed
               PROVE  events = Rebuilding(window, replay_start', replay_rate').events
    BY <1>3, RebuiltIsRebuilding
       DEF PayloadReplayableUnlessAdjusted, PayloadReplayable
  <2>1. CASE captured
    BY <2>1 DEF BufferInv, SubscriberKeepsUp
  <2>2. CASE ~captured
    <3>1. window = <<>> /\ events = <<>>
      BY <2>2 DEF BufferInv, NothingBeforeCapture
    <3>2. replay_start' \in Nat /\ replay_rate' \in Nat \ {0}
      BY <1>2, RateFacts
    <3> QED
      BY <3>1, <3>2, RebuildingNothing
  <2> QED
    BY <1>1, <2>1, <2>2, TypeFacts
<1> QED
  BY <1>2, <1>4, <1>5

\* The count of the window goes to the history as it goes to counts.
LEMMA RecordInv ==
    ASSUME BufferInv, initialized, RecordCount,
           counts' = <<Len(window)>> \o counts, window' = <<>>
    PROVE  /\ HistoryOfLastWindows'
           /\ NoHistoryWithoutTarget'
           /\ interval_event_count' \in Nat
           /\ event_count_history' \in Seq(Nat)
           /\ counts' \in Seq(Nat)
<1>1. /\ window \in Seq(Event) /\ Len(window) \in Nat
      /\ event_count_history \in Seq(Nat) /\ counts \in Seq(Nat)
      /\ interval_event_count = Len(window)
      /\ CountsAgree(event_count_history, counts)
  BY TypeFacts, LenProperties, CountsAgreeSays
     DEF BufferInv, HistoryOfLastWindows
<1>2. interval_event_count' = 0 /\ Len(window') = 0
  BY EmptySeq DEF RecordCount
<1>3. counts' \in Seq(Nat)
  BY <1>1, Pushed
<1>4. CASE Target = 0
  <2>1. event_count_history = <<>> /\ event_count_history' = <<>>
    BY <1>4 DEF BufferInv, NoHistoryWithoutTarget, RecordCount
  <2>2. /\ event_count_history' \in Seq(Nat)
        /\ Len(event_count_history') = 0
        /\ Len(counts') \in Nat
    BY <1>3, <2>1, EmptySeq, LenProperties
  <2>3. CountsAgree(event_count_history', counts')
    BY <2>2 DEF CountsAgree
  <2> QED
    BY <1>2, <1>3, <2>1, <2>2, <2>3, CountsAgreeSays
       DEF HistoryOfLastWindows, NoHistoryWithoutTarget
<1>5. CASE Target # 0
  <2>1. event_count_history' = <<Len(window)>> \o event_count_history
    BY <1>1, <1>5 DEF RecordCount
  <2>2. event_count_history' \in Seq(Nat)
    BY <1>1, <2>1, Pushed
  <2>3. CountsAgree(event_count_history', counts')
    BY <1>1, <2>1, CountsPushed
  <2> QED
    BY <1>2, <1>3, <1>5, <2>2, <2>3, CountsAgreeSays
       DEF HistoryOfLastWindows, NoHistoryWithoutTarget
<1> QED
  BY <1>4, <1>5

\* publishCurrentWindow, to its end.
LEMMA PublishInv ==
    ASSUME BufferInv, PublishWindow
    PROVE  BufferInv'
<1>1. /\ initialized /\ RecordCount /\ Announce
      /\ replay_start' = IF captured THEN replay_start ELSE accumulation_start
      /\ replay_rate' = IF captured THEN replay_rate ELSE temporal_sample_rate
      /\ captured' = FALSE /\ reserved_data_multiplier' = 1
      /\ initialized' \in BOOLEAN /\ disturbed' = FALSE
      /\ accumulation_start' = accumulation_start
      /\ temporal_sample_rate' = temporal_sample_rate
      /\ latest' = latest
  BY DEF PublishWindow, sampling
<1>2. events' = <<>> /\ window' = <<>> /\ counts' = <<Len(window)>> \o counts
  BY <1>1 DEF Announce
<1>3. /\ MessageType' /\ PayloadReplayableUnlessAdjusted'
      /\ replay_start' \in Nat /\ replay_rate' \in RateMin..MaxRate
  BY <1>1, AnnounceInv
<1>4. /\ HistoryOfLastWindows' /\ NoHistoryWithoutTarget'
      /\ interval_event_count' \in Nat
      /\ event_count_history' \in Seq(Nat)
      /\ counts' \in Seq(Nat)
  BY <1>1, <1>2, RecordInv
<1>5. BufferTypeOK'
  <2>1. /\ events' \in Seq(Nat) /\ window' \in Seq(Event)
        /\ Len(events') <= Capacity(reserved_data_multiplier')
    <3>1. 0 <= Capacity(1)
      BY CapacityType
    <3> QED
      BY <1>1, <1>2, <3>1, EmptySeq
  <2>2. /\ accumulation_start' \in Nat /\ latest' \in Nat
        /\ temporal_sample_rate' \in RateMin..MaxRate
    BY <1>1, TypeFacts DEF BufferInv
  <2>3. captured' \in BOOLEAN /\ disturbed' \in BOOLEAN
    BY <1>1
  <2>4. initialized' \in BOOLEAN
    BY <1>1
  <2>5. reserved_data_multiplier' \in Nat \ {0}
    BY <1>1
  <2> QED
    BY ONLY <1>3, <1>4, <2>1, <2>2, <2>3, <2>4, <2>5 DEF BufferTypeOK
<1>6. NothingBeforeCapture' /\ SubscriberKeepsUp'
  BY <1>1, <1>2 DEF NothingBeforeCapture, SubscriberKeepsUp
<1> QED
  BY <1>3, <1>4, <1>5, <1>6 DEF BufferInv

\* publishCurrentWindow, when setupMessage fails.
LEMMA PublishWithoutResizeInv ==
    ASSUME BufferInv, PublishWithoutResize
    PROVE  BufferInv'
<1>1. /\ initialized /\ RecordCount /\ Announce
      /\ replay_start' = IF captured THEN replay_start ELSE accumulation_start
      /\ replay_rate' = IF captured THEN replay_rate ELSE temporal_sample_rate
      /\ captured' = TRUE /\ disturbed' = TRUE
      /\ initialized' = initialized
      /\ reserved_data_multiplier' = reserved_data_multiplier
      /\ accumulation_start' = accumulation_start
      /\ temporal_sample_rate' = temporal_sample_rate
      /\ latest' = latest
  BY DEF PublishWithoutResize, CaptureReplayWindowState, sampling
<1>2. events' = <<>> /\ window' = <<>> /\ counts' = <<Len(window)>> \o counts
  BY <1>1 DEF Announce
<1>3. /\ MessageType' /\ PayloadReplayableUnlessAdjusted'
      /\ replay_start' \in Nat /\ replay_rate' \in RateMin..MaxRate
  BY <1>1, AnnounceInv
<1>4. /\ HistoryOfLastWindows' /\ NoHistoryWithoutTarget'
      /\ interval_event_count' \in Nat
      /\ event_count_history' \in Seq(Nat)
      /\ counts' \in Seq(Nat)
  BY <1>1, <1>2, RecordInv
<1>5. BufferTypeOK'
  <2>1. /\ reserved_data_multiplier' \in Nat \ {0}
        /\ initialized' \in BOOLEAN /\ captured' \in BOOLEAN
        /\ disturbed' \in BOOLEAN
        /\ accumulation_start' \in Nat /\ latest' \in Nat
        /\ temporal_sample_rate' \in RateMin..MaxRate
    BY <1>1, TypeFacts DEF BufferInv
  <2>2. /\ events' \in Seq(Nat) /\ window' \in Seq(Event)
        /\ Len(events') <= Capacity(reserved_data_multiplier')
    <3>1. 0 <= Capacity(reserved_data_multiplier')
      BY <2>1, CapacityType
    <3> QED
      BY <1>2, <3>1, EmptySeq
  <2> QED
    BY ONLY <1>3, <1>4, <2>1, <2>2 DEF BufferTypeOK
<1>6. NothingBeforeCapture' /\ SubscriberKeepsUp'
  BY <1>1 DEF NothingBeforeCapture, SubscriberKeepsUp
<1> QED
  BY <1>3, <1>4, <1>5, <1>6 DEF BufferInv

\* adjust.
LEMMA AdjustInv ==
    ASSUME BufferInv, Adjust
    PROVE  BufferInv'
<1>1. /\ Target # 0 /\ Len(event_count_history) >= TargetWindows
      /\ temporal_sample_rate' = AdjustedRate(event_count_history)
      /\ event_count_history' = SubSeq(event_count_history, 1, TargetWindows)
      /\ disturbed' = \/ disturbed
                      \/ captured /\ temporal_sample_rate' # temporal_sample_rate
      /\ initialized' = initialized /\ accumulation_start' = accumulation_start
      /\ captured' = captured /\ replay_start' = replay_start
      /\ replay_rate' = replay_rate /\ events' = events
      /\ reserved_data_multiplier' = reserved_data_multiplier
      /\ interval_event_count' = interval_event_count /\ window' = window
      /\ counts' = counts /\ latest' = latest /\ message' = message
  BY DEF Adjust, replay
<1>2. BufferTypeOK
  BY DEF BufferInv
<1>3. temporal_sample_rate' \in RateMin..MaxRate
  BY <1>1, <1>2, TypeFacts, AdjustedRateType
<1>4. /\ event_count_history' \in Seq(Nat)
      /\ Len(event_count_history') = TargetWindows
      /\ \A i \in 1..TargetWindows :
           event_count_history'[i] = event_count_history[i]
  <2>1. /\ event_count_history \in Seq(Nat) /\ TargetWindows \in Nat \ {0}
        /\ Len(event_count_history) \in Nat
    BY <1>2, TypeFacts, TargetAssumption, LenProperties
  <2>2. \A i \in 1..TargetWindows : event_count_history[i] \in Nat
    BY <1>1, <2>1, ElementOfSeq
  <2> QED
    BY <1>1, <2>1, <2>2, SubSeqProperties
<1>5. BufferTypeOK'
  <2>1. disturbed' \in BOOLEAN
    BY <1>1, <1>2, TypeFacts
  <2>2. /\ initialized' \in BOOLEAN /\ captured' \in BOOLEAN
        /\ accumulation_start' \in Nat /\ replay_start' \in Nat
        /\ latest' \in Nat /\ interval_event_count' \in Nat
        /\ replay_rate' \in RateMin..MaxRate
        /\ events' \in Seq(Nat) /\ window' \in Seq(Event)
        /\ reserved_data_multiplier' \in Nat \ {0} /\ counts' \in Seq(Nat)
    BY <1>1, <1>2, TypeFacts
  <2>3. initialized' => Len(events') <= Capacity(reserved_data_multiplier')
    BY <1>1, <1>2 DEF BufferTypeOK
  <2> QED
    BY ONLY <1>3, <1>4, <2>1, <2>2, <2>3 DEF BufferTypeOK
<1>6. MessageType' /\ PayloadReplayableUnlessAdjusted' /\ NothingBeforeCapture'
  BY <1>1 DEF BufferInv, MessageType, PayloadReplayableUnlessAdjusted,
              PayloadReplayable, NothingBeforeCapture
<1>7. SubscriberKeepsUp'
  BY <1>1 DEF BufferInv, SubscriberKeepsUp
<1>8. HistoryOfLastWindows'
  <2>1. /\ CountsAgree(event_count_history, counts)
        /\ initialized => interval_event_count = Len(window)
    BY <1>2, TypeFacts, CountsAgreeSays DEF BufferInv, HistoryOfLastWindows
  <2>2. CountsAgree(event_count_history', counts')
    <3>1. /\ Len(event_count_history) \in Nat /\ Len(counts) \in Nat
          /\ TargetWindows \in Nat
      BY <1>2, TypeFacts, TargetAssumption, LenProperties
    <3> QED
      BY <1>1, <1>4, <2>1, <3>1 DEF CountsAgree
  <2> QED
    BY <1>1, <1>4, <2>1, <2>2, CountsAgreeSays DEF HistoryOfLastWindows
<1>9. NoHistoryWithoutTarget'
  BY <1>1 DEF NoHistoryWithoutTarget
<1> QED
  BY <1>5, <1>6, <1>7, <1>8, <1>9 DEF BufferInv

\* reset.
LEMMA ResetInv ==
    ASSUME BufferInv, Reset
    PROVE  BufferInv'
<1>1. /\ accumulation_start' = 0 /\ temporal_sample_rate' = RateMin
      /\ captured' = FALSE /\ replay_start' = 0 /\ replay_rate' = RateMin
      /\ events' = <<>> /\ interval_event_count' = 0
      /\ event_count_history' = <<>> /\ window' = <<>> /\ counts' = <<>>
      /\ latest' = 0 /\ disturbed' = FALSE /\ message' = Nothing
      /\ initialized' = initialized
      /\ reserved_data_multiplier' = reserved_data_multiplier
  BY DEF Reset
<1>2. <<>> \in Seq(Nat) /\ <<>> \in Seq(Event) /\ Len(<<>>) = 0
  BY EmptySeq
<1>3. BufferTypeOK'
  <2>1. initialized' \in BOOLEAN /\ reserved_data_multiplier' \in Nat \ {0}
    BY <1>1, TypeFacts DEF BufferInv
  <2>2. /\ events' \in Seq(Nat) /\ event_count_history' \in Seq(Nat)
        /\ counts' \in Seq(Nat) /\ window' \in Seq(Event)
    BY <1>1, <1>2
  <2>3. Len(events') <= Capacity(reserved_data_multiplier')
    <3>1. 0 <= Capacity(reserved_data_multiplier')
      BY <2>1, CapacityType
    <3> QED
      BY <1>1, <1>2, <3>1
  <2>4. /\ temporal_sample_rate' \in RateMin..MaxRate
        /\ replay_rate' \in RateMin..MaxRate
    BY <1>1, RateFacts
  <2>5. /\ accumulation_start' \in Nat /\ replay_start' \in Nat
        /\ latest' \in Nat /\ interval_event_count' \in Nat
        /\ captured' \in BOOLEAN /\ disturbed' \in BOOLEAN
    BY <1>1
  <2> QED
    BY ONLY <2>1, <2>2, <2>3, <2>4, <2>5 DEF BufferTypeOK
<1>4. MessageType'
  BY <1>1, <1>2, RateFacts DEF MessageType, Nothing
<1>5. NothingBeforeCapture' /\ SubscriberKeepsUp' /\ NoHistoryWithoutTarget'
  BY <1>1 DEF NothingBeforeCapture, SubscriberKeepsUp, NoHistoryWithoutTarget
<1>6. HistoryOfLastWindows'
  <2>1. CountsAgree(event_count_history', counts')
    BY <1>1, <1>2 DEF CountsAgree
  <2> QED
    BY <1>1, <1>2, <2>1, CountsAgreeSays DEF HistoryOfLastWindows
<1>7. PayloadReplayableUnlessAdjusted'
  <2>1. Rebuilt(<<>>, 0, RateMin) = <<>>
    BY RebuildingNothing, RebuiltIsRebuilding, RatesAssumption
  <2> QED
    BY <1>1, <2>1
       DEF PayloadReplayableUnlessAdjusted, PayloadReplayable, Nothing
<1> QED
  BY <1>3, <1>4, <1>5, <1>6, <1>7 DEF BufferInv

\* publishCurrentWindow of a stopped module, and steps of others.
LEMMA DropInv ==
    ASSUME BufferInv, DropCount
    PROVE  BufferInv'
<1>1. /\ ~initialized /\ ~initialized' /\ interval_event_count' = 0
      /\ accumulation_start' = accumulation_start
      /\ temporal_sample_rate' = temporal_sample_rate
      /\ captured' = captured /\ replay_start' = replay_start
      /\ replay_rate' = replay_rate /\ events' = events
      /\ reserved_data_multiplier' = reserved_data_multiplier
      /\ event_count_history' = event_count_history /\ window' = window
      /\ counts' = counts /\ latest' = latest /\ message' = message
      /\ disturbed' = disturbed /\ initialized' = initialized
  BY DEF DropCount, sampling, replay, observed
<1>2. BufferTypeOK'
  BY <1>1 DEF BufferInv, BufferTypeOK
<1>3. MessageType' /\ PayloadReplayableUnlessAdjusted' /\ NothingBeforeCapture'
  BY <1>1 DEF BufferInv, MessageType, PayloadReplayableUnlessAdjusted,
              PayloadReplayable, NothingBeforeCapture
<1>4. SubscriberKeepsUp' /\ HistoryOfLastWindows' /\ NoHistoryWithoutTarget'
  BY <1>1 DEF BufferInv, SubscriberKeepsUp, HistoryOfLastWindows,
              NoHistoryWithoutTarget
<1> QED
  BY <1>2, <1>3, <1>4 DEF BufferInv

LEMMA StutterInv ==
    ASSUME BufferInv, UNCHANGED vars
    PROVE  BufferInv'
<1>1. /\ initialized' = initialized
      /\ accumulation_start' = accumulation_start
      /\ temporal_sample_rate' = temporal_sample_rate
      /\ captured' = captured /\ replay_start' = replay_start
      /\ replay_rate' = replay_rate /\ events' = events
      /\ reserved_data_multiplier' = reserved_data_multiplier
      /\ interval_event_count' = interval_event_count
      /\ event_count_history' = event_count_history /\ window' = window
      /\ counts' = counts /\ latest' = latest /\ message' = message
      /\ disturbed' = disturbed
  BY DEF vars, sampling, replay, history, observed
<1>2. BufferTypeOK' /\ MessageType' /\ NothingBeforeCapture' /\ SubscriberKeepsUp'
  BY <1>1 DEF BufferInv, BufferTypeOK, MessageType, NothingBeforeCapture,
              SubscriberKeepsUp
<1>3. /\ HistoryOfLastWindows' /\ NoHistoryWithoutTarget'
      /\ PayloadReplayableUnlessAdjusted'
  BY <1>1 DEF BufferInv, HistoryOfLastWindows, NoHistoryWithoutTarget,
              PayloadReplayableUnlessAdjusted, PayloadReplayable
<1> QED
  BY <1>2, <1>3 DEF BufferInv

LEMMA BufferInvariance == Spec => []BufferInv
<1>1. BufferInv /\ [Next]_vars => BufferInv'
  BY ProcessInv, PublishInv, PublishWithoutResizeInv, DropInv, AdjustInv,
     ResetInv, StutterInv DEF Next
<1> QED
  BY InitInv, <1>1, PTL DEF Spec

----------------------------------------------------------------------------
(* What the rate adjust sets has to do with the counts it averages.           *)

LEMMA TimesMonotonic ==
    ASSUME NEW a \in Int, NEW b \in Int, a <= b, NEW c \in Nat
    PROVE  c * a <= c * b
<1>1. b - a \in Nat
  OBVIOUS
<1>2. c * (b - a) \in Nat
  BY <1>1
<1>3. c * (b - a) = c * b - c * a
  OBVIOUS
<1> QED
  BY <1>2, <1>3

LEMMA Quotient ==
    ASSUME NEW a \in Nat, NEW n \in Nat \ {0}, NEW q \in Nat,
           n * q <= a, a < n * q + n
    PROVE  a \div n = q
  OBVIOUS

\* A common factor cancels.
LEMMA QuotientCancel ==
    ASSUME NEW a \in Nat, NEW b \in Nat \ {0}, NEW p \in Nat \ {0}
    PROVE  (p * a) \div (p * b) = a \div b
<1> DEFINE q == a \div b
           pa == p * a
           pb == p * b
           bq == b * q
<1>1. q \in Nat /\ bq <= a /\ a < bq + b
  BY Division
<1> HIDE DEF q
<1>2. bq \in Nat /\ pa \in Nat /\ pb \in Nat \ {0}
  BY <1>1
<1>3. p * bq <= p * a
  <2> HIDE DEF bq
  <2> QED
    BY <1>1, <1>2, TimesMonotonic
<1>4. p * (a + 1) <= p * (bq + b)
  <2> HIDE DEF bq
  <2>1. a + 1 <= bq + b /\ a + 1 \in Int /\ bq + b \in Int
    BY <1>1, <1>2
  <2> QED
    BY <2>1, TimesMonotonic
<1>5. p * (a + 1) = pa + p
  OBVIOUS
<1>6. p * (bq + b) = p * bq + pb
  <2> HIDE DEF bq
  <2> QED
    BY <1>2
<1>7. pb * q = p * bq
  BY <1>1
<1> HIDE DEF pa, pb, bq
<1>8. p * bq \in Nat
  BY <1>2
<1>9. pb * q <= pa /\ pa < pb * q + pb
  <2>1. p * bq <= pa
    BY <1>3 DEF pa
  <2> QED
    BY <1>2, <1>4, <1>5, <1>6, <1>7, <1>8, <2>1
<1>10. pa \div pb = q
  BY <1>1, <1>2, <1>9, Quotient
<1> QED
  BY <1>10 DEF pa, pb, q

\* The weighted sum of counts none of which exceeds hi is at most what 10 times
\* as many of hi give.  The weights of the three groups are 1.5, 1.2 and 0.3: a
\* remainder goes to the last.
LEMMA WeightedSumBound ==
    ASSUME NEW h \in Seq(Nat), NEW hi \in Nat,
           \A i \in 1..Len(h) : h[i] <= hi
    PROVE  WeightedSum(h) <= 10 * (Len(h) * hi)
<1> DEFINE n == Len(h)
           g == n \div 3
           r == SumFunctionOnSet(h, 1..g)
           m == SumFunctionOnSet(h, (g + 1)..(2 * g))
           o == SumFunctionOnSet(h, (2 * g + 1)..n)
<1>1. /\ n \in Nat
      /\ \A i \in 1..n : h[i] \in Nat /\ 0 <= h[i] /\ h[i] <= hi
  BY LenProperties, ElementOfSeq
<1>2. WeightedSum(h) = 15 * r + 12 * m + 3 * o
  BY DEF WeightedSum, GroupSums
<1>3. r \in Nat /\ m \in Nat /\ o \in Nat
  BY GroupSumsType DEF GroupSums
<1> HIDE DEF n
<1>4. /\ g \in Nat /\ 3 * g <= n /\ 1..g \subseteq 1..n
      /\ (g + 1)..(2 * g) \subseteq 1..n /\ (2 * g + 1)..n \subseteq 1..n
  BY <1>1, GroupIndices
<1> HIDE DEF g
<1>5. IsFiniteSet(1..g) /\ Cardinality(1..g) = g
  BY <1>1, GroupIndices DEF g
<1>6. /\ IsFiniteSet((g + 1)..(2 * g))
      /\ Cardinality((g + 1)..(2 * g)) = g
  BY <1>1, GroupIndices DEF g
<1>7. /\ IsFiniteSet((2 * g + 1)..n)
      /\ Cardinality((2 * g + 1)..n) = n - 2 * g
  BY <1>1, GroupIndices DEF g
<1>8. r <= g * hi
  BY <1>1, <1>4, <1>5, SumBounds
<1>9. m <= g * hi
  BY <1>1, <1>4, <1>6, SumBounds
<1>10. o <= (n - 2 * g) * hi
  BY <1>1, <1>4, <1>7, SumBounds
<1>11. (n - 2 * g) * hi = n * hi - 2 * (g * hi)
  BY <1>1, <1>4
<1>12. 3 * (g * hi) <= n * hi
  <2>1. hi * (3 * g) <= hi * n
    BY <1>1, <1>4, TimesMonotonic
  <2>2. hi * (3 * g) = 3 * (g * hi) /\ hi * n = n * hi
    BY <1>1, <1>4
  <2> QED
    BY <2>1, <2>2
<1>13. g * hi \in Nat /\ n * hi \in Nat
  BY <1>1, <1>4
<1> DEFINE a == g * hi
           b == n * hi
<1>14. /\ r <= a /\ m <= a /\ o <= b - 2 * a /\ 3 * a <= b
       /\ a \in Nat /\ b \in Nat
  BY <1>8, <1>9, <1>10, <1>11, <1>12, <1>13
<1> HIDE DEF r, m, o, a, b
<1>15. 15 * r + 12 * m + 3 * o <= 10 * b
  BY <1>3, <1>14
<1> QED
  BY <1>2, <1>15 DEF b, n

\* Of three equal groups of equal counts it is 10 times the sum.
LEMMA WeightedSumOfEquals ==
    ASSUME NEW h \in Seq(Nat), NEW c \in Nat, Len(h) % 3 = 0,
           \A i \in 1..Len(h) : h[i] = c
    PROVE  WeightedSum(h) = 10 * (Len(h) * c)
<1> DEFINE n == Len(h)
           g == n \div 3
           r == SumFunctionOnSet(h, 1..g)
           m == SumFunctionOnSet(h, (g + 1)..(2 * g))
           o == SumFunctionOnSet(h, (2 * g + 1)..n)
<1>1. /\ n \in Nat /\ n % 3 = 0
      /\ \A i \in 1..n : h[i] \in Nat /\ c <= h[i] /\ h[i] <= c
  BY LenProperties, ElementOfSeq
<1>2. WeightedSum(h) = 15 * r + 12 * m + 3 * o
  BY DEF WeightedSum, GroupSums
<1>3. r \in Nat /\ m \in Nat /\ o \in Nat
  BY GroupSumsType DEF GroupSums
<1> HIDE DEF n
<1>4. /\ g \in Nat /\ 1..g \subseteq 1..n
      /\ (g + 1)..(2 * g) \subseteq 1..n /\ (2 * g + 1)..n \subseteq 1..n
  BY <1>1, GroupIndices
<1>5. n = 3 * g
  BY <1>1
<1> HIDE DEF g
<1>6. IsFiniteSet(1..g) /\ Cardinality(1..g) = g
  BY <1>1, GroupIndices DEF g
<1>7. /\ IsFiniteSet((g + 1)..(2 * g))
      /\ Cardinality((g + 1)..(2 * g)) = g
  BY <1>1, GroupIndices DEF g
<1>8. /\ IsFiniteSet((2 * g + 1)..n)
      /\ Cardinality((2 * g + 1)..n) = g
  <2>1. /\ IsFiniteSet((2 * g + 1)..n)
        /\ Cardinality((2 * g + 1)..n) = n - 2 * g
    BY <1>1, GroupIndices DEF g
  <2>2. n - 2 * g = g
    BY <1>4, <1>5
  <2> QED
    BY <2>1, <2>2
<1>9. g * c <= r /\ r <= g * c
  BY <1>1, <1>4, <1>6, SumBounds
<1>10. g * c <= m /\ m <= g * c
  BY <1>1, <1>4, <1>7, SumBounds
<1>11. g * c <= o /\ o <= g * c
  BY <1>1, <1>4, <1>8, SumBounds
<1>12. n * c = 3 * (g * c) /\ g * c \in Nat
  BY <1>4, <1>5
<1> DEFINE a == g * c
           b == n * c
<1>13. /\ a <= r /\ r <= a /\ a <= m /\ m <= a /\ a <= o /\ o <= a
       /\ a \in Nat /\ b = 3 * a
  BY <1>9, <1>10, <1>11, <1>12
<1> HIDE DEF r, m, o, a, b
<1>14. 15 * r + 12 * m + 3 * o = 10 * b
  BY <1>3, <1>13
<1> QED
  BY <1>2, <1>14 DEF b, n

\* The scale of adjust does not exceed what some count of the history needs.
LEMMA ScaleBound ==
    ASSUME NEW h \in Seq(Nat), Len(h) >= TargetWindows, Target # 0
    PROVE  \E i \in 1..Len(h) :
             (WeightedSum(h) * TargetWindows) \div (10 * Len(h) * Target)
               <= (h[i] * TargetWindows) \div Target
<1> DEFINE n == Len(h)
           ws == WeightedSum(h)
           d == 10 * n * Target
           k == (ws * TargetWindows) \div d
<1>1. /\ Target \in Nat \ {0} /\ TargetWindows \in Nat \ {0}
      /\ n \in Nat \ {0} /\ ws \in Nat
      /\ \A i \in 1..n : h[i] \in Nat
  BY TargetAssumption, LenProperties, ElementOfSeq, WeightedSumType
<1> SUFFICES ASSUME \A i \in 1..n :
                      ~(k <= (h[i] * TargetWindows) \div Target)
             PROVE  FALSE
  OBVIOUS
<1> HIDE DEF n, ws
<1>2. d \in Nat \ {0} /\ ws * TargetWindows \in Nat
  <2>1. 10 * n \in Nat \ {0}
    BY <1>1
  <2> QED
    BY <1>1, <2>1
<1>3. k \in Nat /\ d * k <= ws * TargetWindows
  <2> HIDE DEF d
  <2> QED
    BY <1>2, Division
<1>4. ASSUME NEW i \in 1..n
      PROVE  h[i] * TargetWindows \in Nat /\ h[i] * TargetWindows < Target * k
  <2> DEFINE a == h[i] * TargetWindows
             q == a \div Target
  <2>1. a \in Nat
    <3>1. h[i] \in Nat /\ TargetWindows \in Nat
      BY <1>1
    <3> QED
      BY ONLY <3>1 DEF a
  <2>2. q \in Nat /\ a < Target * q + Target
    <3> HIDE DEF a
    <3>1. Target \in Nat \ {0}
      BY <1>1
    <3> QED
      BY ONLY <2>1, <3>1, Division DEF q
  <2>3. q + 1 <= k
    <3>1. ~(k <= q)
      OBVIOUS
    <3> HIDE DEF q, k
    <3> QED
      BY <1>3, <2>2, <3>1
  <2> HIDE DEF q, a, k
  <2>4. Target * (q + 1) <= Target * k
    BY <1>1, <1>3, <2>2, <2>3, TimesMonotonic
  <2>5. Target * (q + 1) = Target * q + Target /\ Target * q \in Nat
    BY <1>1, <2>2
  <2>6. Target * k \in Nat
    BY <1>1, <1>3
  <2> DEFINE x == Target * q
             y == Target * k
  <2>7. a < x + Target /\ x + Target <= y /\ x \in Nat /\ y \in Nat
    BY <2>2, <2>4, <2>5, <2>6
  <2> HIDE DEF x, y
  <2>8. a < y
    BY <1>1, <2>1, <2>7
  <2> QED
    BY <2>1, <2>8 DEF a, y
<1> HIDE DEF k
<1> DEFINE tk == Target * k
           hi == (tk - 1) \div TargetWindows
<1>5. tk \in Nat \ {0}
  <2>1. 1 \in 1..n
    BY <1>1
  <2>2. h[1] * TargetWindows \in Nat /\ h[1] * TargetWindows < tk
    BY <1>4, <2>1
  <2>3. tk \in Nat
    BY <1>1, <1>3
  <2> HIDE DEF tk
  <2> QED
    BY <2>2, <2>3
<1> HIDE DEF tk
<1>6. /\ hi \in Nat /\ TargetWindows * hi <= tk - 1
      /\ tk - 1 < TargetWindows * hi + TargetWindows
  BY <1>1, <1>5, Division
<1> HIDE DEF hi
<1>7. ASSUME NEW i \in 1..n PROVE h[i] <= hi
  <2> SUFFICES ASSUME ~(h[i] <= hi) PROVE FALSE
    OBVIOUS
  <2>1. h[i] \in Nat /\ hi + 1 <= h[i]
    BY <1>1, <1>6
  <2>2. TargetWindows * (hi + 1) <= TargetWindows * h[i]
    <3> DEFINE x == hi + 1
               y == h[i]
    <3>1. x \in Int /\ y \in Int /\ x <= y /\ TargetWindows \in Nat
      BY <1>1, <1>6, <2>1
    <3> HIDE DEF x, y
    <3>2. TargetWindows * x <= TargetWindows * y
      BY <3>1, TimesMonotonic
    <3> QED
      BY <3>2 DEF x, y
  <2>3. /\ TargetWindows * (hi + 1) = TargetWindows * hi + TargetWindows
        /\ TargetWindows * h[i] = h[i] * TargetWindows
        /\ TargetWindows * hi \in Nat
    BY <1>1, <1>6, <2>1
  <2>4. h[i] * TargetWindows \in Nat /\ h[i] * TargetWindows < tk
    BY <1>4 DEF tk
  <2> QED
    BY <1>1, <1>5, <1>6, <2>2, <2>3, <2>4
<1>8. ws <= 10 * (n * hi)
  BY <1>6, <1>7, WeightedSumBound DEF n, ws
<1>9. TargetWindows * ws <= TargetWindows * (10 * (n * hi))
  <2>1. n * hi \in Nat
    BY <1>1, <1>6
  <2> DEFINE x == 10 * (n * hi)
  <2>2. x \in Int /\ ws \in Int /\ ws <= x /\ TargetWindows \in Nat
    BY <1>1, <1>8, <2>1
  <2> HIDE DEF x
  <2>3. TargetWindows * ws <= TargetWindows * x
    BY <2>2, TimesMonotonic
  <2> QED
    BY <2>3 DEF x
<1>10. TargetWindows * (10 * (n * hi)) = (10 * n) * (TargetWindows * hi)
  BY <1>1, <1>6
<1>11. (10 * n) * (TargetWindows * hi) <= (10 * n) * (tk - 1)
  <2>1. 10 * n \in Nat /\ TargetWindows * hi \in Int /\ tk - 1 \in Int
    BY <1>1, <1>5, <1>6
  <2> QED
    BY <1>6, <2>1, TimesMonotonic
<1>12. (10 * n) * (tk - 1) = (10 * n) * tk - 10 * n /\ (10 * n) * tk \in Nat
  BY <1>1, <1>5
<1>13. d * k = (10 * n) * tk
  BY <1>1, <1>3 DEF tk
<1>14. ws * TargetWindows = TargetWindows * ws
  BY <1>1
<1>15. 10 * n > 0 /\ 10 * n \in Nat
  BY <1>1
<1> DEFINE A == (10 * n) * tk
           B == 10 * n
           C == TargetWindows * ws
           D == TargetWindows * (10 * (n * hi))
<1>16. A <= C /\ C <= D /\ D <= A - B
  BY <1>3, <1>9, <1>10, <1>11, <1>12, <1>13, <1>14
<1>17. A \in Nat /\ B \in Nat /\ B > 0 /\ C \in Nat /\ D \in Nat
  <2>1. n * hi \in Nat
    BY <1>1, <1>6
  <2>2. 10 * (n * hi) \in Nat
    BY <2>1
  <2> QED
    BY <1>1, <1>12, <1>15, <2>2
<1> HIDE DEF A, B, C, D
<1> QED
  BY <1>16, <1>17

\* Under a constant load, with three equal groups, the scale is what it needs.
LEMMA ScaleOfEquals ==
    ASSUME NEW h \in Seq(Nat), Len(h) >= TargetWindows, Target # 0,
           Len(h) % 3 = 0, \A i \in 1..Len(h) : h[i] = h[1]
    PROVE  (WeightedSum(h) * TargetWindows) \div (10 * Len(h) * Target)
             = (h[1] * TargetWindows) \div Target
<1> DEFINE n == Len(h)
           c == h[1]
           p == 10 * n
           a == c * TargetWindows
<1>1. /\ Target \in Nat \ {0} /\ TargetWindows \in Nat \ {0}
      /\ n \in Nat \ {0} /\ c \in Nat
  <2>1. /\ Target \in Nat \ {0} /\ TargetWindows \in Nat \ {0}
        /\ n \in Nat \ {0}
    BY TargetAssumption, LenProperties
  <2>2. 1 \in 1..n
    BY <2>1
  <2> QED
    BY <2>1, <2>2, ElementOfSeq
<1>2. WeightedSum(h) = 10 * (n * c)
  BY <1>1, WeightedSumOfEquals
<1> HIDE DEF n, c
<1>3. (10 * (n * c)) * TargetWindows = p * a
  BY <1>1
<1>4. p \in Nat \ {0} /\ a \in Nat
  BY <1>1
<1> HIDE DEF p, a
<1>5. (p * a) \div (p * Target) = a \div Target
  BY <1>1, <1>4, QuotientCancel
<1>6. (WeightedSum(h) * TargetWindows) \div (p * Target) = a \div Target
  BY <1>2, <1>3, <1>5
<1> QED
  BY <1>6 DEF p, a, n, c

----------------------------------------------------------------------------
(* The theorems.                                                              *)

\* BufferTypeOK: the state is well typed and no event is written behind the end of
\* the file that ensureEventCapacity has grown.
THEOREM TypeCorrect == Spec => []BufferTypeOK
<1>1. BufferInv => BufferTypeOK
  BY DEF BufferInv
<1> QED
  BY <1>1, BufferInvariance, PTL

\* HistoryOfLastWindows: event_count_history_ has the counts of the last
\* windows, each event counted once, whether or not it was written.
THEOREM HistoryOfLastWindowsAlways == Spec => []HistoryOfLastWindows
<1>1. BufferInv => HistoryOfLastWindows
  BY DEF BufferInv
<1> QED
  BY <1>1, BufferInvariance, PTL

\* PayloadReplayableUnlessAdjusted: the message of captureReplayWindowState
\* carries what rebuilds the payload, for every cut of the window into batches.
THEOREM PayloadReplayableAlways == Spec => []PayloadReplayableUnlessAdjusted
<1>1. BufferInv => PayloadReplayableUnlessAdjusted
  BY DEF BufferInv
<1> QED
  BY <1>1, BufferInvariance, PTL

\* SampledOnGrid: the events of a payload are whole sampling periods apart.
THEOREM SampledOnGridAlways == Spec => []SampledOnGrid
<1>1. BufferInv => SampledOnGrid
  <2> SUFFICES ASSUME BufferInv, ~message.disturbed,
                      \A i \in DOMAIN message.window : message.window[i].t # 0,
                      NEW i \in DOMAIN message.events,
                      NEW j \in DOMAIN message.events
               PROVE  (message.events[j] - message.events[i]) % message.rate = 0
    BY DEF SampledOnGrid
  <2> DEFINE b == message.window
             rate == message.rate
             x == message.events
             m == Rebuilding(b, message.start, rate)
  <2>1. /\ b \in Seq(Event) /\ x \in Seq(Nat) /\ message.start \in Nat
        /\ rate \in Nat \ {0}
    BY RateFacts DEF BufferInv, MessageType
  <2>2. DOMAIN b = 1..Len(b) /\ DOMAIN x = 1..Len(x)
    BY <2>1, LenProperties
  <2>3. x = m.events
    BY RebuiltIsRebuilding
       DEF BufferInv, PayloadReplayableUnlessAdjusted, PayloadReplayable
  <2> HIDE DEF b, x, rate
  <2>4. \A l \in 1..Len(b) : b[l].t # 0
    BY <2>2 DEF b
  <2>5. OnGrid(m, rate)
    BY <2>1, <2>4, RebuildingOnGrid
  <2> HIDE DEF m
  <2>6. i \in 1..Len(x) /\ j \in 1..Len(x)
    BY <2>2 DEF x
  <2>7. PICK q \in Int : m.clock = x[i] + rate * q
    BY <2>3, <2>5, <2>6 DEF OnGrid
  <2>8. PICK p \in Int : m.clock = x[j] + rate * p
    BY <2>3, <2>5, <2>6 DEF OnGrid
  <2>9. x[i] \in Nat /\ x[j] \in Nat
    BY <2>1, <2>6, ElementOfSeq
  <2>10. x[j] - x[i] = rate * (q - p) /\ q - p \in Int
    <3> DEFINE rq == rate * q
               rp == rate * p
    <3>1. rate * (q - p) = rq - rp /\ rq \in Int /\ rp \in Int /\ q - p \in Int
      BY <2>1
    <3>2. x[i] + rq = x[j] + rp
      BY <2>7, <2>8
    <3> HIDE DEF rq, rp
    <3>3. x[j] - x[i] = rq - rp
      BY <2>9, <3>1, <3>2
    <3> QED
      BY <3>1, <3>3
  <2>11. (rate * (q - p)) % rate = 0
    <3> DEFINE k == q - p
    <3>1. k \in Int
      BY <2>10
    <3> HIDE DEF k
    <3>2. (rate * k) % rate = 0
      BY <2>1, <3>1
    <3> QED
      BY <3>2 DEF k
  <2>12. (x[j] - x[i]) % rate = 0
    BY <2>10, <2>11
  <2> QED
    BY <2>12 DEF x, rate
<1> QED
  BY <1>1, BufferInvariance, PTL

\* AdjustMeetsTarget: adjust never samples more sparsely than the busiest window
\* of the history asks for, and meets the target under a constant load.
THEOREM AdjustMeetsTargetAlways == Spec => AdjustMeetsTarget
<1> DEFINE Meets ==
      LET h == event_count_history
          Needed(c) == (c * TargetWindows) \div Target
      IN /\ \/ temporal_sample_rate' = RateMin
            \/ \E i \in DOMAIN h : temporal_sample_rate' <= Needed(h[i])
         /\ (Len(h) % 3 = 0 /\ \A i \in DOMAIN h : h[i] = h[1])
              => temporal_sample_rate' = Clamped(Needed(h[1]))
<1>1. BufferInv /\ [Next]_vars => [Adjust => Meets]_vars
  <2> SUFFICES ASSUME BufferInv, Adjust PROVE Meets
    OBVIOUS
  <2> DEFINE h == event_count_history
             scale == (WeightedSum(h) * TargetWindows) \div (10 * Len(h) * Target)
  <2>1. /\ h \in Seq(Nat) /\ Len(h) >= TargetWindows /\ Target # 0
        /\ temporal_sample_rate' = Clamped(scale)
    BY TypeFacts DEF BufferInv, Adjust, AdjustedRate
  <2>2. DOMAIN h = 1..Len(h)
    BY <2>1, LenProperties
  <2>3. scale \in Int
    <3>1. /\ Target \in Nat \ {0} /\ TargetWindows \in Nat \ {0}
          /\ Len(h) \in Nat \ {0} /\ WeightedSum(h) \in Nat
      BY <2>1, TargetAssumption, LenProperties, WeightedSumType
    <3> DEFINE a == WeightedSum(h) * TargetWindows
               d == 10 * Len(h) * Target
    <3>2. a \in Nat
      BY <3>1
    <3>3. d \in Nat \ {0}
      <4>1. 10 * Len(h) \in Nat \ {0}
        BY <3>1
      <4> QED
        BY <3>1, <4>1
    <3>4. a \div d \in Nat
      <4> HIDE DEF a, d
      <4> QED
        BY <3>2, <3>3, Division
    <3> QED
      BY <3>4
  <2>4. temporal_sample_rate' = RateMin \/ temporal_sample_rate' <= scale
    <3> HIDE DEF scale
    <3> QED
      BY <2>1, <2>3, RatesAssumption DEF Clamped
  <2>5. PICK i \in 1..Len(h) : scale <= (h[i] * TargetWindows) \div Target
    BY <2>1, ScaleBound
  <2>6. (h[i] * TargetWindows) \div Target \in Int
    <3>1. /\ Target \in Nat \ {0} /\ TargetWindows \in Nat /\ h[i] \in Nat
      BY <2>1, TargetAssumption, ElementOfSeq
    <3> DEFINE a == h[i] * TargetWindows
    <3>2. a \in Nat
      BY <3>1
    <3>3. a \div Target \in Nat
      <4> HIDE DEF a
      <4> QED
        BY <3>1, <3>2, Division
    <3> QED
      BY <3>3
  <2>7. temporal_sample_rate' \in Int
    BY <2>1, <2>3, ClampedType
  <2>8. \/ temporal_sample_rate' = RateMin
        \/ temporal_sample_rate' <= (h[i] * TargetWindows) \div Target
    <3> DEFINE need == (h[i] * TargetWindows) \div Target
               r == temporal_sample_rate'
    <3> HIDE DEF scale, need, r
    <3>1. /\ r = RateMin \/ r <= scale
          /\ scale <= need /\ need \in Int /\ r \in Int /\ scale \in Int
      BY <2>3, <2>4, <2>5, <2>6, <2>7 DEF need, r
    <3>2. r = RateMin \/ r <= need
      BY <3>1
    <3> QED
      BY <3>2 DEF need, r
  <2>9. (Len(h) % 3 = 0 /\ \A l \in DOMAIN h : h[l] = h[1])
          => temporal_sample_rate' = Clamped((h[1] * TargetWindows) \div Target)
    BY <2>1, <2>2, ScaleOfEquals
  <2> QED
    BY <2>2, <2>8, <2>9
<1> QED
  BY <1>1, BufferInvariance, PTL DEF Spec, AdjustMeetsTarget
=============================================================================
