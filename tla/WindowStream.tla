---------------------------- MODULE WindowStream ----------------------------
(* What a windowed publisher promises of the stream it is given, whatever it  *)
(* keeps to do so (WindowedEventModuleBase in event_topic_module.hpp): the    *)
(* events are split, in order, over windows of one timespan that lie on the   *)
(* grid of the session's origin, each published once, after all its events    *)
(* have come.  EventWindow implements it, which see.                          *)
EXTENDS Integers, Sequences

CONSTANT Timespan  \* timespan_, the length of every window

VARIABLES
    stream,   \* timestamps of the events handed in, in order
    taken,    \* how many of them are in a window, open or published
    open,     \* the events of the open window
    origin,   \* where the first window of the session starts
    windows   \* the windows published in this session

streamVars == <<stream, taken, open, origin, windows>>

----------------------------------------------------------------------------
\* The end of the last window: nothing older may come, or be published.
Frontier == IF windows = <<>> THEN origin ELSE windows[Len(windows)].end

Fresh == stream = <<>> /\ taken = 0 /\ open = {} /\ windows = <<>>

StreamInit == Fresh /\ origin \in Nat

\* More events come, none from before a published end.
Arrive ==
    /\ Len(stream') >= Len(stream)
    /\ \A k \in 1..Len(stream) : stream'[k] = stream[k]
    /\ \A k \in (Len(stream) + 1)..Len(stream') : stream'[k] >= Frontier
    /\ UNCHANGED <<taken, open, origin, windows>>

\* The next events, up to the t-th, are put into the open window.
Take ==
    /\ taken' \in taken..Len(stream)
    /\ open' = open \cup ((taken + 1)..taken')
    /\ UNCHANGED <<stream, origin, windows>>

\* The open window is closed, perhaps after some more events, and published as
\* one of the grid's.  Its events are its own, and what is left is not before
\* its end.
Close ==
    /\ taken' \in taken..Len(stream)
    /\ open' = {}
    /\ Len(windows') = Len(windows) + 1
    /\ LET w == windows'[Len(windows) + 1]
       IN /\ windows' = Append(windows, w)
          /\ w.start >= Frontier
          /\ (w.start - origin) % Timespan = 0
          /\ w.end = w.start + Timespan
          /\ w.events = open \cup ((taken + 1)..taken')
          /\ \A k \in w.events : stream[k] \in w.start..w.end
          /\ \A k \in (taken' + 1)..Len(stream) : stream[k] >= w.end
    /\ UNCHANGED <<stream, origin>>

\* The camera is opened again, or the file played again.
NewSession == Fresh' /\ origin' \in Nat

StreamNext == Arrive \/ Take \/ Close \/ NewSession

StreamSpec == StreamInit /\ [][StreamNext]_streamVars

============================================================================
