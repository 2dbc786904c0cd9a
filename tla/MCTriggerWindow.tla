-------------------------- MODULE MCTriggerWindow --------------------------
(* Instances of TriggerWindow for TLC.                                        *)
EXTENDS TriggerWindow

ZeroOrigin == {0}
\* Slices that end at every cutoff of a timespan of 3 from 0, and some between.
AlignedEnds == {2, 3, 6, 9}
\* Slices of 2: the cutoffs 3 and 9 are passed in the middle of one.
UnalignedEnds == {2, 4, 6, 8}
============================================================================
