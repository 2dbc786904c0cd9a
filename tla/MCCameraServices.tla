-------------------------- MODULE MCCameraServices --------------------------
(* Instances of CameraServices for TLC.  The device counts to 64, an event    *)
(* rate is worth 10 and may be 3, so that 7 without the clamp would wrap, and *)
(* 40 is negative as an int.  A millisecond is worth 10 too, thresholds range *)
(* from 1 to 3, and 7 wraps.                                                  *)
EXTENDS CameraServices

SmallTrailRequests ==
    {[enabled |-> TRUE, threshold |-> 3, type |-> "STC_CUT_TRAIL"],
     [enabled |-> TRUE, threshold |-> 7, type |-> "TRAIL"],
     [enabled |-> FALSE, threshold |-> 1, type |-> "unknown"],
     [enabled |-> FALSE, threshold |-> -1, type |-> "TRAIL"]}

SmallErcRequests ==
    {[enabled |-> TRUE, rate |-> 2], [enabled |-> FALSE, rate |-> 7],
     [enabled |-> TRUE, rate |-> 40]}

MinBias == -2
SmallBiasRequests == {[diff |-> 1], [diff |-> -5]}
=============================================================================
