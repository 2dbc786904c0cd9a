--------------------------- MODULE MCEventWindow ---------------------------
(* An instance of EventWindow for TLC.                                        *)
EXTENDS EventWindow

SmallOrigins == {0, 2}
============================================================================
