------------------------- MODULE MCTouchClassifier -------------------------
(* TLC instance of TouchClassifier: the millisecond constants are scaled    *)
(* down, keeping their order and the fact that two edges after a hold or a  *)
(* doubletap fit inside the rate limit (so a doubletap can be suppressed).  *)
EXTENDS TouchClassifier

MCSampleGaps == {1, 2}

=============================================================================
