------------------------- MODULE AnimationRunnerMC --------------------------
(* AnimationRunner for TLC: three animations that differ in all respects.  *)
EXTENDS AnimationRunner, TLC

CONSTANTS plain,   \* plays once
          swing,   \* plays to and fro, twice
          forever  \* plays until stopped

Repeats == plain :> 0 @@ swing :> 1 @@ forever :> -1
=============================================================================
