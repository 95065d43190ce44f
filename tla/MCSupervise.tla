---------------------------- MODULE MCSupervise ----------------------------
(* Instances of Supervise for TLC.  A cfg cannot write negative numbers, so  *)
(* the sets of timeouts are defined here: a refused, a zero and two valid    *)
(* ones.                                                                     *)
EXTENDS Supervise

MixedTimeouts == {-2, 0, 1, 2}
PositiveTimeouts == {1, 2}
===========================================================================
