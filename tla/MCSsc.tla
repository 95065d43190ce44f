------------------------------- MODULE MCSsc -------------------------------
(* An instance of Ssc for TLC: a loop of two steps, the end step behind the  *)
(* second one, and a transition of the second one that leads nowhere.        *)
EXTENDS Ssc

CONSTANTS i, s, e

LoopTransitions == {<<i, s>>, <<s, i>>, <<s, e>>, <<s, NoStep>>}
ChainTransitions == {<<i, s>>, <<s, e>>}
===========================================================================
