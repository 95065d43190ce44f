----------------------------- MODULE MCTaskLib -----------------------------
(* An instance of TaskLib for TLC: the scheduler task p, its child g and the  *)
(* user's task u below g.  p is tried in all modes, with and without          *)
(* supervision; g is supervised, so that an abort can come from two frames.   *)
EXTENDS TaskLib

CONSTANTS p, g, u

Tree == [t \in Tasks |-> CASE t = p -> <<g>> [] t = g -> <<u>> [] OTHER -> <<>>]
SomeModes == [t \in Tasks |-> CASE t = p -> 0..4 [] t = g -> {0, 1} [] t = u -> {1, 2}]
SomeCycles == [t \in Tasks |-> IF t = p THEN {0, 1} ELSE {1}]
SomeAlarms == [t \in Tasks |-> IF t = p THEN {0, 2} ELSE {2}]
SomeSupervised == [t \in Tasks |-> CASE t = p -> BOOLEAN [] t = g -> {TRUE}
                                     [] t = u -> {FALSE}]
===========================================================================
