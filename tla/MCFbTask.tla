------------------------------ MODULE MCFbTask ------------------------------
(* An instance of FbTask for TLC: the urtask with the task a and the block b  *)
(* side by side.  Between them clients set all modes.                         *)
EXTENDS FbTask

CONSTANTS a, b

Flat == [t \in Tasks |-> IF t = UrTask THEN <<a, b>> ELSE <<>>]
AllModes == [t \in Tasks |-> CASE t = UrTask -> {OFF, ON, CATCHUP}
                               [] t = a -> {ON, UNLINK}
                               [] t = b -> {OFF, ON, ONCE}]
UrTaskTimes == [t \in Tasks |-> IF t = UrTask THEN {1} ELSE {}]
===========================================================================
