--------------------------- MODULE MCRootComTask ---------------------------
(* Instances of RootComTask for TLC: a server with the ComTasks c1 and c2 at  *)
(* its start, further ones are created by requests.                           *)
EXTENDS RootComTask

CONSTANTS c1, c2

TwoTasks == <<c1, c2>>
===========================================================================
