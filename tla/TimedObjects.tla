---------------------------- MODULE TimedObjects ----------------------------
(***************************************************************************)
(* What the scheduler promises, without its list: a set of objects with    *)
(* times, one of which is executed when its time has passed and no other   *)
(* object's time is earlier.  Objects choose the times; the scheduler only *)
(* notes the time of an execution.  Scheduler implements this module.      *)
(***************************************************************************)
EXTENDS Integers, Functions

CONSTANTS Objects, NoObject

VARIABLES
    timeOf,       \* the time of each registered object
    running,      \* the object that is being executed
    serving,      \* has the server loop begun?
    astray,       \* has a named execution removed the object it executed?
    locked,       \* the activity lock
    now

avars == <<timeOf, running, serving, astray, locked, now>>

AInit ==
    /\ timeOf = <<>>                       \* the function with no arguments
    /\ running = NoObject
    /\ serving = FALSE
    /\ astray = FALSE
    /\ locked \in BOOLEAN
    /\ now = 0

---------------------------------------------------------------------------
(* What objects and clients do.                                            *)

Add(o) ==
    /\ o \notin DOMAIN timeOf
    /\ UNCHANGED astray
    /\ timeOf' = [p \in DOMAIN timeOf \cup {o} |->
                     IF p = o THEN now ELSE timeOf[p]]

\* An object that is executed by its name and removed leads the scheduler astray.
Remove(o) ==
    /\ timeOf' = Restrict(timeOf, DOMAIN timeOf \ {o})
    /\ astray' = (astray \/ (~serving /\ running = o /\ o \in DOMAIN timeOf))

Move(o) ==
    /\ o \in DOMAIN timeOf
    /\ UNCHANGED astray
    /\ timeOf' \in [DOMAIN timeOf -> Nat]
    /\ \A p \in DOMAIN timeOf \ {o} : timeOf'[p] = timeOf[p]

Client ==
    /\ UNCHANGED <<running, serving, locked, now>>
    /\ \E o \in Objects : Add(o) \/ Remove(o) \/ Move(o)

Lock ==
    /\ locked' = ~locked
    /\ UNCHANGED <<timeOf, running, serving, astray, now>>

---------------------------------------------------------------------------
(* What the scheduler does.                                                *)

\* The promise: never two at a time, never under the lock, never early, never
\* out of order.
Execute ==
    /\ serving /\ ~locked /\ running = NoObject
    /\ running' \in DOMAIN timeOf
    /\ timeOf[running'] < now
    /\ \A p \in DOMAIN timeOf : timeOf[running'] <= timeOf[p]
    /\ timeOf' = [timeOf EXCEPT ![running'] = now]
    /\ UNCHANGED <<serving, astray, locked, now>>

\* Objects named on the command line are executed whatever their time is,
\* which they keep, and only before the server loop begins.  They are registered
\* unless the scheduler has gone astray; a registered one may lead it back.
ExecuteNamed ==
    /\ ~serving /\ running = NoObject
    /\ \/ running' \in DOMAIN timeOf /\ ~astray'
       \/ astray /\ running' \in Objects /\ UNCHANGED astray
    /\ UNCHANGED <<timeOf, serving, locked, now>>

Finish ==
    /\ running # NoObject
    /\ running' = NoObject
    /\ UNCHANGED <<timeOf, serving, astray, locked, now>>

Serve ==
    /\ running = NoObject
    /\ serving' = TRUE /\ ~astray'
    /\ UNCHANGED <<timeOf, running, locked, now>>

PassTime ==
    /\ now' \in Nat
    /\ UNCHANGED <<timeOf, running, serving, astray, locked>>

ANext == Lock \/ Execute \/ ExecuteNamed \/ Finish \/ Serve \/ PassTime \/ Client

ASpec == AInit /\ [][ANext]_avars
===========================================================================
