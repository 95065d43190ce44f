----------------------------- MODULE Scheduler -----------------------------
(***************************************************************************)
(* The scheduler of libov and the server loop that drives it               *)
(* (runtimeserver/ov_runtimeserver.c).                                     *)
(*                                                                         *)
(* The process has one thread.  It starts the database up (the objects'    *)
(* startup methods register them), optionally executes the events named on *)
(* the command line, and then alternates between one call of               *)
(* ov_scheduler_schedulenextevent and a sleep until the next event.  While *)
(* the method of an object runs, that method (and whatever it calls: other *)
(* function blocks, the communication task, a client's set request) may    *)
(* call every scheduler function for every object.  A signal can arrive at *)
(* any time.  Time is counted in units of one second; real time passes     *)
(* between any two steps, and the system clock can be changed.             *)
(***************************************************************************)
EXTENDS Naturals, EventQueue

CONSTANTS
    Objects,          \* the active objects
    NoObject,
    MaxTime,          \* the clock stops here (bound)
    MaxSpan,          \* longest relative event time a client asks for (bound)
    AllowedJitter,    \* ov_vendortree_schedulerAllowedJitter(), 0 = off
    MaxExceeds,       \* the counter of exceeded jitters saturates here (bound)
    MayBackdate,      \* may a client ask for an event time in the past?
    ClockJumps,       \* may the system clock be changed while running?
    ExecOption,       \* is an event named on the command line?
    RunValues         \* what clients write to ov_server_run

ASSUME NoObjectAssumption == NoObject \notin Objects
ASSUME BoundsAssumption ==
    /\ MaxTime \in Nat /\ MaxSpan \in Nat
    /\ AllowedJitter \in Nat /\ MaxExceeds \in Nat
    /\ MayBackdate \in BOOLEAN /\ ClockJumps \in BOOLEAN
    /\ ExecOption \in BOOLEAN /\ RunValues \subseteq BOOLEAN

VARIABLES
    phase,            \* where the thread of the server is
    queue,            \* the list at pfirstevent
    active,           \* objects whose v_objectstate has OV_OS_ACTIVE
    running,          \* the object whose executefnc is on the stack
    now,              \* ov_time_gettime()
    delay,            \* what is left of the current sleep
    activitylock,     \* ov_activitylock
    server_run,       \* ov_server_run
    signalled,        \* has ov_server_sighandler been called?
    numExceeds,       \* ov_scheduler_numberOfExceeds
    cursor,           \* pevent of ov_scheduler_execnamedeventonce
    matching          \* the objects that match its arguments

clientvars == <<activitylock, server_run, signalled>>
namedvars == <<cursor, matching>>
vars == <<phase, queue, active, running, now, delay, activitylock,
          server_run, signalled, numExceeds, cursor, matching>>

Phases == {"startup", "created", "named", "loop", "exec", "sleep",
           "shutdown", "down", "lost"}
Times == 0..(MaxTime + MaxSpan)
AnyObject == Objects \cup {NoObject}

\* A cursor of the named execution: no event yet, the event of an object, or
\* memory that is no event of the list: one that has been freed while its method
\* was running, or what its stale pnext led to.
Freed == [freed |-> TRUE]
CursorAt(o) == [freed |-> FALSE, obj |-> o]
NoCursor == CursorAt(NoObject)
Cursors == {Freed} \cup {CursorAt(o) : o \in AnyObject}

---------------------------------------------------------------------------
Init ==
    /\ phase = "startup"
    /\ queue = <<>>
    /\ active = {}
    /\ running = NoObject
    /\ now = 0
    /\ delay = 0
    /\ activitylock \in BOOLEAN          \* a command line option
    /\ server_run = TRUE                 \* its initialiser
    /\ signalled = FALSE
    /\ numExceeds = 0
    /\ cursor = NoCursor
    /\ matching = {}

---------------------------------------------------------------------------
(* Scheduler functions called by the objects.                              *)

\* Object code runs in the startup and shutdown methods and in executefnc.
ObjectCodeRuns == phase \in {"startup", "shutdown"} \/ running # NoObject

\* The walk of the named execution holds a pointer to the event of o: it is
\* left dangling when that event is freed.
CursorAfterFree(o) == IF cursor = CursorAt(o) /\ Queued(queue, o)
                      THEN Freed ELSE cursor

\* Clients register an object only while it is not registered: fb_task and
\* RootComTask do so in their startup method, and fb_task_proctime_set only
\* after ov_scheduler_unregister.  (TaskLib models the client that does not.)
Register(o) ==
    /\ ObjectCodeRuns /\ phase # "shutdown"
    /\ o \notin active
    /\ queue' = register(queue, o, now)
    /\ active' = active \cup {o}
    /\ UNCHANGED <<phase, running, now, delay, clientvars, numExceeds, namedvars>>

Unregister_FlagKept(o) ==
    /\ ObjectCodeRuns
    /\ queue' = unregister(queue, o)
    /\ cursor' = CursorAfterFree(o)
    /\ UNCHANGED <<phase, active, running, now, delay, clientvars, numExceeds,
                   matching>>

Unregister(o) ==
    /\ ObjectCodeRuns
    /\ queue' = unregister(queue, o)
    /\ active' = IF Queued(queue, o) THEN active \ {o} ELSE active
    /\ cursor' = CursorAfterFree(o)
    /\ UNCHANGED <<phase, running, now, delay, clientvars, numExceeds,
                   matching>>

\* t = now is also what a NULL argument asks for.
SetAbsEventTime(o, t) ==
    /\ ObjectCodeRuns
    /\ MayBackdate \/ t >= now
    /\ queue' = setabseventtime(queue, o, t)
    /\ UNCHANGED <<phase, active, running, now, delay, clientvars, numExceeds,
                   namedvars>>

SetRelEventTime(o, span) == SetAbsEventTime(o, now + span)

\* A client writes the activity lock of the vendor tree.
SetActivityLock ==
    /\ running # NoObject
    /\ activitylock' = ~activitylock
    /\ UNCHANGED <<phase, queue, active, running, now, delay, server_run,
                   signalled, numExceeds, namedvars>>

\* A client writes the run flag of the vendor tree.
SetServerRun(b) ==
    /\ running # NoObject
    /\ server_run' = b
    /\ UNCHANGED <<phase, queue, active, running, now, delay, activitylock,
                   signalled, numExceeds, namedvars>>

---------------------------------------------------------------------------
(* ov_scheduler_schedulenextevent, and the sleep of the server loop.       *)

\* Time until the given event, zero when it is over; a span is at most the
\* one second to which the server loop clips it ("never" included).
Clip(span) == IF span > 1 THEN 1 ELSE span
Until(time) == IF time < now THEN 0 ELSE time - now
SleepSpan_FullSecond(q) == 1
SleepSpan(q) == IF q = <<>> THEN 1 ELSE Clip(Until(Head(q).time))

\* ov_server_run is tested before every call.
InLoop_RunNotTested == phase = "loop"
InLoop == phase = "loop" /\ server_run

\* With the activity lock nothing is executed.
ScheduleLocked ==
    /\ InLoop /\ activitylock
    /\ delay' = 1
    /\ phase' = "sleep"
    /\ UNCHANGED <<queue, active, running, now, clientvars, numExceeds, namedvars>>

ScheduleNothingDue ==
    /\ InLoop /\ ~activitylock
    /\ ~HeadDue(queue, now)
    /\ delay' = SleepSpan(queue)
    /\ phase' = "sleep"
    /\ UNCHANGED <<queue, active, running, now, clientvars, numExceeds, namedvars>>

\* The due head is given the current time, reinserted, and its method called.
ScheduleDue ==
    /\ InLoop /\ ~activitylock
    /\ HeadDue(queue, now)
    /\ numExceeds' = IF /\ AllowedJitter # 0
                        /\ now - Head(queue).time > AllowedJitter
                        /\ numExceeds < MaxExceeds
                     THEN numExceeds + 1 ELSE numExceeds
    /\ queue' = requeuehead(queue, now)
    /\ running' = Head(queue).obj
    /\ phase' = "exec"
    /\ UNCHANGED <<active, now, delay, clientvars, namedvars>>

\* The method returns; the span to the head is computed with a fresh time.
ExecuteReturns ==
    /\ phase = "exec"
    /\ running' = NoObject
    /\ delay' = SleepSpan(queue)
    /\ phase' = "sleep"
    /\ UNCHANGED <<queue, active, now, clientvars, numExceeds, namedvars>>

Wake ==
    /\ phase = "sleep" /\ delay = 0
    /\ phase' = "loop"
    /\ UNCHANGED <<queue, active, running, now, delay, clientvars, numExceeds,
                   namedvars>>

---------------------------------------------------------------------------
(* ov_scheduler_execnamedeventonce, called between the start of the        *)
(* database and the server loop.                                           *)

\* Where in the list the walk continues: behind the event it stands on, wherever
\* that event is by now.  The pnext of freed memory may lead back to any event
\* (its memory may be that of a new one), or be NULL.
ContinueAt ==
    IF cursor = Freed THEN 1..(Len(queue) + 1)
    ELSE IF cursor = NoCursor THEN {1}
    ELSE {FirstOf(queue, cursor.obj) + 1}

MatchFrom(i) == SelectInSubSeq(queue, i, Len(queue), LAMBDA e : e.obj \in matching)

NamedExecute ==
    /\ phase = "named" /\ running = NoObject
    /\ \E i \in ContinueAt :
        /\ MatchFrom(i) # 0
        /\ running' = queue[MatchFrom(i)].obj
        /\ cursor' = CursorAt(running')
    /\ UNCHANGED <<phase, queue, active, now, delay, clientvars, numExceeds, matching>>

\* The stale pnext leads to an event that has left the list as well: the walk
\* executes what it reads there, registered or not.
NamedExecuteStale ==
    /\ phase = "named" /\ running = NoObject
    /\ cursor = Freed
    /\ running' \in matching
    /\ UNCHANGED <<phase, queue, active, now, delay, clientvars, numExceeds, namedvars>>

\* Or to no event at all: the walk crashes or goes round for ever, and nothing
\* more is said of this process.
NamedLost ==
    /\ phase = "named" /\ running = NoObject
    /\ cursor = Freed
    /\ phase' = "lost"
    /\ matching' = {}
    /\ UNCHANGED <<queue, active, running, now, delay, clientvars, numExceeds, cursor>>

NamedReturns ==
    /\ phase = "named" /\ running # NoObject
    /\ running' = NoObject
    /\ UNCHANGED <<phase, queue, active, now, delay, clientvars, numExceeds, namedvars>>

\* The end of the list: the function returns FALSE, whatever it has executed.
NamedEnd ==
    /\ phase = "named" /\ running = NoObject
    /\ \E i \in ContinueAt : MatchFrom(i) = 0
    /\ phase' = "loop"
    /\ cursor' = NoCursor /\ matching' = {}
    /\ UNCHANGED <<queue, active, running, now, delay, clientvars, numExceeds>>

---------------------------------------------------------------------------
(* The life of the server process.                                         *)

\* ov_ksserver_stripped_create installs the signal handler.
CreateServer ==
    /\ phase = "startup"
    /\ phase' = "created"
    /\ UNCHANGED <<queue, active, running, now, delay, clientvars, numExceeds, namedvars>>

\* ov_server_run is set before the loop, and the exec option is honoured.
StartServer ==
    /\ phase = "created"
    /\ server_run' = TRUE
    /\ IF ExecOption
       THEN phase' = "named" /\ matching' \in SUBSET Objects
       ELSE phase' = "loop" /\ UNCHANGED matching
    /\ UNCHANGED <<queue, active, running, now, delay, activitylock, signalled,
                   numExceeds, cursor>>

\* SIGTERM, SIGINT or SIGHUP, from the installation of the handler on.  The
\* interrupted nanosleep is not resumed.
Signal ==
    /\ phase \notin {"startup", "down", "lost"} /\ ~signalled
    /\ signalled' = TRUE
    /\ server_run' = FALSE
    /\ delay' = 0
    /\ UNCHANGED <<phase, queue, active, running, now, activitylock,
                   numExceeds, namedvars>>

LeaveLoop ==
    /\ phase = "loop" /\ ~server_run
    /\ phase' = "shutdown"
    /\ UNCHANGED <<queue, active, running, now, delay, clientvars, numExceeds, namedvars>>

\* ov_database_shutdown has called the shutdown method of every object, and
\* each of them unregisters its object.
ShutdownDone ==
    /\ phase = "shutdown" /\ active = {}
    /\ phase' = "down"
    /\ UNCHANGED <<queue, active, running, now, delay, clientvars, numExceeds, namedvars>>

---------------------------------------------------------------------------
(* Time.                                                                   *)

Tick ==
    /\ phase \notin {"down", "lost"}
    /\ \/ now < MaxTime /\ now' = now + 1
       \/ now = MaxTime /\ delay > 0 /\ now' = now
    /\ delay' = IF delay > 0 THEN delay - 1 ELSE 0
    /\ UNCHANGED <<phase, queue, active, running, clientvars, numExceeds, namedvars>>

\* The system time or pdb->timeoffset is changed; a sleep is not affected.
AdjustClock ==
    /\ ClockJumps
    /\ phase \notin {"down", "lost"}
    /\ now' \in 0..MaxTime
    /\ now' < now
    /\ UNCHANGED <<phase, queue, active, running, delay, clientvars, numExceeds,
                   namedvars>>

---------------------------------------------------------------------------
ClientStep ==
    \/ \E o \in Objects :
        \/ Register(o)
        \/ Unregister(o)
        \/ \E t \in Times : SetAbsEventTime(o, t)
        \/ \E span \in 0..MaxSpan : SetRelEventTime(o, span)
    \/ SetActivityLock
    \/ \E b \in RunValues : SetServerRun(b)

SchedulerStep ==
    \/ ScheduleLocked \/ ScheduleNothingDue \/ ScheduleDue
    \/ ExecuteReturns \/ Wake
    \/ NamedExecute \/ NamedExecuteStale \/ NamedLost \/ NamedReturns \/ NamedEnd

ServerStep ==
    \/ CreateServer \/ StartServer \/ LeaveLoop \/ ShutdownDone

Done == phase \in {"down", "lost"} /\ UNCHANGED vars

Next == ClientStep \/ SchedulerStep \/ ServerStep \/ Signal \/ Tick
        \/ AdjustClock \/ Done

Spec == Init /\ [][Next]_vars

\* The thread is not stopped, the methods of objects return, time passes, and
\* ov_database_shutdown goes on to the next object.
Fairness ==
    /\ WF_vars(SchedulerStep \/ ServerStep) /\ WF_vars(Tick)
    /\ WF_vars(phase = "shutdown" /\ \E o \in active : Unregister(o))

FairSpec == Spec /\ Fairness

---------------------------------------------------------------------------
ServerTypeOK ==
    /\ phase \in Phases
    /\ running \in AnyObject
    /\ now \in 0..MaxTime
    /\ delay \in 0..1
    /\ activitylock \in BOOLEAN
    /\ server_run \in BOOLEAN
    /\ signalled \in BOOLEAN
    /\ numExceeds \in 0..MaxExceeds
    /\ cursor \in Cursors
    /\ matching \subseteq Objects

\* The list holds events of objects; flags, locals and the clock have their
\* values.
TypeOK ==
    /\ ServerTypeOK
    /\ queue \in Seq(Events(Objects))
    /\ active \subseteq Objects

\* The list stays ordered by time through every insertion, removal and change
\* of an event time: only then may schedulenextevent look at the head alone.
QueueSorted == Sorted(queue)

\* OV_OS_ACTIVE says exactly that the object has an event, and there is never
\* a second one: unregister frees one event only, and the object is deleted
\* after it.
ActiveIffQueued ==
    /\ OnePerObject(queue)
    /\ active = ObjectsOf(queue)

\* ov_scheduler_getnexteventtime looks at the SECOND event of the list, for
\* the method that is running ("if there is an event running").
Never == MaxTime + MaxSpan + 1

getnexteventtime_First ==
    IF queue # <<>> THEN Until(queue[1].time) ELSE Never

getnexteventtime ==
    IF ~activitylock /\ Len(queue) > 1 THEN Until(queue[2].time) ELSE Never

\* For a method that has not moved its own event, the result is the time to
\* the earliest event of the OTHER objects, wherever its own event stands:
\* RootComTask sleeps for as long, and must not sleep into another event.
NextEventTimeIsOthers ==
    \A i \in 1..Len(queue) :
        /\ phase = "exec" /\ ~activitylock
        /\ queue[i].obj = running
        /\ queue[i].time <= now
        =>  LET others == {queue[j].time : j \in (1..Len(queue)) \ {i}}
            IN  getnexteventtime =
                    IF others = {} THEN Never ELSE Until(Min(others))

\* The server never sleeps past the time of the first event, whatever the
\* method that has just run did to the list.
SleepsNotPastDue ==
    phase = "sleep" /\ delay > 0 /\ queue # <<>> /\ ~activitylock
        => now + delay <= Head(queue).time

\* The list implements a set of objects with times: whatever clients do to the
\* list from inside executed methods, the object that is executed is registered,
\* overdue and an earliest one, is alone, and is not executed under the lock;
\* nobody but clients and the execution itself changes an event time.  Only
\* before the server loop begins, and only after an object has been removed by
\* its own named execution, may an object that is not registered be executed:
\* the walk over freed memory never reaches into the server loop.
Abstract == INSTANCE TimedObjects WITH
    timeOf <- [o \in ObjectsOf(queue) |->
                  (CHOOSE e \in Range(queue) : e.obj = o).time],
    serving <- phase \notin {"startup", "created", "named", "lost"},
    astray <- cursor = Freed,
    locked <- activitylock
ImplementsTimedObjects == Abstract!ASpec

Due(o) == \E i \in 1..Len(queue) : queue[i].obj = o /\ queue[i].time < now

\* A step after which every event that is overdue was so before: no client has
\* asked for a time in the past.
NothingBackdated ==
    \A i \in 1..Len(queue') :
        queue'[i].time >= now \/ \E j \in 1..Len(queue) : queue[j] = queue'[i]

\* While the server runs unlocked and clients do not go on backdating events, an
\* object whose time has passed is executed (or taken back by a client): a
\* reinserted event never starves another one.
DueEventRuns ==
    <>[][NothingBackdated]_vars =>
        \A o \in Objects :
            Due(o) /\ phase = "loop"
                ~> running = o \/ ~Due(o) \/ activitylock \/ ~server_run

\* Once the run flag is cleared in a running server, the server loop is left
\* and the process comes down with no object registered.
StopRequestEndsServer ==
    ~server_run /\ phase \in {"loop", "exec", "sleep", "shutdown"}
        ~> server_run \/ (phase = "down" /\ queue = <<>>)
===========================================================================
