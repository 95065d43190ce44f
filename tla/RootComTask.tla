---------------------------- MODULE RootComTask ----------------------------
(***************************************************************************)
(* The communication task of ksbase (RootComTask.c, ComTask.c).  It is one *)
(* object of the scheduler, and inside its execution it is a scheduler of  *)
(* its own: it walks along the list of ComTask objects (listeners,         *)
(* channels, client handlers, server representatives), executes the due    *)
(* ones and sleeps, until the next event of ANOTHER object has come.  All  *)
(* requests of clients are handled in the typemethods of ComTasks: they    *)
(* create and delete ComTasks, write their variables, set the activity     *)
(* lock, end the server or move the event of another object.  The other    *)
(* active objects are one object, Other.                                   *)
(*                                                                         *)
(* Times count in seconds, and the cycle of the root task is one second.   *)
(* All times are relative to the present, which is now == 1: when a second *)
(* passes, every stored time moves one second back, and 0 stands for all   *)
(* the past.  (Nothing in the code tells two past times apart.)  So the    *)
(* clock needs no bound and liveness is checked on endless time.           *)
(***************************************************************************)
EXTENDS Integers, EventQueue

CONSTANTS
    Tasks,            \* the ComTask objects
    ServerReps,       \* those of class ServerRep: a request may delete them
    NewTasks,         \* those that requests create
    InitialList,      \* the ComTasks that the libraries create on start
    NoTask, Freed,    \* a NULL pointer and a pointer to a freed object
    Root, Other,      \* the objects with an event
    OtherCycle,       \* cycle time of Other
    Intervals,        \* values of cycInterval
    LockValues,       \* what clients write to the activity lock
    MayMoveOther      \* may a request move the event of Other?

ASSUME TasksAssumption ==
    /\ ServerReps \subseteq Tasks /\ NewTasks \subseteq Tasks
    /\ InitialList \in Seq(Tasks) /\ IsInjective(InitialList)
    /\ NoTask \notin Tasks /\ Freed \notin Tasks /\ NoTask # Freed /\ Root # Other
ASSUME BoundsAssumption ==
    /\ OtherCycle \in Nat /\ Intervals \subseteq Nat
    /\ LockValues \subseteq BOOLEAN
    /\ MayMoveOther \in BOOLEAN

VARIABLES
    phase,            \* where the thread is
    queue,            \* the event list of the scheduler
    list,             \* the association AssocComTaskList
    actimode, cycInterval, NextExecTime,
    childTask, nextChild, time_next, earliestChild,  \* locals of execute
    before,           \* was time_next still to come at the end of the walk?
    delay,            \* what is left of the current sleep
    activitylock, server_run, signalled,
    intruded          \* history: what requests did behind the root task's back

taskvars == <<list, actimode, cycInterval, NextExecTime>>
locals == <<childTask, nextChild, time_next, earliestChild, before>>
server == <<activitylock, server_run, signalled>>
vars == <<phase, queue, taskvars, locals, delay, server, intruded>>

now == 1
Earlier(time) == IF time > 0 THEN time - 1 ELSE 0

Pointers == Tasks \cup {NoTask, Freed}
Linked == ToSet(list)
FirstChild == IF list = <<>> THEN NoTask ELSE Head(list)
NextChild(t) ==
    LET i == SelectInSeq(list, LAMBDA u : u = t)
    IN  IF i \in 1..(Len(list) - 1) THEN list[i + 1] ELSE NoTask

Init ==
    /\ phase = "startup" /\ queue = <<>>
    /\ list = InitialList
    /\ actimode = [t \in Tasks |-> 1]
    /\ cycInterval \in [Tasks -> Intervals]
    /\ NextExecTime = [t \in Tasks |-> 0]
    /\ childTask = NoTask /\ nextChild = NoTask
    /\ time_next = 0 /\ earliestChild = 0 /\ before = FALSE
    /\ delay = 0
    /\ activitylock = FALSE /\ server_run = TRUE /\ signalled = FALSE
    /\ intruded = {}

\* The startup methods register the root task and the other object.
Startup ==
    /\ phase = "startup"
    /\ phase' = "loop"
    /\ queue' = setabseventtime(register(register(queue, Other, now), Root, now),
                                Root, now + 1)
    /\ UNCHANGED <<taskvars, locals, delay, server, intruded>>

---------------------------------------------------------------------------
(* The server loop, as in module Scheduler.                                *)

Executes(o) ==
    /\ phase = "loop" /\ server_run /\ ~activitylock
    /\ HeadDue(queue, now) /\ Head(queue).obj = o

RunOther ==
    /\ Executes(Other)
    /\ queue' = setabseventtime(requeuehead(queue, now), Other, now + OtherCycle)
    /\ UNCHANGED <<phase, taskvars, locals, delay, server, intruded>>

LeaveLoop ==
    /\ phase = "loop" /\ ~server_run
    /\ phase' = "down"
    /\ queue' = unregister(unregister(queue, Root), Other)
    /\ UNCHANGED <<taskvars, locals, delay, server, intruded>>

Signal ==
    /\ phase # "down" /\ ~signalled
    /\ signalled' = TRUE /\ server_run' = FALSE
    /\ delay' = 0
    /\ UNCHANGED <<phase, queue, taskvars, locals, activitylock, intruded>>

---------------------------------------------------------------------------
(* ksbase_RootComTask_execute.                                             *)

\* A span is limited to one second, "never" included; an event that is over
\* leaves no time.
Limited(span) == IF span > 1 THEN 1 ELSE IF span < 0 THEN 0 ELSE span

\* The next event is the second one of the list, behind the root task's own.
TimeNext_FullSecond(q) == now + 1
TimeNext(q) ==
    IF activitylock \/ Len(q) < 2 THEN now + 1 ELSE now + Limited(q[2].time - now)

BeginWalk(limit) ==
    /\ phase' = "walk"
    /\ childTask' = FirstChild
    /\ earliestChild' = limit

RunRoot ==
    /\ Executes(Root)
    /\ queue' = requeuehead(queue, now)
    /\ time_next' = TimeNext(queue')
    /\ BeginWalk(time_next')
    /\ intruded' = {}
    /\ UNCHANGED <<taskvars, nextChild, before, delay, server>>

calcExec(t) == actimode[t] # 0 /\ NextExecTime[t] <= now

InWalk == phase = "walk" /\ childTask \in Tasks

SkipChild ==
    /\ InWalk /\ ~calcExec(childTask)
    /\ nextChild' = NextChild(childTask)
    /\ childTask' = nextChild'
    /\ UNCHANGED <<phase, queue, taskvars, time_next, earliestChild, before,
                   delay, server, intruded>>

\* The next child is read before the typemethod is called, which may delete
\* its own object.
RunChild ==
    /\ InWalk /\ calcExec(childTask)
    /\ nextChild' = NextChild(childTask)
    /\ NextExecTime' = [NextExecTime EXCEPT ![childTask] = now + cycInterval[childTask]]
    /\ earliestChild' = IF NextExecTime'[childTask] < earliestChild
                        THEN NextExecTime'[childTask] ELSE earliestChild
    /\ phase' = "child"
    /\ UNCHANGED <<queue, list, actimode, cycInterval, childTask, time_next,
                   before, delay, server, intruded>>

NextPointer_ReadAfter ==
    IF childTask \in Linked THEN NextChild(childTask) ELSE Freed
NextPointer == nextChild

ChildReturns ==
    /\ phase = "child"
    /\ phase' = "walk"
    /\ childTask' = NextPointer
    /\ UNCHANGED <<queue, taskvars, nextChild, time_next, earliestChild, before,
                   delay, server, intruded>>

\* A freed object is taken for a ComTask: its memory may lead anywhere.
FollowFreed ==
    /\ phase = "walk" /\ childTask = Freed
    /\ childTask' \in Linked \cup {NoTask}
    /\ UNCHANGED <<phase, queue, taskvars, nextChild, time_next, earliestChild,
                   before, delay, server, intruded>>

\* The end of the list: the time is read once, for the length of the sleep and
\* for the end of the loop behind the sleep.  The option KSBASE_SCHED_LIMITSLEEP
\* limits the sleep to milliseconds, which are no time here.
SleepTimes == {0, Limited(earliestChild - now)}

EndWalk ==
    /\ phase = "walk" /\ childTask = NoTask
    /\ before' = (time_next > now)
    /\ delay' \in SleepTimes
    /\ phase' = "sleep"
    /\ UNCHANGED <<queue, taskvars, childTask, nextChild, time_next,
                   earliestChild, server, intruded>>

\* The loop goes on until the next event, and for as long as the lock is set.
GoesOn_Always == TRUE
GoesOn_LockNotTested == before
GoesOn == before \/ activitylock

NextWalk ==
    /\ phase = "sleep" /\ delay = 0 /\ GoesOn
    /\ BeginWalk(time_next)
    /\ UNCHANGED <<queue, taskvars, nextChild, time_next, before, delay, server, intruded>>

RescheduledAt_Registered == register(queue, Root, now + 1)
RescheduledAt == setabseventtime(queue, Root, now + 1)

RootReturns ==
    /\ phase = "sleep" /\ delay = 0 /\ ~GoesOn
    /\ phase' = "loop"
    /\ queue' = RescheduledAt
    /\ UNCHANGED <<taskvars, locals, delay, server, intruded>>

---------------------------------------------------------------------------
(* What a typemethod does to the objects of this module.                   *)

\* The constructor links the new task behind all others.
CreateTask(t) ==
    /\ phase = "child" /\ t \notin Linked
    /\ list' = Append(list, t)
    /\ NextExecTime' = [NextExecTime EXCEPT ![t] = now + cycInterval[t]]
    /\ actimode' = [actimode EXCEPT ![t] = 1]
    /\ UNCHANGED <<phase, queue, cycInterval, locals, delay, server, intruded>>

\* The destructor unlinks the task; pointers to it are left alone.
AfterFree(pointer, t) == IF pointer = t THEN Freed ELSE pointer

DeleteTask(t) ==
    /\ phase = "child" /\ t \in Linked
    /\ t = childTask \/ t \in ServerReps
    /\ list' = RemoveFirst(list, t)
    /\ nextChild' = AfterFree(nextChild, t)
    /\ intruded' = IF t = childTask THEN intruded ELSE intruded \cup {"deleted"}
    /\ UNCHANGED <<phase, queue, actimode, cycInterval, NextExecTime, childTask,
                   time_next, earliestChild, before, delay, server>>

SetActimode(t, mode) ==
    /\ phase = "child" /\ t \in Linked
    /\ actimode' = [actimode EXCEPT ![t] = mode]
    /\ UNCHANGED <<phase, queue, list, cycInterval, NextExecTime, locals, delay, server, intruded>>

SetCycInterval(t, value) ==
    /\ phase = "child" /\ t \in Linked
    /\ cycInterval' = [cycInterval EXCEPT ![t] = value]
    /\ UNCHANGED <<phase, queue, list, actimode, NextExecTime, locals, delay, server, intruded>>

SetActivityLock(b) ==
    /\ phase = "child"
    /\ activitylock' = b
    /\ UNCHANGED <<phase, queue, taskvars, locals, delay, server_run, signalled, intruded>>

\* fb_task_proctime_set of the urtask, for instance.
MoveOther ==
    /\ phase = "child" /\ MayMoveOther
    /\ queue' = setabseventtime(queue, Other, now)
    /\ intruded' = intruded \cup {"moved"}
    /\ UNCHANGED <<phase, taskvars, locals, delay, server>>

Tick ==
    /\ phase \notin {"startup", "down"}
    /\ queue' = [i \in 1..Len(queue) |-> Event(queue[i].obj, Earlier(queue[i].time))]
    /\ NextExecTime' = [t \in Tasks |-> Earlier(NextExecTime[t])]
    /\ time_next' = Earlier(time_next)
    /\ earliestChild' = Earlier(earliestChild)
    /\ delay' = Earlier(delay)
    /\ UNCHANGED <<phase, list, actimode, cycInterval, childTask, nextChild, before,
                   server, intruded>>

Done == phase = "down" /\ UNCHANGED vars

RequestStep ==
    \/ \E t \in Tasks :
        \/ t \in NewTasks /\ CreateTask(t)
        \/ DeleteTask(t)
        \/ \E mode \in {0, 1} : SetActimode(t, mode)
        \/ \E value \in Intervals : SetCycInterval(t, value)
    \/ \E b \in LockValues : SetActivityLock(b)
    \/ MoveOther

RootStep ==
    \/ RunRoot \/ SkipChild \/ RunChild \/ ChildReturns \/ FollowFreed \/ EndWalk
    \/ NextWalk \/ RootReturns

Next ==
    \/ Startup \/ RunOther \/ LeaveLoop \/ Signal
    \/ RootStep \/ RequestStep \/ Tick \/ Done

Spec == Init /\ [][Next]_vars

\* The thread is not stopped, typemethods return, sleeps end, time passes.
Fairness ==
    /\ WF_vars(Startup) /\ WF_vars(RunOther) /\ WF_vars(LeaveLoop)
    /\ WF_vars(RootStep) /\ WF_vars(ChildReturns) /\ WF_vars(Tick)

FairSpec == Spec /\ Fairness

---------------------------------------------------------------------------
\* The lists, the locals of ksbase_RootComTask_execute and the times have their
\* values.
TypeOK ==
    /\ phase \in {"startup", "loop", "walk", "child", "sleep", "down"}
    /\ queue \in Seq(Events({Root, Other}))
    /\ list \in Seq(Tasks) /\ IsInjective(list)
    /\ actimode \in [Tasks -> {0, 1}]
    /\ cycInterval \in [Tasks -> Intervals] /\ NextExecTime \in [Tasks -> Nat]
    /\ childTask \in Pointers /\ nextChild \in Pointers
    /\ time_next \in Nat /\ earliestChild \in Nat /\ before \in BOOLEAN
    /\ delay \in 0..1
    /\ activitylock \in BOOLEAN /\ server_run \in BOOLEAN /\ signalled \in BOOLEAN
    /\ intruded \subseteq {"deleted", "moved"}

\* "iterates over all existing ComTask Objs" (RootComTask.c:176): whatever the
\* typemethods created, and although they delete themselves, the walk stands on
\* an object that exists - until a request deletes an object that is not the
\* executed one.
WalkOnExisting ==
    phase = "walk" => childTask \in Linked \cup {NoTask} \/ "deleted" \in intruded

\* "loop until next event in ov_scheduler" (RootComTask.c:222): the root task
\* does not sleep past the event of another object, unless a request has moved
\* that event during this very execution.
NotPastNextEvent ==
    phase = "sleep" /\ delay > 0 /\ ~activitylock /\ "moved" \notin intruded =>
        \A i \in 1..Len(queue) :
            queue[i].obj = Other => now + delay <= queue[i].time

\* Both objects keep exactly one event through everything the root task does
\* in its loop: without it communication would be over.
BothScheduled ==
    phase \notin {"startup", "down"}
        => OnePerObject(queue) /\ ObjectsOf(queue) = {Root, Other}

\* What the loop of the root task preserves.
RootInv == TypeOK /\ BothScheduled

OtherDue == \E i \in 1..Len(queue) : queue[i].obj = Other /\ queue[i].time < now

\* ComTasks are not created for ever: each one is executed in the walk in which
\* it is created, and one that creates the next in every execution would keep
\* the walk from ending.
CreationEnds == <>[][Len(list') <= Len(list)]_vars

TaskDue(t) == t \in Linked /\ calcExec(t)

\* "prevents the communication system from freezing when activity lock is set
\* by a ks-command" (RootComTask.c:302): a due ComTask is executed, also while
\* the lock is set.
TasksServed == \A t \in Tasks : TaskDue(t) ~> ~TaskDue(t) \/ ~server_run

\* The inner loop gives the thread back: an event of another object is executed
\* once it is due, and a stop request ends the server, unless the lock is set.
ThreadGivenBack ==
    CreationEnds =>
        /\ OtherDue ~> ~OtherDue \/ activitylock \/ ~server_run
        /\ ~server_run ~> phase = "down" \/ activitylock
===========================================================================
