------------------------------- MODULE FbTask -------------------------------
(***************************************************************************)
(* Tasks and function blocks of the library fb (fb_task.c,                 *)
(* fb_functionblock.c).  One task, the urtask, is registered with the      *)
(* scheduler; its execution walks down the task lists and executes every   *)
(* task and block that is switched on and due.  All of them see the same   *)
(* time, that of the start of the walk.  The method of a block is user     *)
(* code: it may fail (an exception, or its maximum calculation time is     *)
(* exceeded) and it may write the variables of every task.  The only other *)
(* object with an event is the communication task, in which the requests   *)
(* of clients are served.  Times count in units of one second.             *)
(***************************************************************************)
EXTENDS Integers, EventQueue

CONSTANTS
    Tasks,            \* all tasks; blocks are tasks, too
    Blocks,           \* those with a typemethod
    UrTask,           \* the task at /Tasks/UrTask
    NoTask,
    ComTask,          \* the communication task
    InitialLists,     \* the task lists before any client has changed them; a
                      \* task has one parent at most
    MaxTime,          \* the clock stops here (bound)
    CycTimes,         \* cycle times that clients set
    ProcTimes,        \* proctimes that clients set, for each task
    ClientModes       \* activity modes that clients set, for each task

OFF == 0
ON == 1
UNLINK == 2
ONCE == 3
CATCHUP == 10
Modes == {OFF, ON, UNLINK, ONCE, CATCHUP}

ASSUME TasksAssumption ==
    /\ UrTask \in Tasks \ Blocks /\ Blocks \subseteq Tasks
    /\ NoTask \notin Tasks /\ ComTask \notin Tasks
    /\ InitialLists \in [Tasks -> Seq(Tasks \ {UrTask})]
    /\ \A t \in Tasks : IsInjective(InitialLists[t])
    /\ \A t, q \in Tasks :
        ToSet(InitialLists[t]) \cap ToSet(InitialLists[q]) # {} => t = q
ASSUME BoundsAssumption ==
    /\ MaxTime \in Nat \ {0} /\ \A t \in Tasks : ProcTimes[t] \subseteq Nat \ {0}
    /\ CycTimes \subseteq Nat /\ ClientModes \in [Tasks -> SUBSET Modes]

VARIABLES
    phase,            \* "startup", "up" or "down"
    now,              \* ov_time_gettime()
    queue,            \* the event list of the scheduler
    serving,          \* is the communication task being executed?
    ltc,              \* the time of the current (or last) walk
    stack,            \* the execute methods that are running
    tasklist,         \* the association fb_tasklist
    actimode, proctime, cyctime, ErrState,
    eexreq            \* external execution request of a block

vars == <<phase, now, queue, serving, ltc, stack, tasklist, actimode, proctime,
          cyctime, ErrState, eexreq>>

Top == Len(stack)
Linked(t) == {c \in Tasks : Contains(tasklist[t], c)}
Parents(t) == {q \in Tasks : Contains(tasklist[q], t)}

\* Ov_GetFirstChild and Ov_GetNextChild.
FirstChild(list) == IF list = <<>> THEN NoTask ELSE Head(list)
NextChild(list, c) ==
    LET i == SelectInSeq(list, LAMBDA d : d = c)
    IN  IF i \in 1..(Len(list) - 1) THEN list[i + 1] ELSE NoTask

Init ==
    /\ phase = "startup"
    /\ now = 1 /\ ltc = 0
    /\ queue = <<>> /\ serving = FALSE
    /\ stack = <<>>
    /\ tasklist = InitialLists
    /\ actimode \in [Tasks -> {ON}]
    /\ proctime = [t \in Tasks |-> 0]
    /\ cyctime \in [Tasks -> CycTimes]
    /\ ErrState = [t \in Tasks |-> 0]
    /\ eexreq = [b \in Blocks |-> FALSE]

---------------------------------------------------------------------------
(* The time of the next execution.                                         *)

\* fb_set_proctime stays in the old cycle: whole cycles are added until the
\* next one would lie in the future.
fb_set_proctime(proc, cyc) ==
    CASE proc >= now -> proc
      [] proc < now /\ cyc > 0 -> proc + ((now - proc) \div cyc) * cyc
      [] proc < now /\ cyc = 0 -> now

\* Cycles are added, at least one, until the limit is reached or passed.
AddCyclesUpTo(proc, cyc, limit) ==
    IF proc + cyc >= limit THEN proc + cyc
    ELSE proc + ((limit - proc + cyc - 1) \div cyc) * cyc

\* fb_task_setNextProcTime.
NextProctime_Kept(mode, proc, cyc) == proc
NextProctime(mode, proc, cyc) ==
    CASE mode = ON /\ cyc > 0 -> AddCyclesUpTo(proc, cyc, ltc)
      [] mode = CATCHUP -> proc + cyc
      [] OTHER -> proc

NextMode(mode) == IF mode \in {ON, UNLINK, CATCHUP} THEN mode ELSE OFF

\* The urtask without a cycle time runs every second.
UrProctime(proc, cyc) == IF cyc = 0 THEN ltc + 1 ELSE proc

---------------------------------------------------------------------------
(* The accessors, called by the communication task and by typemethods.     *)

InMethod == stack # <<>> /\ stack[Top].pc = "method"
ClientRuns == phase = "up" /\ (serving \/ InMethod)

\* Switching on keeps the old cycle; the event of the urtask is not moved.
SetActimode(t, mode) ==
    /\ ClientRuns /\ mode # actimode[t]
    /\ actimode' = [actimode EXCEPT ![t] = mode]
    /\ proctime' = [proctime EXCEPT ![t] =
                        IF mode = ON THEN fb_set_proctime(@, cyctime[t]) ELSE @]
    /\ ErrState' = [ErrState EXCEPT ![t] = IF mode = OFF THEN @ ELSE 0]
    /\ UNCHANGED <<phase, now, queue, serving, ltc, stack, tasklist, cyctime, eexreq>>

SetCyctime(t, cyc) ==
    /\ ClientRuns
    /\ cyctime' = [cyctime EXCEPT ![t] = cyc]
    /\ UNCHANGED <<phase, now, queue, serving, ltc, stack, tasklist, actimode,
                   proctime, ErrState, eexreq>>

\* The urtask is taken out of the scheduler and registered anew.
MovedQueue_NotRegistered(time) == unregister(queue, UrTask)
MovedQueue(time) ==
    setabseventtime(register(unregister(queue, UrTask), UrTask, now), UrTask, time)

SetProctime(t, time) ==
    /\ ClientRuns
    /\ proctime' = [proctime EXCEPT ![t] =
                        IF t = UrTask THEN fb_set_proctime(time, cyctime[t]) ELSE time]
    /\ queue' = IF t = UrTask THEN MovedQueue(proctime'[t]) ELSE queue
    /\ UNCHANGED <<phase, now, serving, ltc, stack, tasklist, actimode, cyctime,
                   ErrState, eexreq>>

\* An input of a block is changed (fb_object_setvar).
SetInput(b) ==
    /\ ClientRuns
    /\ eexreq' = [eexreq EXCEPT ![b] = TRUE]
    /\ UNCHANGED <<phase, now, queue, serving, ltc, stack, tasklist, actimode,
                   proctime, cyctime, ErrState>>

\* In a method, the lists that are being walked and what is being executed.
Walked == {stack[i].task : i \in 1..(Top - 1)}
Executed == {stack[i].task : i \in 1..Top}

\* Clients link and unlink tasks; the urtask is nobody's child.  Methods do so
\* within the walk: that of a step links the next one to the end of the list
\* both are in.
LinkTask(t, c) ==
    /\ ClientRuns
    /\ c # UrTask /\ Parents(c) = {} /\ c \notin Executed
    /\ tasklist' = [tasklist EXCEPT ![t] = Append(@, c)]
    /\ UNCHANGED <<phase, now, queue, serving, ltc, stack, actimode, proctime,
                   cyctime, ErrState, eexreq>>

\* From a list that is being walked a method unlinks its own block only, as
\* that of a step does; a chart that resets its steps does not walk them yet.
UnlinkTask(t, c) ==
    /\ ClientRuns
    /\ c \in Linked(t) /\ (t \in Walked => c = stack[Top].task)
    /\ tasklist' = [tasklist EXCEPT ![t] = RemoveFirst(@, c)]
    /\ UNCHANGED <<phase, now, queue, serving, ltc, stack, actimode, proctime,
                   cyctime, ErrState, eexreq>>

---------------------------------------------------------------------------
(* Execution.                                                              *)

\* The guard of both execute methods.
Executable(t, time) == proctime[t] <= time /\ actimode[t] # OFF

\* In a frame, cur is the child that is looked at and next the one that was
\* behind it before its execution; missed are the children still to come.
ChildrenFrame(t) ==
    [task |-> t, pc |-> "children", cur |-> FirstChild(tasklist[t]),
     next |-> NoTask, missed |-> Linked(t)]
MethodFrame(b) ==
    [task |-> b, pc |-> "method", cur |-> NoTask, next |-> NoTask, missed |-> {}]

\* The walk of a parent goes on to the child it has remembered, not to the one
\* that is behind cur in the lists the execution has left.
Advance_ReadAfter(f, lists) ==
    [f EXCEPT !.cur = NextChild(lists[f.task], f.cur), !.missed = @ \ {f.cur}]
Advance(f, lists) ==
    [f EXCEPT !.cur = f.next, !.missed = @ \ {f.cur}]

AdvanceLast(frames, lists) ==
    IF frames = <<>> THEN frames
    ELSE [frames EXCEPT ![Len(frames)] = Advance(@, lists)]

\* The scheduler calls fb_task_run of the urtask.
RunUrTask ==
    /\ phase = "up" /\ stack = <<>> /\ ~serving
    /\ HeadDue(queue, now) /\ Head(queue).obj = UrTask
    /\ ltc' = now
    /\ IF Executable(UrTask, now)
       THEN /\ stack' = <<ChildrenFrame(UrTask)>>
            /\ queue' = requeuehead(queue, now)
            /\ UNCHANGED proctime
       ELSE LET cyc == cyctime[UrTask]
                proc == IF actimode[UrTask] = OFF /\ cyc > 0
                        THEN AddCyclesUpTo(proctime[UrTask], cyc, now + 1)
                        ELSE IF cyc = 0 THEN now + 1 ELSE proctime[UrTask]
            IN  /\ proctime' = [proctime EXCEPT ![UrTask] = proc]
                /\ queue' = setabseventtime(requeuehead(queue, now), UrTask, proc)
                /\ UNCHANGED stack
    /\ UNCHANGED <<phase, now, serving, tasklist, actimode, cyctime, ErrState, eexreq>>

InChildren == stack # <<>> /\ stack[Top].pc = "children"
Child == stack[Top].cur
Remembering ==
    [stack EXCEPT ![Top].next = NextChild(tasklist[stack[Top].task], Child)]

SkipChild ==
    /\ InChildren /\ Child # NoTask /\ ~Executable(Child, ltc)
    /\ stack' = AdvanceLast(Remembering, tasklist)
    /\ UNCHANGED <<phase, now, queue, serving, ltc, tasklist, actimode, proctime,
                   cyctime, ErrState, eexreq>>

\* The input connections are triggered and may set the external execution
\* request; a block is calculated only on such a request or when its internal
\* one (iexreq, a parameter) is set.
ExecuteChild ==
    /\ InChildren /\ Child # NoTask /\ Executable(Child, ltc)
    /\ \E request \in BOOLEAN :
        IF Child \in Blocks /\ (eexreq[Child] \/ request)
        THEN /\ stack' = Append(Remembering, MethodFrame(Child))
             /\ eexreq' = [eexreq EXCEPT ![Child] = FALSE]
        ELSE /\ stack' = Append(Remembering, ChildrenFrame(Child))
             /\ UNCHANGED eexreq
    /\ UNCHANGED <<phase, now, queue, serving, ltc, tasklist, actimode, proctime,
                   cyctime, ErrState>>

MethodReturns ==
    /\ InMethod
    /\ stack' = [stack EXCEPT ![Top] = ChildrenFrame(stack[Top].task)]
    /\ UNCHANGED <<phase, now, queue, serving, ltc, tasklist, actimode, proctime,
                   cyctime, ErrState, eexreq>>

\* A failed block is switched off and left: no outputs are sent, its children
\* are not executed and its proctime is not advanced.
MethodFails ==
    /\ InMethod
    /\ actimode' = [actimode EXCEPT ![stack[Top].task] = OFF]
    /\ ErrState' = [ErrState EXCEPT ![stack[Top].task] = 1]
    /\ stack' = AdvanceLast(Front(stack), tasklist)
    /\ UNCHANGED <<phase, now, queue, serving, ltc, tasklist, proctime, cyctime, eexreq>>

\* All children are done: setNextProcTime, and for the urtask the rest of
\* fb_task_run.  A task in mode UNLINK leaves the list of its parent.
Leave ==
    /\ InChildren /\ Child = NoTask
    /\ LET t == stack[Top].task
           next == NextProctime(actimode[t], proctime[t], cyctime[t])
       IN  /\ proctime' = [proctime EXCEPT ![t] =
                              IF t = UrTask THEN UrProctime(next, cyctime[t]) ELSE next]
           /\ actimode' = [actimode EXCEPT ![t] = NextMode(@)]
           /\ tasklist' = IF actimode[t] = UNLINK
                          THEN [q \in Tasks |-> RemoveFirst(tasklist[q], t)]
                          ELSE tasklist
           /\ queue' = IF t = UrTask
                       THEN setabseventtime(queue, UrTask, proctime'[t]) ELSE queue
    /\ stack' = AdvanceLast(Front(stack), tasklist')
    /\ UNCHANGED <<phase, now, serving, ltc, cyctime, ErrState, eexreq>>

---------------------------------------------------------------------------
\* The communication task serves requests and comes back a second later.
ServeClients ==
    /\ phase = "up" /\ stack = <<>> /\ ~serving
    /\ HeadDue(queue, now) /\ Head(queue).obj = ComTask
    /\ queue' = requeuehead(queue, now)
    /\ serving' = TRUE
    /\ UNCHANGED <<phase, now, ltc, stack, tasklist, actimode, proctime, cyctime,
                   ErrState, eexreq>>

ServeReturns ==
    /\ serving
    /\ serving' = FALSE
    /\ queue' = setabseventtime(queue, ComTask, now + 1)
    /\ UNCHANGED <<phase, now, ltc, stack, tasklist, actimode, proctime, cyctime,
                   ErrState, eexreq>>

\* The startup methods: what is switched on stays in its old cycle, and the
\* urtask and the communication task are registered.
Startup ==
    /\ phase = "startup"
    /\ phase' = "up"
    /\ proctime' = [t \in Tasks |->
                        IF actimode[t] = ON THEN fb_set_proctime(proctime[t], cyctime[t])
                        ELSE proctime[t]]
    /\ queue' = setabseventtime(
                    register(register(queue, ComTask, now), UrTask, now),
                    UrTask, proctime'[UrTask])
    /\ UNCHANGED <<now, serving, ltc, stack, tasklist, actimode, cyctime, ErrState,
                   eexreq>>

Shutdown ==
    /\ phase = "up" /\ stack = <<>> /\ ~serving
    /\ phase' = "down"
    /\ queue' = unregister(unregister(queue, UrTask), ComTask)
    /\ UNCHANGED <<now, serving, ltc, stack, tasklist, actimode, proctime, cyctime,
                   ErrState, eexreq>>

Tick ==
    /\ phase = "up" /\ now < MaxTime
    /\ now' = now + 1
    /\ UNCHANGED <<phase, queue, serving, ltc, stack, tasklist, actimode, proctime,
                   cyctime, ErrState, eexreq>>

Done == phase = "down" /\ UNCHANGED vars

Next ==
    \/ \E t \in Tasks :
        \/ \E mode \in ClientModes[t] : SetActimode(t, mode)
        \/ \E cyc \in CycTimes : SetCyctime(t, cyc)
        \/ \E time \in ProcTimes[t] : SetProctime(t, time)
        \/ \E c \in Tasks : LinkTask(t, c) \/ UnlinkTask(t, c)
    \/ \E b \in Blocks : SetInput(b)
    \/ RunUrTask \/ SkipChild \/ ExecuteChild \/ MethodReturns \/ MethodFails
    \/ Leave \/ ServeClients \/ ServeReturns
    \/ Startup \/ Shutdown \/ Tick \/ Done

Spec == Init /\ [][Next]_vars

\* The thread goes on, methods and requests end, time passes.
Fairness ==
    /\ WF_vars(\/ Startup \/ RunUrTask \/ SkipChild \/ ExecuteChild \/ MethodReturns
               \/ Leave \/ ServeClients \/ ServeReturns)
    /\ WF_vars(Tick)

FairSpec == Spec /\ Fairness

---------------------------------------------------------------------------
FrameTypes ==
    [task : Tasks, pc : {"children", "method"}, cur : Tasks \cup {NoTask},
     next : Tasks \cup {NoTask}, missed : SUBSET Tasks]

\* Tasks, frames and lists have their values.
TypeOK ==
    /\ phase \in {"startup", "up", "down"}
    /\ now \in 0..MaxTime /\ ltc \in 0..MaxTime
    /\ queue \in Seq(Events({UrTask, ComTask}))
    /\ serving \in BOOLEAN
    /\ stack \in Seq(FrameTypes)
    /\ tasklist \in [Tasks -> Seq(Tasks \ {UrTask})]
    /\ actimode \in [Tasks -> Modes]
    /\ proctime \in [Tasks -> Nat] /\ cyctime \in [Tasks -> Nat]
    /\ ErrState \in [Tasks -> {0, 1}]
    /\ eexreq \in [Blocks -> BOOLEAN]

\* However often the urtask is moved, switched or fails, it keeps exactly one
\* event: without it no function block of the server would ever run again.
UrTaskScheduled ==
    phase = "up" => /\ OnePerObject(queue)
                    /\ ObjectsOf(queue) = {UrTask, ComTask}

\* When the walk over a task list ends, every child that was in the list at its
\* beginning and still is has been looked at, even when children left the list
\* (UNLINK) or failed in the middle of the walk.
NoChildSkipped ==
    InChildren /\ Child = NoTask => stack[Top].missed \cap Linked(stack[Top].task) = {}

\* A block that failed is off until a client switches it on, whatever its
\* parents do with the modes behind the failure.
FailedIsOff == \A t \in Tasks : ErrState[t] = 1 => actimode[t] = OFF

\* The urtask is there to run the blocks, and those that failed are not run.
FbInv == TypeOK /\ UrTaskScheduled /\ FailedIsOff

\* The communication task is served although the urtask reinserts itself at
\* times that may be over: clients can reach the server whatever they have done
\* to tasks and blocks, other than to set the urtask to UNLINK.
ClientsAreServed ==
    phase = "up" /\ (\E i \in 1..Len(queue) :
                        queue[i].obj = ComTask /\ queue[i].time < now)
        ~> serving \/ phase = "down" \/ actimode[UrTask] = UNLINK
===========================================================================
