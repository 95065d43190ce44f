------------------------------ MODULE TaskLib ------------------------------
(***************************************************************************)
(* The task library tasklib (Task.c, SchedulerTask.c).  A SchedulerTask    *)
(* has an event of its own in the list of ov_scheduler.c while it is       *)
(* switched on; when that event is executed, it executes the due children  *)
(* of its task list, which may be tasks with children themselves.  Classes *)
(* derived from Task override execute with the user's code, and that code  *)
(* may write the variables of any task.  The execution of a supervised     *)
(* task is aborted by a jump into its frame (module Supervise, of which    *)
(* only the frame that pjmpbuf points at is kept).                         *)
(***************************************************************************)
EXTENDS Naturals, EventQueue

CONSTANTS
    Tasks,
    SchedulerTasks,   \* those of class SchedulerTask
    UserTasks,        \* those of a derived class with its own execute
    Children,         \* the task list of each task
    MaxTime,          \* the clock stops here (bound)
    ClientModes,      \* for each task the values that clients write to actimode,
    CycleTimes,       \* cycletime,
    AlarmTimes,       \* alarmtime
    SupervisedValues, \* and supervised
    MaxEvents         \* clients stop activating at this length (bound)

ASSUME TasksAssumption ==
    /\ SchedulerTasks \subseteq Tasks /\ UserTasks \subseteq Tasks
    /\ Children \in [Tasks -> Seq(Tasks)]
ASSUME BoundsAssumption ==
    /\ MaxTime \in Nat /\ MaxEvents \in Nat
    /\ ClientModes \in [Tasks -> SUBSET (0..4)]
    /\ \A t \in Tasks : CycleTimes[t] \subseteq Nat /\ AlarmTimes[t] \subseteq Nat
    /\ SupervisedValues \in [Tasks -> SUBSET BOOLEAN]

VARIABLES
    dbPhase,          \* of the database: "startup", "up", "shutdown" or "down"
    started,          \* the scheduler tasks whose startup has run
    now,              \* ov_time_gettime()
    queue,            \* the event list of the scheduler
    actimode, cycletime, alarmtime, proctime, supervised, ErrState,
    stack,            \* the execute methods that are running
    jump,             \* the frame that SIGALRM jumps into, 0 for none
    aborted           \* history: the tasks whose execution was ever aborted

settings == <<cycletime, alarmtime, supervised>>
taskVars == <<dbPhase, started, now, queue, actimode, proctime, ErrState, settings,
          stack, jump, aborted>>

Modes == 0..4
Never == MaxTime + 1
Top == Len(stack)
Frames == [task : Tasks, acttime : Nat, next : Nat \ {0}, guarded : BOOLEAN,
           deadline : Nat]
Frame(t, acttime, guarded, deadline) ==
    [task |-> t, acttime |-> acttime, next |-> 1, guarded |-> guarded,
     deadline |-> deadline]

\* What clients can have written to a variable of all tasks.
Written(values) == {f \in [Tasks -> UNION {values[t] : t \in Tasks}] :
                        \A t \in Tasks : f[t] \in values[t]}

\* What an earlier run of the server has left in the database.
TaskInit ==
    /\ dbPhase = "startup" /\ started = {}
    /\ now = 0
    /\ queue = <<>>
    /\ actimode \in Written(ClientModes)
    /\ cycletime \in Written(CycleTimes)
    /\ alarmtime \in Written(AlarmTimes)
    /\ proctime = [t \in Tasks |->
                      IF actimode[t] \in {3, 4} THEN alarmtime[t] ELSE 0]
    /\ supervised \in Written(SupervisedValues)
    /\ ErrState = [t \in Tasks |-> FALSE]
    /\ stack = <<>> /\ jump = 0 /\ aborted = {}

---------------------------------------------------------------------------
(* activate, and the accessors that clients call.                          *)

\* The list after tasklib_SchedulerTask_activate: register does not look for
\* an event that is already there.
ActivatedQueue_NotMoved(t, mode) ==
    CASE t \notin SchedulerTasks -> queue
      [] t \in SchedulerTasks /\ mode = 0 -> unregister(queue, t)
      [] t \in SchedulerTasks /\ mode # 0 -> register(queue, t, now)
ActivatedQueue_NotRegistered(t, mode) ==
    CASE t \notin SchedulerTasks -> queue
      [] t \in SchedulerTasks /\ mode = 0 -> unregister(queue, t)
      [] t \in SchedulerTasks /\ mode # 0 -> setabseventtime(queue, t, alarmtime[t])
ActivatedQueue(t, mode) ==
    CASE t \notin SchedulerTasks -> queue
      [] t \in SchedulerTasks /\ mode = 0 -> unregister(queue, t)
      [] t \in SchedulerTasks /\ mode \in {1, 2} ->
            setabseventtime(register(queue, t, now), t, now + cycletime[t])
      [] t \in SchedulerTasks /\ mode \in {3, 4} ->
            setabseventtime(register(queue, t, now), t, alarmtime[t])

ActivatedProctime(t, mode) ==
    CASE mode = 0 -> proctime[t]
      [] mode \in {1, 2} -> now + cycletime[t]
      [] mode \in {3, 4} -> alarmtime[t]

Startup(t) ==
    /\ dbPhase = "startup" /\ t \in SchedulerTasks \ started
    /\ queue' = ActivatedQueue(t, actimode[t])
    /\ proctime' = [proctime EXCEPT ![t] = ActivatedProctime(t, actimode[t])]
    /\ started' = started \cup {t}
    /\ dbPhase' = IF started' = SchedulerTasks THEN "up" ELSE "startup"
    /\ UNCHANGED <<aborted, now, actimode, ErrState, settings, stack, jump>>

\* Clients write between two events, or from the code of a user's task.
ClientRuns == dbPhase = "up" /\ (stack # <<>> => stack[Top].task \in UserTasks)

\* Only switching on and switching off are accepted.
SetActimode_AnyChange(t, value) ==
    /\ ClientRuns
    /\ value # actimode[t]
    /\ value > 0 => Len(queue) < MaxEvents
    /\ actimode' = [actimode EXCEPT ![t] = value]
    /\ ErrState' = [ErrState EXCEPT ![t] = IF value > 0 THEN FALSE ELSE @]
    /\ queue' = ActivatedQueue(t, value)
    /\ proctime' = [proctime EXCEPT ![t] = ActivatedProctime(t, value)]
    /\ UNCHANGED <<aborted, dbPhase, started, now, settings, stack, jump>>

SetActimode(t, value) ==
    /\ ClientRuns
    /\ (actimode[t] = 0 /\ value > 0) \/ (actimode[t] > 0 /\ value = 0)
    /\ value > 0 => Len(queue) < MaxEvents
    /\ actimode' = [actimode EXCEPT ![t] = value]
    /\ ErrState' = [ErrState EXCEPT ![t] = IF value > 0 THEN FALSE ELSE @]
    /\ queue' = ActivatedQueue(t, value)
    /\ proctime' = [proctime EXCEPT ![t] = ActivatedProctime(t, value)]
    /\ UNCHANGED <<aborted, dbPhase, started, now, settings, stack, jump>>

SetCycletime(t, value) ==
    /\ ClientRuns /\ actimode[t] = 0
    /\ cycletime' = [cycletime EXCEPT ![t] = value]
    /\ UNCHANGED <<aborted, dbPhase, started, now, queue, actimode, proctime, ErrState,
                   alarmtime, supervised, stack, jump>>

SetAlarmtime(t, value) ==
    /\ ClientRuns /\ actimode[t] = 0
    /\ alarmtime' = [alarmtime EXCEPT ![t] = value]
    /\ UNCHANGED <<aborted, dbPhase, started, now, queue, actimode, proctime, ErrState,
                   cycletime, supervised, stack, jump>>

SetSupervised(t, value) ==
    /\ ClientRuns /\ actimode[t] = 0
    /\ supervised' = [supervised EXCEPT ![t] = value]
    /\ UNCHANGED <<aborted, dbPhase, started, now, queue, actimode, proctime, ErrState,
                   cycletime, alarmtime, stack, jump>>

---------------------------------------------------------------------------
(* execute.                                                                *)

\* How an execution changes the mode of a task: of a scheduler task at the
\* beginning of its own execute, of a child after its execute has returned.
ModeAfter(mode, alarm, acttime) ==
    CASE mode = 2 /\ alarm <= acttime -> 0
      [] mode = 3 -> 0
      [] mode = 4 -> 1
      [] OTHER -> mode

ProctimeAfter(mode, t, acttime) ==
    IF ModeAfter(mode, alarmtime[t], acttime) = 0 THEN proctime[t]
    ELSE acttime + cycletime[t]

\* The list after the switch of tasklib_SchedulerTask_execute; q is the list
\* the execution finds.
ExecutedQueue(q, t) ==
    IF ModeAfter(actimode[t], alarmtime[t], now) = 0
    THEN unregister(q, t)
    ELSE setabseventtime(q, t, now + cycletime[t])

\* The frame of an execute method.  A supervised task starts the supervision
\* and ignores the refusal of a nested start; cycle time 0 sets no timer.
Enter(t) ==
    LET guarded == supervised[t] /\ t \notin UserTasks
    IN  /\ stack' = Append(stack, Frame(t, now, guarded,
                        IF cycletime[t] = 0 THEN Never ELSE now + cycletime[t]))
        /\ jump' = IF guarded /\ jump = 0 THEN Top + 1 ELSE jump

\* tasklib_SchedulerTask_execute up to its loop, for the list q.
EnterScheduler(q, t) ==
    /\ queue' = ExecutedQueue(q, t)
    /\ actimode' = [actimode EXCEPT ![t] = ModeAfter(@, alarmtime[t], now)]
    /\ proctime' = [proctime EXCEPT ![t] = ProctimeAfter(actimode[t], t, now)]
    /\ Enter(t)

\* ov_scheduler_schedulenextevent executes the event at the head.
ExecuteEvent ==
    /\ dbPhase = "up" /\ stack = <<>>
    /\ HeadDue(queue, now)
    /\ EnterScheduler(requeuehead(queue, now), Head(queue).obj)
    /\ UNCHANGED <<aborted, dbPhase, started, now, ErrState, settings>>

InChildren ==
    stack # <<>> /\ stack[Top].task \notin UserTasks
Kids == Children[stack[Top].task]
Child == Kids[stack[Top].next]
ChildDue == actimode[Child] > 0 /\ proctime[Child] <= stack[Top].acttime

SkipChild ==
    /\ InChildren /\ stack[Top].next <= Len(Kids) /\ ~ChildDue
    /\ stack' = [stack EXCEPT ![Top].next = @ + 1]
    /\ UNCHANGED <<aborted, dbPhase, started, now, queue, actimode, proctime, ErrState,
                   settings, jump>>

ExecuteChild ==
    /\ InChildren /\ stack[Top].next <= Len(Kids) /\ ChildDue
    /\ IF Child \in SchedulerTasks
       THEN EnterScheduler(queue, Child)
       ELSE Enter(Child) /\ UNCHANGED <<queue, actimode, proctime>>
    /\ UNCHANGED <<aborted, dbPhase, started, now, ErrState, settings>>

\* The rest of a parent's loop body, for the child t that has returned with
\* the given mode: the switch on that mode, and the step to the next child.
Resume(rest, t, mode) ==
    LET d == Len(rest)
        acttime == rest[d].acttime
    IN  IF d = 0
        THEN /\ stack' = rest
             /\ actimode' = [actimode EXCEPT ![t] = mode]
             /\ UNCHANGED proctime
        ELSE /\ stack' = [rest EXCEPT ![d].next = @ + 1]
             /\ actimode' = [actimode EXCEPT
                    ![t] = ModeAfter(mode, alarmtime[t], acttime)]
             /\ proctime' = [proctime EXCEPT ![t] = ProctimeAfter(mode, t, acttime)]

\* ov_supervise_end is called by every supervised task, whether its own start
\* was accepted or not.
Return ==
    /\ stack # <<>>
    /\ InChildren => stack[Top].next > Len(Kids)
    /\ LET t == stack[Top].task
       IN  Resume(SubSeq(stack, 1, Top - 1), t, actimode[t])
    /\ jump' = IF stack[Top].guarded THEN 0 ELSE jump
    /\ UNCHANGED <<aborted, dbPhase, started, now, queue, ErrState, settings>>

\* SIGALRM: the frames above the supervised one are abandoned, its task is
\* switched off and marked, and its execute returns.
Timeout ==
    /\ jump # 0 /\ now >= stack[jump].deadline
    /\ LET t == stack[jump].task
       IN  /\ ErrState' = [ErrState EXCEPT ![t] = TRUE]
           /\ Resume(SubSeq(stack, 1, jump - 1), t, 0)
    /\ jump' = 0
    /\ aborted' = aborted \cup {stack[jump].task}
    /\ UNCHANGED <<dbPhase, started, now, queue, settings>>

---------------------------------------------------------------------------
\* ov_database_shutdown calls the shutdown method of one scheduler task after
\* the other; nothing is executed any more.
Shutdown(t) ==
    /\ dbPhase \in {"up", "shutdown"} /\ stack = <<>>
    /\ t \in started
    /\ queue' = unregister(queue, t)
    /\ started' = started \ {t}
    /\ dbPhase' = IF started' = {} THEN "down" ELSE "shutdown"
    /\ UNCHANGED <<aborted, now, actimode, proctime, ErrState, settings, stack, jump>>

Tick ==
    /\ dbPhase = "up" /\ now < MaxTime
    /\ now' = now + 1
    /\ UNCHANGED <<aborted, dbPhase, started, queue, actimode, proctime, ErrState,
                   settings, stack, jump>>

Done == dbPhase = "down" /\ UNCHANGED taskVars

TaskNext ==
    \/ \E t \in Tasks :
        \/ Startup(t) \/ Shutdown(t)
        \/ \E v \in ClientModes[t] : SetActimode(t, v)
        \/ \E v \in CycleTimes[t] : SetCycletime(t, v)
        \/ \E v \in AlarmTimes[t] : SetAlarmtime(t, v)
        \/ \E v \in SupervisedValues[t] : SetSupervised(t, v)
    \/ ExecuteEvent \/ SkipChild \/ ExecuteChild \/ Return \/ Timeout
    \/ Tick \/ Done

TaskSpec == TaskInit /\ [][TaskNext]_taskVars

\* The server loop and the methods go on, user code returns, time passes.
TaskFairness ==
    /\ WF_taskVars(\E t \in Tasks : Startup(t))
    /\ WF_taskVars(ExecuteEvent) /\ WF_taskVars(SkipChild) /\ WF_taskVars(ExecuteChild)
    /\ WF_taskVars(Return) /\ WF_taskVars(Tick)

FairTaskSpec == TaskSpec /\ TaskFairness

---------------------------------------------------------------------------
\* The variables of the tasks, the stack of execute methods and the list have
\* their values.
TaskTypeOK ==
    /\ dbPhase \in {"startup", "up", "shutdown", "down"} /\ started \subseteq SchedulerTasks
    /\ now \in 0..MaxTime
    /\ queue \in Seq(Events(SchedulerTasks))
    /\ actimode \in [Tasks -> Modes]
    /\ cycletime \in Written(CycleTimes) /\ alarmtime \in Written(AlarmTimes)
    /\ proctime \in [Tasks -> Nat]
    /\ supervised \in [Tasks -> BOOLEAN] /\ ErrState \in [Tasks -> BOOLEAN]
    /\ stack \in Seq(Frames)
    /\ jump \in 0..Top

\* The scheduler tasks that are also in the task list of another task: when one
\* of them is switched on by a task that it executes itself, its parent switches
\* it off behind its execution, and its event stays.
Nested == {t \in SchedulerTasks : \E parent \in Tasks : t \in ToSet(Children[parent])}

\* The tasks that may have an event although they are off.
LeftBehind == aborted \cup Nested

\* A scheduler task has one event while it is switched on and none while it is
\* off, also in the middle of executions that switch tasks: it is neither
\* forgotten nor executed twice.  (A task that was aborted keeps its event while
\* it is off, and so may a nested one.)
EventIffOn ==
    dbPhase = "up" =>
        \A t \in SchedulerTasks \ LeftBehind :
            /\ Queued(queue, t) <=> actimode[t] > 0
            /\ \A i, j \in 1..Len(queue) : queue[i].obj = t /\ queue[j].obj = t => i = j

\* Whatever is aborted, a scheduler task that is switched on has an event: it is
\* never left waiting for an execution that does not come.
OnHasEvent ==
    dbPhase = "up" => \A t \in SchedulerTasks : actimode[t] > 0 => Queued(queue, t)

\* "1: cycle time exceeded in supervised mode" (tasklib.ovm:38): a task with an
\* error stays off, whatever its parent does behind the abort, until a client
\* switches it on again.
ErrorIsOff == \A t \in Tasks : ErrState[t] => actimode[t] = 0

\* The shutdown methods take every event out of the list: none is left that
\* points at a task of a database that has been unmapped.  (Of a task that was
\* left behind an event and switched on again, one of the two stays.)
NoEventAfterShutdown == dbPhase = "down" => ObjectsOf(queue) \subseteq LeftBehind

\* The scheduler and the modes agree: what of a task is in the event list is what
\* its mode, its errors and the phase of the database say.
TaskInv ==
    TaskTypeOK /\ EventIffOn /\ OnHasEvent /\ ErrorIsOff /\ NoEventAfterShutdown

Begins(t) ==
    Len(stack') > Len(stack) /\ stack'[Len(stack')].task = t

\* "0: off; ... 3: once at alarm time; 4: cyclic beginning at alarm time"
\* (tasklib.ovm:33): the execute method of a task is called neither while the
\* task is switched off nor before the alarm it waits for, whoever switches it
\* and whenever.  (The scheduler executes the events that were left behind all
\* the same; the parent of a task does not.)
ExecutedInTime ==
    [][\A t \in Tasks :
        Begins(t) /\ (stack = <<>> => t \notin LeftBehind) =>
            /\ actimode[t] # 0
            /\ actimode[t] \in {3, 4} => now >= alarmtime[t]]_taskVars

\* A scheduler task that waits for its alarm is executed when it has come.
AlarmComes ==
    \A t \in SchedulerTasks :
        dbPhase = "up" /\ actimode[t] = 3 /\ alarmtime[t] < MaxTime
            ~> dbPhase # "up" \/ actimode[t] # 3
===========================================================================
