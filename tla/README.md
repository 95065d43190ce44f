# ACPLT/RTE: TLA+ models of the runtime environment

ACPLT/RTE ("the RTE") is a C runtime for process control: an object database
(libov), a server process that executes *active objects* by time, libraries of
task and function block classes, and a communication stack that is itself built
from active objects. The process has **one thread** that executes objects, and
one or two others that resolve names for the TCP binding. What is concurrent is
mostly what happens *inside* the first: a method that is being executed may change
the list it is executed from, a client request is served in the middle of the
execution of a task, signals interrupt any instruction, `SIGALRM` throws a
running method off the stack, and time passes (or is set back) between any two
statements. The objects outlive the process in a memory-mapped file, and
servers send each other messages over connections that break. These models are
about that.

Paths below are relative to `src/`; `libov/` is `core/ov/source/libov/`.

## 1. Inventory

### 1.1 Components

| Component | Source | State it keeps | Operations | Module |
|---|---|---|---|---|
| Scheduler | `libov/ov_scheduler.c` | the list at `pfirstevent`, ordered by time; the flag `OV_OS_ACTIVE` of each object; jitter counter | register, unregister, setabseventtime, setreleventtime, schedulenextevent, getnexteventtime, execnamedeventonce | `EventQueue`, `Scheduler` |
| Server loop | `core/ov/source/runtimeserver/ov_runtimeserver.c` | `ov_server_run`, the current sleep | start, exec option, loop, signal handler, shutdown | `Scheduler`, `RootComTask` |
| Vendor tree | `libov/ov_vendortree.c` | `ov_activitylock`, allowed jitter | setserverconfiguration | `Scheduler`, `RootComTask` |
| Supervision | `libov/ov_supervise.c` | static jump buffer, flag, `ITIMER_REAL`, disposition of SIGALRM | start, end, signal handler | `Supervise` |
| tasklib | `core/ov/source/tasklib/` | per task mode, cycle, alarm time, next time, error flag; a tree of tasks | accessors, activate, execute, executechilds, startup, shutdown | `TaskLib` |
| Function block tasks | `syslibs/functionblock/fb/source/fb_task.c`, `fb_functionblock.c`, `fb_tasklist.c` | per task mode, proctime, cyctime, error state; the task lists | accessors, link, unlink, run, execute, setNextProcTime, typemethod call, startup, shutdown | `FbTask` |
| Communication tasks | `syslibs/comm/ksbase/source/RootComTask.c`, `ComTask.c` | the list of ComTasks with mode, interval and next time; locals of the inner loop | execute (walk, sleep, loop), calcExec, constructor, destructor, accessors | `RootComTask` |
| Time | `libov/ov_time.c` | - | add, diff, compare | `TimeArith` |
| Associations | `libov/ov_association.c` | links between objects | link, unlink | planned |
| Objects, libraries, database | `libov/ov_object.c`, `ov_class.c`, `ov_library.c`, `ov_database.c` | the memory-mapped file with the objects and their flags; the mark of a started root; the copy of option NOMAP | load, start up, shut down, unload, create, delete, write backup | `Database` |
| State charts | `syslibs/functionblock/ssc/source/SequentialStateChart.c`, `step.c` | command, working state with phase and qualifier, the list of the active step; per step role, mode, flag, phase, qualifier, mode of the exit task | typemethods of chart and step, resetSsc, resetStep, names of init and end step | `Ssc` |
| Connections | `syslibs/functionblock/fb/source/fb_connection.c` | cached elements of source and target | set, trigger, check | planned |
| TCP binding, channels | `syslibs/comm/TCPbind`, `ksbase/source/Channel.c`, `ClientHandler.c` | connection state, buffers, client handlers; the list of the name resolution thread | typemethod, open, close, send, accept; the worker's walk | `AresWorker`, `MessageSys`, `Database` |
| KS manager | `syslibs/comm/ksbase/source/Manager.c`, `ServerRep.c` | server representatives with expiry | register, unregister, expire | planned |
| Message system, ksapi | `addonlibs/comm/MessageSys/`, `addonlibs/commclient/ksapi/` | the queue of messages, the current message; the request of the ksapi client | send, deliver, time out, identify, handle | `MessageSys` |
| UDP, protocols, OPC UA, tools, addon libraries | `syslibs/comm/UDPbind`, `kshttp`, `ksxdr`, `opcua`, `core/ov/source/{codegen,dbutil,...}`, `addonlibs/` | - | conversions, parsers, generators, applications | not planned |

`PROJECT.json` lists all of them with the reasons, and the hazards at their lines.

### 1.2 How they interact

* The **server loop** calls `ov_scheduler_schedulenextevent`, which executes at
  most the first event of the list and moves it to the present, then sleeps
  until the next event.
* An **executed object** calls back into the scheduler: to move its own event,
  to register or unregister objects, through other blocks or through a client
  request.
* Three kinds of object have events: the **urtask** of fb (which walks down the
  lists of function block tasks), the **SchedulerTasks** of tasklib, and the
  **RootComTask** of ksbase, which is a scheduler in its own right: it asks for
  the time of the next event of *another* object and until then walks along
  its ComTasks and sleeps itself. All requests are handled there.
* **Supervision** is process-global: one jump buffer, one flag and one timer,
  used by function blocks and tasks that call each other.
* **Every object is a part of the file**: its flags, pointers and socket numbers
  are still there when the next process maps the file; the event list, heap
  blocks, sockets and threads they refer to are not.
* **Threads** share the list of name resolutions: the main thread appends and
  marks, a worker resolves, connects and frees. There is no lock. Each call of the
  startup method makes a worker and a list, and at the start of an existing
  database it is called twice: TCPbind's `setglobalvars` (`ov_library.c:544`) creates
  the object anew (`TCPbind_open.c:179-182`; `ov_class.c:616`), and `ov_object_startup`
  of the root (`ov_database.c:1728`) visits it again.
* **Messages**: `MsgDelivery` takes one message at a time from its queue and
  leaves it to a TCP channel of its own, to a ksapi client that all messages
  share, or to an extension; each goes on by itself as a ComTask, also when the
  delivery has given the message up.
* **Shared variables**: `ov_activitylock` and `ov_server_run` are written by
  requests and by the signal handler, and read by the server loop; the lock is
  also read by RootComTask.

### 1.3 What is hard about it, and what correct means

| Component | Hard to test | Correct when |
|---|---|---|
| Scheduler | the list changes under the executed method; equal times; clock set back; the walk of the exec option | the list is ordered; an object has exactly one event while it is active; the loop neither sleeps past an event nor starves one; a stop request ends it |
| Supervision | SIGALRM between any two statements, nesting, refused starts | the jump goes into a frame that is on the stack and whose own time is up; a nested call does not end the supervision of its caller |
| tasklib | user code reprograms tasks while they are executed; an abort in the middle of a walk | one event while on, none while off; nothing is executed while off or before its alarm; an alarm comes; an aborted task stays off |
| fb tasks | children unlink, fail and are reprogrammed during the walk; missed cycles | no child is skipped; failed blocks stay off; the urtask keeps its one event and lets others run |
| State charts | every command in every phase of the active step; end steps, dangling transitions and renamed steps in between | one active step; flags that name it; entry actions once per activation, exit actions on leaving; commands are obeyed |
| Name resolution | appending, unlinking and freeing of neighbours at the same time; two workers on one list; the object shut down, the thread not created | no thread touches freed memory; no request is lost; each is answered; the list shrinks again |
| Database | the process is killed at any step, also of a start-up, a shutdown or a backup; a backup is cut off | a killed session leads to one refused start and a good one after it; running objects use nothing of an earlier process; one event per active object |
| Messages | channel, client and receiver run in any order, the connection breaks or delivers in pieces, answers come after their time-out | nothing is delivered twice or lost without a fault; the queue moves; nothing stays behind on the receiver's side |
| Time | unsigned seconds, signed spans, one correction | the operations are those of numbers |
| RootComTask | requests create and delete ComTasks and move events during its own walk; two loops | the walk stays on existing objects; it does not sleep into another event; other objects, ComTasks and stop requests get their turn |

## 2. The modules

A definition keeps the name of the C function it stands for where it has one.
Names with a suffix after an underscore (`insertevent_AtEnd`) are broken
variants of the definition below them: each property is shown to fail for a
plausible bug (`PROJECT.json`, `mutants`).

* **`EventQueue`** - the event list as operators on a sequence of records
  `[obj, time]`: `insertevent`, `register`, `unregister`, `setabseventtime`,
  `requeuehead`, and what a well-formed list is. Used by the four modules whose
  objects have events.
* **`Scheduler`** - the server process from start-up to shutdown. `phase` is
  where the thread is: in the start-up methods, behind the installation of the
  signal handler, in the exec option (`named`), in the loop, in a method
  (`exec`), asleep, in the shutdown methods. While object code runs, every
  client operation is possible for every object. `schedulenextevent` is three
  actions (locked, nothing due, due), since each returns at a different line.
  `cursor` is the local pointer of `ov_scheduler_execnamedeventonce`; it becomes
  `Freed` when the event it points to is freed. What the walk then reads as `pnext`
  is nondeterministic: an event of the list or its end (`ContinueAt`), one that
  has left the list, whose object is executed though it is not registered
  (`NamedExecuteStale`), or nothing sensible at all (`NamedLost`: the model of this
  process ends).
* **`TimedObjects`** - what the scheduler promises, without a list: a set of
  objects with times, of which one whose time has passed and is the earliest is
  executed, one at a time and not under the lock. The exec option is part of it:
  `astray` says that it stands on an event that was removed, and only then may it
  execute an object that is not registered. `Scheduler` implements it; the
  mapping takes the list to the function from its objects to their times, and
  `astray` to `cursor = Freed`.
* **`TimeArith`** - addition, difference and comparison of times on words of a
  given width.
* **`Supervise`** - the stack of frames that call supervised functions, the
  static variables, the timer, and the disposition of SIGALRM.
  `ov_supervise_start` is split at each statement between which the signal can
  arrive. `Callers` chooses between function blocks (which look at the result of
  the start) and tasks of tasklib (which do not).
* **`TaskLib`** - Task and SchedulerTask over `EventQueue`, with a constant
  tree. The stack of execute methods is explicit, so that user code runs in the
  middle of a walk and a timeout cuts the stack off at the frame of the
  supervised task. The startup and shutdown methods are called one scheduler task
  after the other; `dbPhase` says how far the database has come.
* **`FbTask`** - the urtask, tasks and blocks over `EventQueue`. A frame holds
  the current child and the remembered next one; `missed` is a history
  component: the children of the beginning of the walk that have not been looked
  at. The lists are changed by clients and, within the walk, by the methods of
  blocks. Methods link what is not being executed to the end of any list. From a
  list that is being walked they unlink nothing but their own block: that is
  what the methods of the repository do (`step.c:156, 198`; a chart resets its
  steps in front of the walk over them).
* **`RootComTask`** - the inner scheduler, with one object `Other` for all other
  active objects. Its clock is relative: `now` is always 1, a tick moves all
  stored times back, 0 stands for all the past. Nothing in the code tells two
  past times apart, so the state space is finite without a bound on time and
  liveness is checked on endless time.
* **`Ssc`** - a sequential state chart. `pc` is where the typemethod of the chart
  is: between two cycles, in the machine of working states, in the typemethod
  of a step (called by the walk over the task list or by the entry part of
  STOP), or behind it. Each case of the two nested switch statements is an
  action. `entered` and `noexit` are history variables. Whether a transition has
  a result is nondeterministic; `TransitionsAssumption` is the test of
  `assoc_nextTransitions.c:46-50`.
* **`AresWorker`** - the main thread, one or two workers of the TCP binding, and
  the channels that open connections. An action is one access of a thread to
  what another one uses; memory cells are model values that can be freed and
  handed out again. `Starts` says how often startup is called: once when a database
  is new, twice when it exists. `DeletedOpening` says whether channels are deleted
  while they open (finding 3). Three steps may free memory that another
  thread is using: the deletion of such a channel, the removal of an element
  while the other worker is at one, and the shutdown while a worker has not ended. What
  follows is undefined, and the model ends there (phase `undermined`).
* **`Database`** - the file and its backup, a process that loads, opens
  libraries, starts, runs, stops and may be killed before any of its steps, and
  its successors. An image holds the root mark, the objects, the flags `ACTIVE`,
  the channels with buffer pointers, the validity of the thread handle, and
  whether the file is `whole`: a backup may be cut off at any place when it is
  written, and a cut-off one loads. `queue`, `live`, `open` and `threads` are what the
  process really owns. A process on a cut-off image may come across what is missing
  at any time and dies of it (`TouchMissing`). `unrefused` and `abnormal` are
  history variables.
* **`MessageSys`** - two servers and the connections between them: the queue and
  the typemethod of `MsgDelivery`, its TCP channels, the ksapi client, and
  listener, channel, identification, handler and inbox of the receiver. An
  action is one execution of one object. A message is a number of parts, of
  which the first `TagParts` hold its tag. Time-outs may come at any moment
  (`recent` is the one comparison of times that the code makes twice).
  `disturbed` and `timedOut` are history variables that name the faults.
* **`MC...`** - constants for TLC that a cfg cannot write (sequences, functions,
  negative numbers). `MCScheduler` also evaluates the arithmetic of `TimeArith`
  on words of four bits.
* **`EventQueueProofs`, `SchedulerProofs`, `AsyncProofs`** (the signal of
  `Supervise` and the thread of `AresWorker`), **`TaskChartProofs`** (the tasks of
  `TaskLib` and the charts of `Ssc`), **`FbTaskProofs`, `RootComTaskProofs`,
  `DatabaseProofs`, `MessageSysProofs`** - the theorems (section 4). Two modules that
  one proof module extends share no name: hence `TaskSpec` and `WorkerSpec`.

The modules overlap on purpose where components meet: what `Scheduler` allows
every client to do (an arbitrary sequence of scheduler calls in a method) is
what `TaskLib`, `FbTask` and `RootComTask` really do, and each of them has the part of the server
loop it depends on.

### Abstractions common to all

* Time counts in whole units (a second), and a time is a number. Comparison and
  addition on secs/usecs pairs are those of the numbers: proved in
  `SchedulerProofs` for normal times within the range of their words.
* An object is a model value; of its variables those are kept that decide
  control. Logging is left out.
* Allocation failure in `ov_scheduler_register` leaves the state as it is and is
  a stuttering step.

## 3. Runs

States are distinct states. An invariant that is a conjunction has its parts in
parentheses; a type invariant is a further part of each of these. Of `Scheduler`,
`Supervise` and `Ssc` it is a theorem of its own.

| Run | Properties | States | What it shows |
|---|---|---|---|
| `scheduler` | QueueSorted, ActiveIffQueued, NextEventTimeIsOthers, SleepsNotPastDue, ImplementsTimedObjects, DueEventRuns, StopRequestEndsServer | 246 042 | three objects, events in the past and future, clock set back, the exec option: the list keeps its order and its agreement with the flags and implements the timed objects; the loop does not sleep past an event, no due event starves, a stop request brings the process down |
| `supervise_safety` | JumpTargetLive, AbortedByOwnTimeout, EndedByOwnerOnly, ArmedTimeoutAborts | 68 836 | three nested calls with refused, zero and valid timeouts |
| `supervise_nested` | StaysSupervised (violated) | - | finding 1 |
| `tasklib` | TaskInv (EventIffOn, OnHasEvent, ErrorIsOff, NoEventAfterShutdown), ExecutedInTime, AlarmComes | 748 282 | a tree of three tasks in all five modes, reprogrammed by clients and by user code, aborted at any place |
| `fbtask` | FbInv (UrTaskScheduled, FailedIsOff), NoChildSkipped, ClientsAreServed | 306 401 | a task and a block under the urtask, linked, unlinked and reprogrammed by clients and, in the walk, by methods; failures; missed cycles |
| `rootcom` | RootInv (BothScheduled), WalkOnExisting, NotPastNextEvent, ThreadGivenBack, TasksServed | 87 428 | the two loops together; ComTasks that are created and deleted during the walk, events that are moved |
| `ssc_chart` | OneActiveStep, FlagOfActiveStep, EntryOncePerActivation, CommandsAreObeyed | 57 989 | a chart with a loop, an end step and a dangling transition, all commands, renamed init and end steps |
| `ssc_exit` | ExitActionsExecuted (violated) | - | finding 2 |
| `ares` | ListSound (PointersValid, NothingLost), LastElementKept, RequestAnswered, MarkedAreFreed | 175 352 | the lock-free list with one worker and with two, connections opened, closed, reopened and deleted while they open, a thread that cannot be created, and shutdown; all up to the step that frees what another thread may be using |
| `ares_deleted` | LastElementValid (violated) | - | finding 3 |
| `database` | OwnsWhatItUses (NothingOfEarlierProcess, CleanStartIsSafe), EventsMatchDatabase, KilledIsRefused, RetrySucceeds | 1 559 468 | any number of processes, each killed anywhere, with and without NOMAP, main file and backup, which may be cut off |
| `messages` | DeliveryInv (AtMostOnce), SenderDiesAfterSending, CompletedIsDelivered, QueueMoves, SentIsDelivered, ServerSideGoes | 469 870 | two messages of any kind, with every fault of a connection and of a client |

### Bounds

* Three objects are the least with which an event can be inserted between two
  others and `getnexteventtime` can be wrong in both directions. The proofs
  remove the bound for this module.
* `MaxTime` 2 or 3 with spans of 1 or 2 lets every event be early, equal, late,
  and late by more than a cycle. The clock stopping at the bound is not mistaken
  for a missed deadline: the liveness properties concern events that are due
  before it, and in `RootComTask` there is no bound.
* Depth 3 of `Supervise` is a supervised function, one whose start is refused,
  and one below it. Timeouts -2, 0, 1, 2 are a refused one, one that does not
  arm the timer, and two whose order can differ from that of the calls.
* `MaxEvents` of `TaskLib` stops clients from activating a task when its list has
  that many events: duplicates are possible after a timeout, and without end. The
  instance has one scheduler task; several of them, also as children of each other,
  are in the proofs.
* In `rootcom` one task can be deleted and created again, the other one is a
  representative that another's request deletes: two are the least with which
  the remembered next child is the deleted one.
* The chart of `ssc_chart` has a step on a loop, a branch to the end step and a
  dangling transition: with three steps every step can be init step, end step,
  both in turn, or neither. The proofs remove the bound.
* `ares` has one startup or two, and channels that are deleted while they open. It
  has three memory cells: the least with which an element has neighbours
  on both sides, and with which a freed cell is handed out again while a
  worker still works on the list. With two startups the dummy of the first list keeps
  one of them for ever, so the longer lists are those of one startup; the proofs
  remove the bound. `ares_deleted` has one startup: finding 3 needs no second
  worker. One channel is enough, since a channel that
  reopens forgets its element in the list.
* `database` has one object of each kind: the kinds do not interact in the
  images but through the listener, which owns the accepted channels, and
  `InOrder`, by which the worker follows the listener. The number
  of processes is not bounded.
* `messages`: three parts of which two are the tag give a piece without the whole
  tag, one with it and no more, and the rest. Two messages are the least for an
  answer to the wrong one.

### Fairness

Weak fairness of the steps of the one thread (the process is not stopped and
methods return), of `Tick` (time passes, sleeps end), and of the shutdown
methods. None is assumed of clients, of user code's choices, of failures or of
signals. In `Scheduler` the thread's steps are one fair action: which of them is
taken is for the model to say. `Supervise` assumes fairness of the library's own statements, of time
and of the delivery of SIGALRM, but not that a user's function returns: that is
what the supervision is for. `Ssc` assumes that the chart is executed again and
again, which its task does while it is on. `scheduler` and `fbtask` let the clock be
bounded, so their leads-to properties name the events that are already due.

`AresWorker` assumes that each of the threads goes on, and strongly that a creation of
the thread that is tried again and again succeeds once; the typemethod of the
worker object tries it at each execution. `Database` assumes that a
process goes on until it is killed and that somebody starts the server again;
not that nothing is killed: `RetrySucceeds` says what happens once nothing is.
`MessageSys` assumes that both communication tasks execute their objects, that
the worker threads and the network go on, and that time passes; it assumes of no
particular time-out that it comes late.

Deadlock is checked in every run but those of `Supervise` (a process killed
by SIGALRM, or one that has used up its time, has no further step), of
`AresWorker` (the object is shut down and all channels are closed) and of
`MessageSys` (all messages are sent).

## 4. Proofs

`SchedulerProofs` proves, for every set of objects, every clock range, every
allowed jitter and every choice of the options, that `Spec` keeps

* `TypeOK`, `QueueSorted`, `ActiveIffQueued` (`SchedulerTypeCorrect`,
  `SchedulerQueueSorted`, `SchedulerActiveIffQueued`),
* `NextEventTimeIsOthers` (`SchedulerNextEventTime`): the *second* event of the
  list is what RootComTask takes for the next event of another object,
* `SleepsNotPastDue` (`SchedulerSleepsNotPastDue`).

The inductive invariant is `SchedInv`: the types of the other variables,
together with `ListInv` (the list is well-formed - events of objects with
natural times, ordered, one per object - and `active` is the set of its
objects). None of its parts is inductive alone: `register` keeps "one per
object" only because the flag says that the object is not in the list, and
`unregister` keeps the agreement with the flag only because there is no second
event. `SleepsNotPastDue` needs one more step: the list does not change during
a sleep, and a clock that is set back only makes the head later.

It also proves that `Scheduler` implements `TimedObjects`
(`SchedulerImplementsTimedObjects`). The mapping takes the list to the function
`TimeOf(queue)`. For each operation of the list a lemma says what becomes of that
function (`RegisterAdds`, `UnregisterRemoves`, `SetAbsEventTimeMoves`): one object
comes, goes or gets another time, and no other changes. `ScheduleDueExecutes` is
where the order is needed: the head is the *earliest* object, and moving it to the
present behind the events of the same time is what the abstract step does to
its time. An event that the exec option executes keeps its time and is an
abstract step too (`NamedExecuteSimulated`), also when the walk has gone astray
(`NamedExecuteStaleSimulated`). For that, `CursorInv` says that while an object is
executed by its name the walk stands on its event or on a freed one: so `cursor` becomes
`Freed` exactly when the executed object is removed, which is when `astray` is
raised. The rest of the walk, the loop and the sleep are stutters.

`EventQueueProofs` has the lemmas on the list: where `insertevent` puts an event,
that insertion and removal keep order and uniqueness, what each of the
scheduler's list operations does to the set of queued objects and to their times,
and to a list in which an object may have several events (`Touches`, `Single`);
and, for the lists of objects that other modules have, what appending and
`RemoveFirst` do to a list that holds each member once (`IsListOf`). Assumptions are
only those the modules state: `NoObject` is no object, the bounds are numbers.

`RootComTaskProofs` proves for any ComTasks, intervals and requests that `Spec` of
`RootComTask` keeps `RootInv`, `WalkOnExisting` and `NotPastNextEvent`. The inductive
invariant `RootIInv` has three parts besides the types. `QueueInv`: the event
list is well-formed and has both objects while the loop runs. `WalkInv`: the
pointer with which the walk goes on is to a linked ComTask *and is not the one
that is being executed*; only with the second half does a ComTask that deletes
itself leave the pointer good. `SleepInv`: `time_next`, taken once before the walk,
is no later than the event of the other object while that one is still to
come, and `earliestChild` never exceeds it. It rests on the lemma that the second
event of the list is that of the other object unless that one is over. The
assumptions are those of the module, among them that the libraries link each
ComTask once.

`FbTaskProofs` proves for any tasks and blocks, any lists of tasks, any cycle times and
any requests that `Spec` of `FbTask` keeps `FbInv` and `NoChildSkipped`. The inductive
invariant is `FbIInv`. `QueueInv` is as above: moving the urtask takes its event
out before it registers it anew, so one remains. `TreeInv`: a task is in one list
at most, once, and the urtask in none. `StackInv` describes the walk at every
depth. The frame on top stands on a member of its list or at the end, and what it has
not looked at is at or behind that place (`FrameInv`). A frame below the top
executes a child that is in its own list or in none; it has remembered another member
or the end, and behind that there is all that it has not looked at, but for the child
(`CallerInv`). And no task is on the stack twice. So a child that leaves, by UNLINK
or by its own method, takes itself out of the list of the frame directly below,
where the remembered child is still the right one (`RestWithout`, `PathWithout`); a child
read after the execution would be none. A task that is linked during the walk
comes to the end of a list, where it was not missed (`RestAppended`, `PathAppended`).
No task is twice on the stack because the child that is pushed has one parent, and
what is being executed is linked nowhere else (`PushFrame`). `FailedIsOff` is inductive
by itself. The assumption beyond the constants' types is that the lists before the
start are such lists, too: `tasklist` is ONE_TO_MANY (`fb.ovm:358`).

`DatabaseProofs` proves for any tasks and channels, over any number of processes,
that `Spec` of `Database` keeps `OwnsWhatItUses`, `EventsMatchDatabase` and
`KilledIsRefused`. A kill may come between any two steps, so the inductive
invariant `DbInv` has a part for every place a process can be at, and one for the
files. `FileInv`: a file that carries the session of a killed process has the root
mark, unless a start was refused since; a file no process works on is clean
(no handle, no buffer, no accepted channel), unless a process has ended
abnormally on it. `StartInv`: what the file brought along - buffers, flags - belongs
to objects that the start-up has still to visit, and exactly the visited tasks
have an event. `UpInv`: a running server owns what the image refers to. `StopInv`:
what is not yet released belongs to objects that the shutdown still visits. The
walk over the objects is thereby reduced to one fact per visited object, in
whatever order they come. A running server has two threads for the one handle
(`UpInv`), and a stopping one has one left when the worker is done (`StopInv`). All of
it holds on cut-off images, too: a cut-off copy has no more than the image it is
cut from (`CopiesSound`), and only the main file is always whole (`FileInv`).

`MessageSysProofs` proves for any messages, cut into any number of pieces of which any
number hold the tag, that `Spec` of `MessageSys` keeps `DeliveryInv`,
`SenderDiesAfterSending` and `CompletedIsDelivered`. The inductive invariant is
`MsgSysInv`. `QueueInv`: the queue holds each waiting or failed message once and the
current one is in it. `MsgInv` holds of each message by itself: nothing was
done for one that is still to be taken (`FreshInv`), which rules out that a message is
taken twice; only one sent directly has a connection, only one sent by
ksapi a request (`ByInv`), hence each can be delivered along one way only; and as
long as that way can still deliver it, it has not been delivered (`OnceInv`).
`GoneInv`: the channel of the current message goes only after everything is sent or
when it is to wait for an answer. `KsInv`: before the first time-out the one ksapi
client works for the current message and no other. An action touches what
belongs to one message; `OthersKeep` disposes of the others once and for all.

`AsyncProofs` proves for any callers, timeouts and depth of nesting that
`Spec` of `Supervise` keeps `TypeOK`, `JumpTargetLive`, `AbortedByOwnTimeout` and
`EndedByOwnerOnly`. The inductive invariant `SupInv` adds three parts.
`StackInv`: only the innermost frame can be outside its function, and only
supervised frames start the supervision; so the frame that `pjmpbuf` points at
ends the supervision when it returns, whichever kind of caller it is.
`StartInv`: between `setitimer` and the end of `ov_supervise_start` the buffer is
already the one of the innermost frame and the flag is still down, so the step
that raises the flag makes a live frame the target. `TimerInv`: a running timer
and the time spent by the frame of `pjmpbuf` add up to at least that frame's
timeout, so that an expired timer means that this frame's time is over.
`EndedByOwnerOnly` needs `UpperInv` too: frames above the target have not started
the supervision, hence a returning block among them does not end it. The
assumptions are that the callers are blocks and tasks, that timeouts are integers
and that the depth is a number.

The second part of `AsyncProofs` is about `AresWorker`: for any number of elements and
channels, one startup or two, and with or without deletions of opening channels,
`WorkerSpec` keeps `ListSound` and `LastElementKept` (`WorkerListSound`,
`WorkerLastElementKept`). Nothing is assumed but that the cells are a finite set. What
the theorems say ends with the step into `undermined`; finding 3 shows that behind it
the last element need not be valid. The inductive
invariant `WorkerInv` describes the list at every point at which one thread can see the
other in the middle of an operation. `Successors` and `Predecessors`: the two
links agree but for the element that is being inserted (linked forwards only
later) and the one that is being taken out (already bypassed forwards). `Ends`: the first
and the last element are where the pointers say, and the last one is never
taken out. `NoneLost`: every set that holds the first element and is closed under
`pNext` holds all elements in use. This replaces a path by a closure property, which
needs no induction: to show that an element is still reached after a step, the set
in question is changed by that one element and the old property is applied. It also gives
`NoLoop`: an element that was its own successor could be left out. `InsertInv`
and `WalkInv` say where the threads are; `RequestsInv`, that the request of a
channel is in use, unmarked, and its own, so no worker frees it. The insertion
and the removal do not get in each other's way because a worker frees no
element without a successor, and the inserting thread writes to the last element only.
With two workers, what one of them takes out the other one neither stands on nor
goes to (`WalkInv`, `UnlinkInv`), for a removal while the other one is at an element leads to
`undermined`; the dummy of the first list is in no list and stays (`ForgottenInv`), and a
worker that has come to it from before the second startup leaves it at its end.

`TaskChartProofs` proves for any tasks and scheduler tasks, any task lists - also with
scheduler tasks in them - and any values that clients write, that `TaskSpec` of `TaskLib` keeps
`TaskInv` (`TaskEvents`) and `ExecutedInTime` (`TaskExecutedInTime`). The inductive
invariant `TaskIInv` has five parts besides the types. `StartedInv`: tasks are
executed only between the startup of the last and the shutdown of the first scheduler task.
`TaskEventsInv`: what the list holds of each scheduler task - an event if it is on,
at most one and none if it is off unless something may be left behind, and, while it
waits for its alarm, none with another time. It holds because `actimode_set` accepts
only switching on and switching off: without that guard `register` would add a second event.
`AlarmInv`: the parent of a task that waits sees the same time. `JumpInv`: `pjmpbuf`
points at a frame of a supervised task, so the return of that frame clears it; and all
frames but the first are of tasks that are in a task list, so the
switch with which a parent changes the mode of a returned child never touches a
task that only the scheduler executes. `ErrorIsOff` is the last part. A list may hold several events of
a task that was left behind, so the lemmas of the ordered list without duplicates do
not apply; those on `Touches` do.

It also proves for every chart - any steps, transitions, commands and names -
that `Spec` of `Ssc` keeps `TypeOK`, `OneActiveStep`, `FlagOfActiveStep` and
`EntryOncePerActivation`. The inductive invariant `SscInv` has, besides the
types, four parts. `LinkInv`: the list has one step at most, and the step that is
being executed, or that the local pointer of the chart names, is the one in it;
without that a transition could unlink the wrong step and leave two. `ModeInv`:
the linked step is on at the walk exactly in START. `FlagInv` and `EntryInv` need
`ModeInv` to know in which working state a step can have been executed. A
consequence: the branch "Internal linking failed" (`step.c:157-161`) is never
taken as long as nobody else links steps.

The last part of `SchedulerProofs` proves of `TimeArith`, for every width of the words and every length of a
second (two seconds must fit into half a word) that on normal operands
`ov_time_add` (`AddIsExact`) and `ov_time_diff` (`DiffIsExact`) are the addition and the difference of
microseconds, as long as the seconds of the sum fit and the times are less than
2^31 seconds apart; that the parts of a difference do not differ in sign; that
`ov_time_compare` is the order of the microseconds (`CompareIsOrder`); and that
adding a difference back gives the other time, part for part (`AddUndoesDiff`). The argument is that the
microseconds of two normal operands add up to less than two seconds and more
than minus one, so that one correction is enough, and that a carry into the
seconds is modulo the word as their addition was (`CarriedSeconds`). This is what lets
the other modules count time in numbers.

Every invariant and every action property of the passing runs is thereby proved. Only
model-checked: the liveness properties (fairness and `ENABLED` are out of the
prover's reach), and the violations. The inductive invariants of the proofs were
checked by TLC on the instances of the runs before they were proved.

## 5. Findings and observations

Violated by what the code does, each with its run:

1. *Nested supervision* (`supervise_nested`). `tasklib_Task_execute` ignores the
   result of `ov_supervise_start` and calls `ov_supervise_end` unconditionally
   (`Task.c:200-202`): a supervised task that calls another supervised task is
   not supervised for the rest of its execution. Function blocks do look at the
   result; `EndedByOwnerOnly` shows that nothing else ends a supervision early.
2. *Exit actions* (`ssc_exit`). The task of the exit actions is switched off by
   every reset of a step and set to ONCE only while the chart stops
   (`step.c:190-196`), where the comment at line 255 says that it is executed on
   leaving the step: an ordinary transition skips the exit actions.

3. *Element freed in the list* (`ares_deleted`). `TCPbind_TCPChannel_shutdown`
   frees the element of a connection that is still being opened
   (`TCPChannel.c:311`) and leaves it in the list of the worker, where
   `aresWorker.c:74` says that the last element is never deleted. Up to that step the
   list is sound (`ares`, `LastElementKept`).

Seen while modelling, part of the modelled behaviour, with no property of its
own:

* A supervised task of tasklib that was aborted has mode 0, but keeps its event
  (`SchedulerTask.c:137`); switching it on again registers a second one, and the old
  one executes the task before its alarm. `ExecutedInTime` and `EventIffOn`
  therefore leave aborted tasks out, and `NoEventAfterShutdown` lets them keep an event.
* The same happens to a scheduler task in the task list of another task: a parent
  changes the mode of a child that has returned without `activate`
  (`Task.c:166-182`), so a child that user code below it has switched on during its
  execution with mode 3 is switched off and keeps its event. `Nested` names these
  tasks. TLC finds the case on an instance with such a child.
* A urtask in mode UNLINK with a cycle time keeps its proctime
  (`fb_task.c:164-169, 542`): it is put back at its old time and executed without
  pause, and communication starves. `ClientsAreServed` excepts that mode.
* A chart whose init step is renamed in INIT starts with the old one: the list of
  the active step is filled one cycle earlier than it is used.
* An init step that is made an end step (`endStepName_set` does not look at the
  working state) leaves the chart without init step: `resetSsc` fails, and a
  stopped or terminated chart cannot be reset any more, since `initStepName_set`
  is refused outside INIT. `CommandsAreObeyed` excepts this case.
* STOP evaluates the transitions of the active step once more and executes the
  entry and do actions of the next one; behind a break it executes the do
  actions instead of the exit actions (`SequentialStateChart.c:359-368`).
* A dangling transition stops the chart with an empty list; while EN is still
  "start" it returns to START without an active step.
* `ov_scheduler_execnamedeventonce` executes *every* matching event and always
  returns FALSE, where its comment says "the first event" and "returns TRUE
  after execution" (`ov_scheduler.c:353-396`).
* When an object that it executes is removed, that function reads the next event
  from freed memory (`:370`): it may end early, go on elsewhere in the list, execute
  an object that is not registered any more, or crash. Before the server loop only; the
  loop itself keeps no pointer into the list. `DueEventRuns` and `StopRequestEndsServer`
  speak of a server whose loop has begun.
* A signal between the installation of the handler and `ov_server_run=TRUE`
  (`ov_runtimeserver.c:1454-1459`) is lost. `StopRequestEndsServer` therefore
  begins at the loop.
* `ov_supervise_start` arms the timer before it sets its flag: a timer that
  expires in between is spent. `ArmedTimeoutAborts` therefore begins with a
  running timer.
* `RootComTask` remembers its next child before the current one runs
  (`RootComTask.c:230`): right for a ComTask that deletes itself
  (`WalkOnExisting`), not for a request that deletes another one
  (`Manager.c:211`), for which `FollowFreed` takes any outcome.
* It computes the time of the next event once, before its loop (`:213`): an
  event that a request moves to the present waits for up to a second.
* While the activity lock is set its loop does not end, and a stop request is
  not seen until the lock is released; hence the exception in `ThreadGivenBack`.
* A method that unlinked another child from a list that is being walked could make
  the walk leave out the children behind it, since that child may be the one
  remembered. None in the repository does; `UnlinkTask` and `NoChildSkipped` are about
  methods that unlink their own block.
* `fb_task_setNextProcTime` stops at a proctime *equal* to the present, where its
  comment says "in the future".

Name resolution and channels:

* A socket is closed and then closed again by `socket_set`
  (`TCPChannel.c:305-307, 456-457, 669-670` and 85); the worker thread may have opened one with
  the same number in between.
* `AssociateClientHandler` may delete the channel (`:882`), which is used at
  `:534`; an undeliverable message deletes the channel that called its handler.
* A name that cannot be resolved leaves the channel OPENING with its request;
  a channel opened again while it is OPENING forgets its element. Neither is
  ever freed.
* A successful restart of the thread does not set `v_handleValid`
  (`aresWorker.c:357-399`): such a thread is not waited for at shutdown.
* At the start of an existing database the startup of the worker object runs
  twice, as nothing asks whether it has run (`aresWorker.c:265-299`). The dummy of
  the first list and the handle of the first thread are lost: the one is never freed, the
  other never joined. Both threads walk the second list; both may answer the
  same request (the second answer overwrites the socket of the first), and either
  may free an element that the other one stands on or goes to next (`:210-222`). The
  shutdown joins the second thread and frees the list under the first one (`:323-345`).
  `ListSound`, `LastElementKept`, `RequestAnswered` and `MarkedAreFreed` end where that happens.
* `ares` takes it that the stores of a thread become visible in program order,
  which nothing in the code enforces.

Database:

* A process killed during start-up leaves no root mark: the next start is not
  refused, and may die of what the killed one left (`TCPbind_open.c:152, 181`;
  `aresWorker.c:325` joins a thread of the earlier process). `KilledIsRefused`
  therefore begins with a session that was up, `CleanStartIsSafe` with a complete shutdown.
* A refused start of the main file never gets to the backup, which is loaded
  only when the main file cannot be. A backup written by a running server
  carries its mark; with NOMAP the mark is cleared in the copy only, and every
  start from that file is refused. `RetrySucceeds` excepts both.
* Writing the backup while the server runs on the backup truncates the file
  that is mapped (`ov_database.c:1568`; `WriteBackupDies`).
* On Unix the size of a file is not checked: the header is read, and compared is
  its size with itself (only the NT branch looks at the file, `ov_database.c:1191`).
  A backup that was cut off while it was written (the result of `fwrite` at 1573 is
  not looked at) is mapped or copied as far as it goes. `OwnsWhatItUses` and
  `EventsMatchDatabase` hold on it until the process meets what is missing; what one does
  that reads garbage there is not followed.
* A listener that cannot open its socket ends the open function before the
  worker is made (`TCPbind_open.c:171`), and reports success.

Messages:

* A channel that has sent everything deletes itself; the next execution of the
  delivery dereferences the null pointer (`MsgDelivery.c:183`). `SenderDiesAfterSending` bounds the damage: a
  message that expects no answer has been handed over when it happens.
* Only messages sent by ksapi set `sendTime`: a direct message is dropped from the
  queue at the next execution, and its channel goes on alone.
* A time-out of a ksapi message does not reset the client: the next message is
  refused with the status of one that waits, and the late answer completes it
  (`CompletedIsDelivered`, `Excused`).
* A first piece shorter than the tag deletes the channel and loses the message;
  a channel that waits for an answer may delete itself while it is opening.
* Channels of the sender that end CLOSED, SENDERROR or COULDNOTOPEN stay for
  ever.

## 6. Not modelled

* The platform branches for Windows, OpenVMS and MC164.
* Deletion of active objects by their clients, other than ComTasks and the objects of `Database`.
* The failure to create a worker thread in `Database` (it is in `AresWorker`).
* Creating a database, moving it to another address, loading a library into a
  running server, renaming; a loss of power, which may lose stores.
* Linking and unlinking in tasklib, triggering of connections in fb.
* Action blocks of steps, and charts that are executed by them as sub-charts.
* Answers over a kept connection, a second message in the same buffer, failed
  allocations in the channels; the UDP binding.
* Parsing, printing and logging; option handling of the server; protocols.
* Vendored code (open62541, sqlite, zlib, the allocator; most of the lines of the
  repository) and the addon libraries other than the message system and ksapi.

## 7. Plan

1. `Association`: links as doubly linked lists that implement a sequence of
   children; the closure property of `AresWorker` is the way to prove about them.
2. `Manager`: registration with expiry, over the walk of `RootComTask`.
3. `FbConnection`: cached elements against deletion of blocks.
4. Sub-charts of `Ssc`, and answers over kept connections in `MessageSys`.
