------------------------- MODULE RootComTaskProofs -------------------------
(***************************************************************************)
(* The invariants of the communication task, for any set of ComTasks, any  *)
(* intervals and any requests that RootComTask allows.                     *)
(***************************************************************************)
EXTENDS RootComTask, EventQueueProofs

Objs == {Root, Other}

---------------------------------------------------------------------------
(* The list of the ComTasks.                                               *)

\* The next child of a ComTask is another one that is linked, or none.
LEMMA NextChildLinked ==
    ASSUME IsListOf(list, Tasks), NEW t \in Tasks
    PROVE  NextChild(t) \in Linked \cup {NoTask} /\ NextChild(t) # t
  <1> DEFINE p == PlaceOf(list, t)
  <1>1. /\ Len(list) \in Nat /\ Linked = {list[i] : i \in 1..Len(list)}
        /\ \A i, j \in 1..Len(list) : list[i] = list[j] => i = j
    BY ListPlaces DEF Linked
  <1>2. p \in 0..Len(list) /\ (p # 0 => list[p] = t)
    BY PlaceFinds
  <1>n. NextChild(t) = IF p \in 1..(Len(list) - 1) THEN list[p + 1] ELSE NoTask
    BY DEF NextChild, PlaceOf
  <1> HIDE DEF p
  <1>3. CASE p \in 1..(Len(list) - 1)
    <2>1. /\ NextChild(t) = list[p + 1] /\ p \in 1..Len(list) /\ p + 1 \in 1..Len(list)
          /\ list[p] = t /\ p + 1 # p
      BY <1>1, <1>2, <1>n, <1>3
    <2> QED BY <1>1, <2>1
  <1>4. CASE p \notin 1..(Len(list) - 1)
    BY <1>n, <1>4, TasksAssumption
  <1> QED BY <1>3, <1>4

\* The first child is linked, if there is one.
LEMMA FirstChildLinked ==
    ASSUME IsListOf(list, Tasks)
    PROVE  FirstChild \in Linked \cup {NoTask}
  BY HeadOfList DEF FirstChild, Linked

---------------------------------------------------------------------------
(* The inductive invariant.                                                *)

\* Everything but the two lists has its type.
LocalsOK ==
    /\ phase \in {"startup", "loop", "walk", "child", "sleep", "down"}
    /\ actimode \in [Tasks -> {0, 1}]
    /\ cycInterval \in [Tasks -> Intervals] /\ NextExecTime \in [Tasks -> Nat]
    /\ childTask \in Pointers /\ nextChild \in Pointers
    /\ time_next \in Nat /\ earliestChild \in Nat /\ before \in BOOLEAN
    /\ delay \in 0..1
    /\ activitylock \in BOOLEAN /\ server_run \in BOOLEAN /\ signalled \in BOOLEAN
    /\ intruded \subseteq {"deleted", "moved"}

\* The event list is well-formed and has both objects while the loop runs.
QueueInv ==
    /\ WellFormed(queue, Objs)
    /\ phase = "startup" => queue = <<>>
    /\ phase \notin {"startup", "down"} => ObjectsOf(queue) = Objs

\* The pointer the walk goes on with, behind an executed child or not, is to a
\* linked ComTask until a request deletes one; it is never the executed child,
\* which may be deleted and created again by its own typemethod.
WalkInv ==
    /\ IsListOf(list, Tasks)
    /\ phase = "walk" => childTask \in Linked \cup {NoTask} \/ "deleted" \in intruded
    /\ phase = "child" =>
        /\ childTask \in Tasks /\ nextChild # childTask
        /\ nextChild \in Linked \cup {NoTask} \/ "deleted" \in intruded

OtherTime == TimeOf(queue)[Other]

\* time_next is no later than the event of the other object as long as it is
\* still to come, and no child makes the sleep longer than that.
SleepInv ==
    phase \in {"walk", "child", "sleep"} =>
        /\ earliestChild <= time_next
        /\ "moved" \notin intruded /\ time_next > 1 => time_next <= OtherTime
        /\ phase = "sleep" /\ delay > 0 /\ "moved" \notin intruded => OtherTime >= 2

RootIInv == LocalsOK /\ QueueInv /\ WalkInv /\ SleepInv

\* The inductive invariant gives the three invariants of the specification.
LEMMA RootIInvImplies == RootIInv => RootInv /\ WalkOnExisting /\ NotPastNextEvent
  <1> SUFFICES ASSUME RootIInv PROVE RootInv /\ WalkOnExisting /\ NotPastNextEvent
    OBVIOUS
  <1>1. RootInv
    BY DEF RootIInv, RootInv, TypeOK, BothScheduled, LocalsOK, QueueInv, WalkInv,
           WellFormed, IsListOf, Objs
  <1>2. WalkOnExisting
    BY DEF RootIInv, WalkInv, WalkOnExisting
  <1>3. NotPastNextEvent
    <2> SUFFICES ASSUME phase = "sleep", delay > 0, "moved" \notin intruded,
                        NEW i \in 1..Len(queue), queue[i].obj = Other
                 PROVE  now + delay <= queue[i].time
      BY DEF NotPastNextEvent
    <2>1. queue[i] \in Range(queue)
      BY RangeOfList DEF RootIInv, QueueInv, WellFormed
    <2>2. OtherTime = queue[i].time
      BY <2>1, TimeOfEvent DEF RootIInv, QueueInv, OtherTime
    <2>3. OtherTime >= 2 /\ delay = 1
      BY DEF RootIInv, SleepInv, LocalsOK
    <2>4. OtherTime \in Nat
      BY <2>2, EventsOfList DEF RootIInv, QueueInv, WellFormed
    <2> QED BY <2>2, <2>3, <2>4 DEF now
  <1> QED BY <1>1, <1>2, <1>3

\* The server starts in the invariant.
LEMMA RootInit == Init => RootIInv
  <1> SUFFICES ASSUME Init PROVE RootIInv
    OBVIOUS
  <1>1. LocalsOK
    <2>1. /\ actimode \in [Tasks -> {0, 1}] /\ NextExecTime \in [Tasks -> Nat]
          /\ time_next \in Nat /\ earliestChild \in Nat /\ delay \in 0..1
      BY DEF Init
    <2>2. /\ before \in BOOLEAN /\ activitylock \in BOOLEAN /\ server_run \in BOOLEAN
          /\ signalled \in BOOLEAN
      BY DEF Init
    <2> QED BY <2>1, <2>2 DEF Init, LocalsOK, Pointers
  <1>2. QueueInv
    <2>1. Len(queue) = 0 /\ queue \in Seq(Events(Objs))
      BY EmptySeq DEF Init
    <2> QED BY <2>1 DEF Init, QueueInv, WellFormed, Sorted, OnePerObject
  <1>3. WalkInv
    BY TasksAssumption DEF Init, WalkInv, IsListOf
  <1>4. SleepInv
    BY DEF Init, SleepInv
  <1> QED BY <1>1, <1>2, <1>3, <1>4 DEF RootIInv

---------------------------------------------------------------------------
(* Types.                                                                  *)

\* The sleep is no time or one second.
LEMMA LimitedType ==
    ASSUME NEW span \in Int
    PROVE  Limited(span) \in 0..1
  BY DEF Limited

\* A second that passes keeps naturals.
LEMMA EarlierType ==
    ASSUME NEW t \in Nat
    PROVE  Earlier(t) \in Nat /\ Earlier(t) <= t
  BY DEF Earlier

\* The end of the waiting of the root task is in this second or the next.
LEMMA TimeNextType ==
    ASSUME NEW q, WellFormed(q, Objs)
    PROVE  TimeNext(q) \in Nat
  <1>1. Len(q) \in Nat /\ \A k \in 1..Len(q) : q[k].time \in Nat
    BY EventsOfList DEF WellFormed
  <1>2. CASE activitylock \/ Len(q) < 2
    BY <1>2 DEF TimeNext, now
  <1>3. CASE ~(activitylock \/ Len(q) < 2)
    <2>1. 2 \in 1..Len(q)
      BY <1>1, <1>3
    <2>2. q[2].time - now \in Int
      BY <1>1, <2>1 DEF now
    <2>3. TimeNext(q) = 1 + Limited(q[2].time - now)
      BY <1>3 DEF TimeNext, now
    <2> QED BY <2>2, <2>3, LimitedType
  <1> QED BY <1>2, <1>3

\* Every step keeps the types.
LEMMA LocalsNext ==
    ASSUME RootIInv, [Next]_vars, QueueInv'
    PROVE  LocalsOK'
  <1>0. LocalsOK
    BY DEF RootIInv
  <1>p. NoTask \in Pointers /\ Freed \in Pointers /\ Tasks \subseteq Pointers
        /\ Linked \subseteq Pointers
    BY ListPlaces DEF Pointers, RootIInv, WalkInv, Linked
  <1>e. FirstChild \in Pointers /\ \A t \in Tasks : NextChild(t) \in Pointers
    BY <1>p, FirstChildLinked, NextChildLinked DEF RootIInv, WalkInv
  <1>i. \A t \in Tasks : cycInterval[t] \in Nat /\ now + cycInterval[t] \in Nat
    <2>1. cycInterval \in [Tasks -> Intervals] /\ Intervals \subseteq Nat
      BY <1>0, BoundsAssumption DEF LocalsOK
    <2>2. \A t \in Tasks : cycInterval[t] \in Nat
      BY <2>1
    <2>3. \A n \in Nat : now + n \in Nat
      BY DEF now
    <2> QED BY <2>2, <2>3
  <1>1. ASSUME Startup \/ RunOther \/ LeaveLoop PROVE LocalsOK'
    BY <1>0, <1>1 DEF LocalsOK, Startup, RunOther, LeaveLoop, taskvars, locals, server
  <1>1a. ASSUME Signal PROVE LocalsOK'
    <2>1. server_run' \in BOOLEAN /\ signalled' \in BOOLEAN
      BY <1>1a DEF Signal
    <2>2. delay' \in 0..1
      BY <1>1a DEF Signal
    <2> QED BY <1>0, <1>1a, <2>1, <2>2 DEF LocalsOK, Signal, taskvars, locals
  <1>2. ASSUME RunRoot PROVE LocalsOK'
    <2>1. time_next' \in Nat
      <3>1. WellFormed(queue', Objs) /\ activitylock' = activitylock
        BY <1>2 DEF QueueInv, RunRoot, server
      <3> QED BY <1>2, <3>1, TimeNextType DEF RunRoot
    <2> QED BY <1>0, <1>2, <1>e, <2>1 DEF LocalsOK, RunRoot, BeginWalk, taskvars, server
  <1>3. ASSUME SkipChild PROVE LocalsOK'
    BY <1>0, <1>3, <1>e DEF LocalsOK, SkipChild, InWalk, taskvars, server
  <1>4. ASSUME RunChild PROVE LocalsOK'
    <2>1. childTask \in Tasks /\ now + cycInterval[childTask] \in Nat
      BY <1>4, <1>i DEF RunChild, InWalk
    <2>2. NextExecTime' \in [Tasks -> Nat] /\ NextExecTime'[childTask] \in Nat
      BY <1>0, <1>4, <2>1 DEF LocalsOK, RunChild
    <2>3. earliestChild' \in Nat
      BY <1>0, <1>4, <2>2 DEF LocalsOK, RunChild
    <2> QED BY <1>0, <1>4, <1>e, <2>1, <2>2, <2>3 DEF LocalsOK, RunChild, server
  <1>5. ASSUME ChildReturns PROVE LocalsOK'
    BY <1>0, <1>5 DEF LocalsOK, ChildReturns, NextPointer, taskvars, server
  <1>6. ASSUME FollowFreed PROVE LocalsOK'
    BY <1>0, <1>6, <1>p DEF LocalsOK, FollowFreed, taskvars, server
  <1>7. ASSUME EndWalk PROVE LocalsOK'
    <2>1. Limited(earliestChild - now) \in 0..1
      BY <1>0, LimitedType DEF LocalsOK, now
    <2>2. delay' \in 0..1 /\ before' \in BOOLEAN
      BY <1>7, <2>1 DEF EndWalk, SleepTimes
    <2> QED BY <1>0, <1>7, <2>2 DEF LocalsOK, EndWalk, taskvars, server
  <1>8. ASSUME NextWalk PROVE LocalsOK'
    BY <1>0, <1>8, <1>e DEF LocalsOK, NextWalk, BeginWalk, taskvars, server
  <1>9. ASSUME RootReturns PROVE LocalsOK'
    BY <1>0, <1>9 DEF LocalsOK, RootReturns, taskvars, locals, server
  <1>10. ASSUME NEW t \in Tasks, CreateTask(t) PROVE LocalsOK'
    BY <1>0, <1>10, <1>i DEF LocalsOK, CreateTask, locals, server
  <1>11. ASSUME NEW t \in Tasks, DeleteTask(t) PROVE LocalsOK'
    <2>1. nextChild' \in Pointers
      BY <1>0, <1>11, <1>p DEF DeleteTask, AfterFree, LocalsOK
    <2>2. intruded' \subseteq {"deleted", "moved"}
      BY <1>0, <1>11 DEF DeleteTask, LocalsOK
    <2> QED BY <1>0, <1>11, <2>1, <2>2 DEF LocalsOK, DeleteTask, server
  <1>12. ASSUME NEW t \in Tasks, NEW mode \in {0, 1}, SetActimode(t, mode) PROVE LocalsOK'
    BY <1>0, <1>12 DEF LocalsOK, SetActimode, locals, server
  <1>13. ASSUME NEW t \in Tasks, NEW value \in Intervals, SetCycInterval(t, value)
         PROVE  LocalsOK'
    BY <1>0, <1>13 DEF LocalsOK, SetCycInterval, locals, server
  <1>14. ASSUME NEW b \in LockValues, SetActivityLock(b) PROVE LocalsOK'
    BY <1>0, <1>14, BoundsAssumption DEF LocalsOK, SetActivityLock, taskvars, locals
  <1>15. ASSUME MoveOther PROVE LocalsOK'
    <2>1. intruded' \subseteq {"deleted", "moved"}
      BY <1>0, <1>15 DEF MoveOther, LocalsOK
    <2> QED BY <1>0, <1>15, <2>1 DEF LocalsOK, MoveOther, taskvars, locals, server
  <1>16. ASSUME Tick PROVE LocalsOK'
    <2>1. NextExecTime' \in [Tasks -> Nat]
      BY <1>0, <1>16, EarlierType DEF Tick, LocalsOK
    <2>2. time_next' \in Nat /\ earliestChild' \in Nat
      BY <1>0, <1>16, EarlierType DEF Tick, LocalsOK
    <2>3. delay' \in 0..1
      BY <1>0, <1>16 DEF Tick, LocalsOK, Earlier
    <2> QED BY <1>0, <1>16, <2>1, <2>2, <2>3 DEF LocalsOK, Tick, server
  <1>17. ASSUME Done \/ UNCHANGED vars PROVE LocalsOK'
    BY <1>0, <1>17 DEF LocalsOK, Done, vars, taskvars, locals, server
  <1> QED BY <1>1, <1>1a, <1>2, <1>3, <1>4, <1>5, <1>6, <1>7, <1>8, <1>9, <1>10, <1>11,
             <1>12, <1>13, <1>14, <1>15, <1>16, <1>17 DEF Next, RootStep, RequestStep

---------------------------------------------------------------------------
(* The event list.                                                         *)

\* The list after a second.
AfterTick(q) == [i \in 1..Len(q) |-> Event(q[i].obj, Earlier(q[i].time))]

\* A second that passes moves every event and changes nothing else.
LEMMA TickKeeps ==
    ASSUME NEW q, WellFormed(q, Objs)
    PROVE  /\ WellFormed(AfterTick(q), Objs)
           /\ ObjectsOf(AfterTick(q)) = ObjectsOf(q)
           /\ \A o \in ObjectsOf(q) : TimeOf(AfterTick(q))[o] = Earlier(TimeOf(q)[o])
  <1> DEFINE r == AfterTick(q)
             n == Len(q)
  <1>1. n \in Nat /\ \A k \in 1..n : q[k].obj \in Objs /\ q[k].time \in Nat
    BY EventsOfList DEF WellFormed
  <1>2. \A k \in 1..n : Event(q[k].obj, Earlier(q[k].time)) \in Events(Objs)
    BY <1>1, EarlierType DEF Event, Events
  <1>3. r \in Seq(Events(Objs)) /\ Len(r) = n
    <2>1. r \in [1..n -> Events(Objs)]
      BY <1>2 DEF AfterTick
    <2> HIDE DEF r
    <2>2. r \in Seq(Events(Objs))
      BY <1>1, <2>1, IsASeq
    <2>3. Len(r) = n
      BY <1>1, <2>1, <2>2, LenProperties
    <2> QED BY <2>2, <2>3
  <1>4. \A k \in 1..n : r[k].obj = q[k].obj /\ r[k].time = Earlier(q[k].time)
    BY DEF AfterTick, Event
  <1> HIDE DEF r
  <1>5. Sorted(r)
    <2> SUFFICES ASSUME NEW i \in 1..n, NEW j \in 1..n, i <= j
                 PROVE  r[i].time <= r[j].time
      BY <1>3 DEF Sorted
    <2>1. q[i].time <= q[j].time
      BY DEF WellFormed, Sorted
    <2> QED BY <1>1, <1>4, <2>1 DEF Earlier
  <1>6. OnePerObject(r)
    BY <1>3, <1>4 DEF OnePerObject, WellFormed
  <1>7. ObjectsOf(r) = ObjectsOf(q)
    BY <1>3, <1>4 DEF ObjectsOf
  <1>8. WellFormed(r, Objs)
    BY <1>3, <1>5, <1>6 DEF WellFormed
  <1>9. ASSUME NEW o \in ObjectsOf(q) PROVE TimeOf(r)[o] = Earlier(TimeOf(q)[o])
    <2>1. PICK k \in 1..n : q[k].obj = o
      BY DEF ObjectsOf
    <2>2. q[k] \in Range(q) /\ r[k] \in Range(r)
      BY <1>3, RangeOfList DEF WellFormed
    <2>3. TimeOf(q)[o] = q[k].time /\ TimeOf(r)[o] = r[k].time
      BY <1>4, <1>8, <2>1, <2>2, TimeOfEvent
    <2> QED BY <1>4, <2>3
  <1> QED BY <1>7, <1>8, <1>9 DEF r

\* The list after each step that changes it.
LEMMA QueueNext ==
    ASSUME RootIInv, [Next]_vars
    PROVE  QueueInv'
  <1>0. QueueInv /\ Root \in Objs /\ Other \in Objs /\ now \in Nat /\ now + 1 \in Nat
        /\ now + OtherCycle \in Nat
    BY BoundsAssumption DEF RootIInv, Objs, now
  <1>w. WellFormed(queue, Objs)
    BY <1>0 DEF QueueInv
  <1>1. ASSUME Startup PROVE QueueInv'
    <2>0. ObjectsOf(queue) = {} /\ Root # Other
      BY <1>0, <1>1, TasksAssumption, EmptySeq DEF Startup, QueueInv, ObjectsOf
    <2> DEFINE q1 == register(queue, Other, now)
               q2 == register(q1, Root, now)
    <2>1. WellFormed(q1, Objs) /\ ObjectsOf(q1) = {Other}
      BY <1>0, <1>w, <2>0, RegisterKeeps
    <2> HIDE DEF q1
    <2>2. WellFormed(q2, Objs) /\ ObjectsOf(q2) = Objs
      BY <1>0, <2>0, <2>1, RegisterKeeps DEF Objs
    <2> HIDE DEF q2
    <2>3. queue' = setabseventtime(q2, Root, now + 1)
      BY <1>1 DEF Startup, q1, q2
    <2>4. WellFormed(queue', Objs) /\ ObjectsOf(queue') = Objs
      BY <1>0, <2>2, <2>3, SetAbsEventTimeKeeps
    <2> QED BY <1>1, <2>4 DEF Startup, QueueInv
  <1>2. ASSUME RunOther PROVE QueueInv'
    <2> DEFINE q1 == requeuehead(queue, now)
    <2>1. queue # <<>> /\ phase = "loop" /\ ObjectsOf(queue) = Objs
      BY <1>0, <1>2 DEF RunOther, Executes, HeadDue, QueueInv
    <2>2. WellFormed(q1, Objs) /\ ObjectsOf(q1) = Objs
      BY <1>0, <1>w, <2>1, RequeueHeadKeeps
    <2> HIDE DEF q1
    <2>3. queue' = setabseventtime(q1, Other, now + OtherCycle) /\ phase' = phase
      BY <1>2 DEF RunOther, q1
    <2>4. WellFormed(queue', Objs) /\ ObjectsOf(queue') = Objs
      BY <1>0, <2>2, <2>3, SetAbsEventTimeKeeps
    <2> QED BY <2>1, <2>3, <2>4 DEF QueueInv
  <1>3. ASSUME LeaveLoop PROVE QueueInv'
    <2> DEFINE q1 == unregister(queue, Root)
    <2>1. WellFormed(q1, Objs)
      BY <1>w, UnregisterKeeps
    <2> HIDE DEF q1
    <2>2. queue' = unregister(q1, Other) /\ phase' = "down"
      BY <1>3 DEF LeaveLoop, q1
    <2>3. WellFormed(queue', Objs)
      BY <2>1, <2>2, UnregisterKeeps
    <2> QED BY <2>2, <2>3 DEF QueueInv
  <1>4. ASSUME RunRoot PROVE QueueInv'
    <2>1. /\ queue # <<>> /\ phase = "loop" /\ ObjectsOf(queue) = Objs /\ phase' = "walk"
          /\ queue' = requeuehead(queue, now)
      BY <1>0, <1>4 DEF RunRoot, Executes, HeadDue, QueueInv, BeginWalk
    <2>2. WellFormed(queue', Objs) /\ ObjectsOf(queue') = Objs
      BY <1>0, <1>w, <2>1, RequeueHeadKeeps
    <2> QED BY <2>1, <2>2 DEF QueueInv
  <1>5. ASSUME RootReturns \/ MoveOther PROVE QueueInv'
    <2>1. /\ phase \in {"sleep", "child"} /\ phase' \in {"loop", "child"}
          /\ \E o \in Objs, t \in Nat : queue' = setabseventtime(queue, o, t)
      BY <1>0, <1>5 DEF RootReturns, MoveOther, RescheduledAt
    <2>2. WellFormed(queue', Objs) /\ ObjectsOf(queue') = Objs
      BY <1>0, <1>w, <2>1, SetAbsEventTimeKeeps DEF QueueInv
    <2> QED BY <2>1, <2>2 DEF QueueInv
  <1>6. ASSUME Tick PROVE QueueInv'
    <2>1. queue' = AfterTick(queue) /\ phase' = phase /\ phase \notin {"startup", "down"}
      BY <1>6 DEF Tick, AfterTick
    <2>2. WellFormed(queue', Objs) /\ ObjectsOf(queue') = ObjectsOf(queue)
      BY <1>w, <2>1, TickKeeps
    <2> QED BY <1>0, <2>1, <2>2 DEF QueueInv
  <1>7. ASSUME queue' = queue,
               phase' = phase \/ {phase, phase'} \subseteq {"loop", "walk", "child", "sleep"}
        PROVE  QueueInv'
    BY <1>0, <1>7 DEF QueueInv
  <1>8. ASSUME \/ Signal \/ SkipChild \/ RunChild \/ ChildReturns \/ FollowFreed
               \/ EndWalk \/ NextWalk \/ Done \/ UNCHANGED vars
        PROVE  QueueInv'
    BY <1>7, <1>8 DEF Signal, SkipChild, RunChild, ChildReturns, FollowFreed, EndWalk,
                      NextWalk, BeginWalk, InWalk, Done, vars
  <1>9. ASSUME NEW t, CreateTask(t) \/ DeleteTask(t)
                      \/ (\E mode : SetActimode(t, mode))
                      \/ (\E value : SetCycInterval(t, value)) \/ SetActivityLock(t)
        PROVE  QueueInv'
    BY <1>7, <1>9 DEF CreateTask, DeleteTask, SetActimode, SetCycInterval, SetActivityLock
  <1> QED BY <1>1, <1>2, <1>3, <1>4, <1>5, <1>6, <1>8, <1>9
          DEF Next, RootStep, RequestStep

---------------------------------------------------------------------------
(* The walk along the ComTasks.                                            *)

\* Every step keeps the pointers of the walk.
LEMMA WalkNext ==
    ASSUME RootIInv, [Next]_vars
    PROVE  WalkInv'
  <1>0. WalkInv /\ LocalsOK /\ IsListOf(list, Tasks) /\ NoTask \notin Tasks
        /\ Freed \notin Tasks
    BY TasksAssumption DEF RootIInv, WalkInv
  <1>f. FirstChild \in Linked \cup {NoTask}
    BY <1>0, FirstChildLinked
  <1>n. \A t \in Tasks : NextChild(t) \in Linked \cup {NoTask} /\ NextChild(t) # t
    BY <1>0, NextChildLinked
  <1>1. ASSUME list' = list, phase' \notin {"walk", "child"} PROVE WalkInv'
    BY <1>0, <1>1 DEF WalkInv
  <1>2. ASSUME list' = list, UNCHANGED <<phase, childTask, nextChild>>,
               intruded \subseteq intruded'
        PROVE  WalkInv'
    BY <1>0, <1>2 DEF WalkInv, Linked
  <1>3. ASSUME RunRoot \/ NextWalk PROVE WalkInv'
    BY <1>0, <1>3, <1>f DEF RunRoot, NextWalk, BeginWalk, WalkInv, Linked, taskvars
  <1>4. ASSUME SkipChild PROVE WalkInv'
    BY <1>0, <1>4, <1>n DEF SkipChild, InWalk, WalkInv, Linked, taskvars
  <1>5. ASSUME RunChild PROVE WalkInv'
    BY <1>0, <1>5, <1>n DEF RunChild, InWalk, WalkInv, Linked
  <1>6. ASSUME ChildReturns PROVE WalkInv'
    BY <1>0, <1>6 DEF ChildReturns, NextPointer, WalkInv, Linked, taskvars
  <1>7. ASSUME FollowFreed PROVE WalkInv'
    BY <1>0, <1>7 DEF FollowFreed, WalkInv, Linked, taskvars
  <1>8. ASSUME NEW t \in Tasks, CreateTask(t) PROVE WalkInv'
    <2>1. IsListOf(list', Tasks) /\ Linked' = Linked \cup {t}
      BY <1>0, <1>8, AppendKeepsList DEF CreateTask, Linked
    <2> QED BY <1>0, <1>8, <2>1 DEF CreateTask, WalkInv, locals
  <1>9. ASSUME NEW t \in Tasks, DeleteTask(t) PROVE WalkInv'
    <2>1. IsListOf(list', Tasks) /\ Linked' = Linked \ {t}
      BY <1>0, <1>9, RemoveFirstKeepsList DEF DeleteTask, Linked
    <2>2. /\ phase = "child" /\ phase' = "child" /\ childTask' = childTask
          /\ childTask \in Tasks /\ nextChild # childTask
          /\ nextChild \in Linked \cup {NoTask} \/ "deleted" \in intruded
          /\ nextChild' = IF nextChild = t THEN Freed ELSE nextChild
      BY <1>0, <1>9 DEF DeleteTask, WalkInv, AfterFree
    <2>3. nextChild' # childTask'
      BY <1>0, <2>2
    <2>4. CASE t = childTask
      <3>1. intruded' = intruded /\ nextChild' = nextChild
        BY <1>9, <2>2, <2>4 DEF DeleteTask
      <3> QED BY <2>1, <2>2, <2>3, <2>4, <3>1 DEF WalkInv
    <2>5. CASE t # childTask
      <3>1. "deleted" \in intruded'
        BY <1>9, <2>5 DEF DeleteTask
      <3> QED BY <2>1, <2>2, <2>3, <3>1 DEF WalkInv
    <2> QED BY <2>4, <2>5
  <1>10. ASSUME Startup \/ LeaveLoop \/ EndWalk \/ RootReturns PROVE WalkInv'
    BY <1>1, <1>10 DEF Startup, LeaveLoop, EndWalk, RootReturns, taskvars
  <1>11. ASSUME RunOther \/ Signal \/ MoveOther \/ Tick \/ Done \/ UNCHANGED vars
         PROVE  WalkInv'
    BY <1>2, <1>11 DEF RunOther, Signal, MoveOther, Tick, Done, vars, taskvars, locals
  <1>12. ASSUME NEW t, \/ \E mode : SetActimode(t, mode)
                       \/ \E value : SetCycInterval(t, value)
                       \/ SetActivityLock(t)
         PROVE  WalkInv'
    BY <1>2, <1>12 DEF SetActimode, SetCycInterval, SetActivityLock, taskvars, locals
  <1> QED BY <1>3, <1>4, <1>5, <1>6, <1>7, <1>8, <1>9, <1>10, <1>11, <1>12
          DEF Next, RootStep, RequestStep

---------------------------------------------------------------------------
(* The sleep of the root task.                                             *)

\* With both objects in the list, the second event is the one of the other
\* object unless that one is over: the root task's own event, which has just
\* been given the current time, stands behind it only then.
LEMMA TimeNextBound ==
    ASSUME NEW q, WellFormed(q, Objs), ObjectsOf(q) = Objs, ~activitylock,
           Event(Root, 1) \in Range(q), TimeNext(q) > 1
    PROVE  TimeNext(q) <= TimeOf(q)[Other]
  <1>1. /\ Len(q) \in Nat
        /\ \A k \in 1..Len(q) : q[k].obj \in Objs /\ q[k].time \in Nat
    BY EventsOfList DEF WellFormed
  <1>2. Len(q) >= 2
    <2>1. PICK i, j \in 1..Len(q) : q[i].obj = Root /\ q[j].obj = Other
      BY DEF ObjectsOf, Objs
    <2>2. i # j
      BY <2>1, TasksAssumption
    <2> QED BY <1>1, <2>2
  <1>3. 2 \in 1..Len(q) /\ q[2] \in Range(q)
    BY <1>1, <1>2, RangeOfList DEF WellFormed
  <1>4. TimeNext(q) = 1 + Limited(q[2].time - 1) /\ q[2].time \in Nat
    BY <1>1, <1>2, <1>3 DEF TimeNext, now
  <1>5. TimeOf(q)[q[2].obj] = q[2].time
    BY <1>3, TimeOfEvent
  <1>6. CASE q[2].obj = Root
    <2>1. TimeOf(q)[Root] = 1
      BY TimeOfEvent DEF Event
    <2> QED BY <1>4, <1>5, <1>6, <2>1 DEF Limited
  <1>7. CASE q[2].obj = Other
    BY <1>4, <1>5, <1>7 DEF Limited
  <1> QED BY <1>1, <1>3, <1>6, <1>7 DEF Objs

\* Every step keeps the bounds of the sleep.
LEMMA SleepNext ==
    ASSUME RootIInv, [Next]_vars, QueueInv', LocalsOK'
    PROVE  SleepInv'
  <1>0. /\ SleepInv /\ QueueInv /\ WellFormed(queue, Objs)
        /\ time_next \in Nat /\ earliestChild \in Nat /\ delay \in 0..1
    BY DEF RootIInv, LocalsOK, QueueInv
  <1>t. phase \in {"walk", "child", "sleep"} => OtherTime \in Nat
    BY <1>0, TimeOfEvent DEF QueueInv, OtherTime, Objs
  <1>1. ASSUME phase' \notin {"walk", "child", "sleep"} PROVE SleepInv'
    BY <1>1 DEF SleepInv
  <1>2. ASSUME UNCHANGED <<queue, time_next, earliestChild>>,
               phase' = phase \/ (phase \in {"walk", "child"} /\ phase' \in {"walk", "child"}),
               delay' = delay \/ delay' = 0, intruded \subseteq intruded'
        PROVE  SleepInv'
    BY <1>0, <1>2 DEF SleepInv, OtherTime
  <1>3. ASSUME RunRoot PROVE SleepInv'
    <2>1. /\ phase' = "walk" /\ time_next' = TimeNext(queue') /\ earliestChild' = time_next'
          /\ ~activitylock /\ queue # <<>> /\ Head(queue).obj = Root
          /\ queue' = requeuehead(queue, 1)
      BY <1>3 DEF RunRoot, BeginWalk, Executes, HeadDue, now
    <2>2. WellFormed(queue', Objs) /\ ObjectsOf(queue') = Objs
      BY <2>1 DEF QueueInv
    <2>3. Event(Root, 1) \in Range(queue')
      BY <1>0, <2>1, RequeueHeadRange
    <2>4. time_next' \in Nat
      BY DEF LocalsOK
    <2>5. time_next' > 1 => time_next' <= OtherTime'
      BY <2>1, <2>2, <2>3, TimeNextBound DEF OtherTime
    <2> QED BY <2>1, <2>4, <2>5 DEF SleepInv
  <1>4. ASSUME RunChild PROVE SleepInv'
    <2>1. earliestChild' \in Nat /\ earliestChild' <= earliestChild
      <3>1. NextExecTime'[childTask] \in Nat
        BY <1>4 DEF RunChild, InWalk, LocalsOK
      <3> QED BY <1>0, <1>4, <3>1 DEF RunChild
    <2>2. UNCHANGED <<queue, time_next, intruded>> /\ phase = "walk" /\ phase' = "child"
      BY <1>4 DEF RunChild, InWalk
    <2> QED BY <1>0, <2>1, <2>2 DEF SleepInv, OtherTime
  <1>5. ASSUME EndWalk PROVE SleepInv'
    <2>1. /\ phase = "walk" /\ phase' = "sleep" /\ delay' \in {0, Limited(earliestChild - 1)}
          /\ UNCHANGED <<queue, time_next, earliestChild, intruded>>
      BY <1>5 DEF EndWalk, SleepTimes, now
    <2>2. delay' > 0 => earliestChild >= 2
      BY <1>0, <2>1 DEF Limited
    <2>3. /\ earliestChild <= time_next
          /\ "moved" \notin intruded /\ time_next > 1 => time_next <= OtherTime
      BY <1>0, <2>1 DEF SleepInv
    <2>4. delay' > 0 /\ "moved" \notin intruded => OtherTime >= 2
      BY <1>0, <1>t, <2>1, <2>2, <2>3
    <2> QED BY <2>1, <2>3, <2>4 DEF SleepInv, OtherTime
  <1>6. ASSUME NextWalk PROVE SleepInv'
    <2>1. /\ phase = "sleep" /\ phase' = "walk" /\ earliestChild' = time_next
          /\ UNCHANGED <<queue, time_next, intruded>>
      BY <1>6 DEF NextWalk, BeginWalk
    <2> QED BY <1>0, <2>1 DEF SleepInv, OtherTime
  <1>7. ASSUME MoveOther PROVE SleepInv'
    BY <1>0, <1>7 DEF MoveOther, SleepInv, locals
  <1>8. ASSUME Tick PROVE SleepInv'
    <2> SUFFICES ASSUME phase \in {"walk", "child", "sleep"} PROVE SleepInv'
      BY <1>8 DEF Tick, SleepInv
    <2>1. /\ queue' = AfterTick(queue) /\ phase' = phase /\ intruded' = intruded
          /\ time_next' = Earlier(time_next) /\ earliestChild' = Earlier(earliestChild)
          /\ delay' = Earlier(delay)
      BY <1>8 DEF Tick, AfterTick
    <2>2. OtherTime' = Earlier(OtherTime)
      BY <1>0, <2>1, TickKeeps DEF OtherTime, QueueInv, Objs
    <2>3. delay' = 0
      BY <1>0, <2>1 DEF Earlier
    <2>4. /\ earliestChild <= time_next
          /\ "moved" \notin intruded /\ time_next > 1 => time_next <= OtherTime
      BY <1>0 DEF SleepInv
    <2>5. Earlier(earliestChild) <= Earlier(time_next)
      BY <1>0, <2>4 DEF Earlier
    <2>6. "moved" \notin intruded /\ Earlier(time_next) > 1
            => Earlier(time_next) <= Earlier(OtherTime)
      BY <1>0, <1>t, <2>4 DEF Earlier
    <2> QED BY <2>1, <2>2, <2>3, <2>5, <2>6 DEF SleepInv
  <1>9. ASSUME Startup \/ LeaveLoop \/ RunOther \/ RootReturns PROVE SleepInv'
    BY <1>1, <1>9 DEF Startup, LeaveLoop, RunOther, RootReturns, Executes
  <1>10. ASSUME \/ Signal \/ SkipChild \/ ChildReturns \/ FollowFreed
                \/ Done \/ UNCHANGED vars
         PROVE  SleepInv'
    BY <1>2, <1>10 DEF Signal, SkipChild, InWalk, ChildReturns, FollowFreed, Done, vars,
                       locals
  <1>11. ASSUME NEW t, \/ CreateTask(t) \/ DeleteTask(t)
                       \/ \E mode : SetActimode(t, mode)
                       \/ \E value : SetCycInterval(t, value)
                       \/ SetActivityLock(t)
         PROVE  SleepInv'
    BY <1>2, <1>11 DEF CreateTask, DeleteTask, SetActimode, SetCycInterval,
                       SetActivityLock, locals
  <1> QED BY <1>3, <1>4, <1>5, <1>6, <1>7, <1>8, <1>9, <1>10, <1>11
          DEF Next, RootStep, RequestStep

---------------------------------------------------------------------------
\* The inductive invariant holds in every reachable state.
LEMMA RootInvariant == Spec => []RootIInv
  <1>1. RootIInv /\ [Next]_vars => RootIInv'
    BY QueueNext, LocalsNext, WalkNext, SleepNext DEF RootIInv
  <1> QED BY <1>1, RootInit, PTL DEF Spec

\* Whatever requests the ComTasks handle, the locals of the root task keep their
\* types, no ComTask is linked twice, and both the root task and the other
\* object keep exactly one event: communication goes on.
THEOREM RootComTaskRootInv == Spec => []RootInv
  BY RootInvariant, RootIInvImplies, PTL

\* The walk of ksbase_RootComTask_execute stands on a linked ComTask or at the
\* end of the list, although ComTasks delete and create themselves and others,
\* until a request deletes one that is not the executed one.
THEOREM RootComTaskWalkOnExisting == Spec => []WalkOnExisting
  BY RootInvariant, RootIInvImplies, PTL

\* The root task does not sleep past the event of another object that no
\* request has moved during this execution.
THEOREM RootComTaskNotPastNextEvent == Spec => []NotPastNextEvent
  BY RootInvariant, RootIInvImplies, PTL
===========================================================================
