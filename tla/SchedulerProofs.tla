-------------------------- MODULE SchedulerProofs --------------------------
(***************************************************************************)
(* The invariants of the scheduler, for any set of objects, any clock      *)
(* range and any behaviour of the clients that Scheduler allows; and the   *)
(* arithmetic of the times by which the scheduler orders its events, for   *)
(* every word width and every length of a second.                          *)
(***************************************************************************)
EXTENDS Scheduler, TimeArith, EventQueueProofs

\* The list is well-formed and the active flags agree with it.
ListInv == WellFormed(queue, Objects) /\ active = ObjectsOf(queue)

\* The inductive invariant.  Order and uniqueness cannot be separated from
\* the agreement with the flags: register adds an event of an object that is
\* new in the list only because the flag of the object is clear.
SchedInv == ServerTypeOK /\ ListInv

\* The inductive invariant gives the three invariants of the specification.
LEMMA SchedInvImplies == SchedInv => TypeOK /\ QueueSorted /\ ActiveIffQueued
  <1> SUFFICES ASSUME SchedInv PROVE TypeOK /\ QueueSorted /\ ActiveIffQueued
    OBVIOUS
  <1>1. queue \in Seq(Events(Objects)) /\ active = ObjectsOf(queue)
    BY DEF SchedInv, ListInv, WellFormed
  <1>2. \A k \in 1..Len(queue) : queue[k].obj \in Objects
    BY <1>1, EventsOfList
  <1>3. active \subseteq Objects
    BY <1>1, <1>2 DEF ObjectsOf
  <1> QED BY <1>1, <1>3 DEF SchedInv, TypeOK, ListInv, WellFormed, QueueSorted,
                            ActiveIffQueued

\* Cursors of objects, of no object and of a freed event are cursors.
LEMMA CursorTypes ==
    /\ Freed \in Cursors /\ NoCursor \in Cursors
    /\ \A o \in Objects : CursorAt(o) \in Cursors
  BY DEF Cursors, NoCursor, AnyObject

\* A cursor at an object tells which, and is no freed one.
LEMMA CursorsDiffer ==
    /\ Freed # NoCursor
    /\ \A o : CursorAt(o) # Freed /\ CursorAt(o).obj = o
    /\ \A o, p : CursorAt(o) = CursorAt(p) => o = p
  <1>1. \A o : CursorAt(o).freed = FALSE /\ CursorAt(o).obj = o
    BY DEF CursorAt
  <1>2. Freed.freed = TRUE
    BY DEF Freed
  <1> QED BY <1>1, <1>2 DEF NoCursor

---------------------------------------------------------------------------
\* The program starts in the invariant: nothing is registered.
LEMMA SchedInit == Init => SchedInv
  <1> SUFFICES ASSUME Init PROVE SchedInv
    OBVIOUS
  <1>1. cursor \in Cursors
    BY CursorTypes DEF Init
  <1>2. ServerTypeOK
    <2>1. /\ phase \in Phases /\ running \in AnyObject
          /\ matching \subseteq Objects
      BY DEF Init, Phases, AnyObject
    <2>2. now \in 0..MaxTime /\ delay \in 0..1 /\ numExceeds \in 0..MaxExceeds
      BY BoundsAssumption DEF Init
    <2>3. /\ activitylock \in BOOLEAN /\ server_run \in BOOLEAN
          /\ signalled \in BOOLEAN
      BY DEF Init
    <2> QED BY <2>1, <2>2, <2>3, <1>1 DEF ServerTypeOK
  <1>3. queue \in Seq(Events(Objects)) /\ Len(queue) = 0
    BY EmptySeq DEF Init
  <1>4. ListInv
    BY <1>3 DEF Init, ListInv, WellFormed, Sorted, OnePerObject, ObjectsOf
  <1> QED BY <1>2, <1>4 DEF SchedInv

\* The head of a nonempty list has an object and a time.
LEMMA HeadType ==
    ASSUME ListInv, queue # <<>>
    PROVE  /\ Head(queue) = queue[1] /\ 1 \in 1..Len(queue)
           /\ Head(queue).time \in Nat /\ Head(queue).obj \in Objects
  <1>1. queue \in Seq(Events(Objects))
    BY DEF ListInv, WellFormed
  <1>2. Len(queue) \in Nat \ {0} /\ Head(queue) = queue[1] /\ 1 \in 1..Len(queue)
    BY <1>1, EmptySeq, LenProperties
  <1> QED BY <1>1, <1>2, EventsOfList

\* The clock and the times clients ask for are natural numbers.
LEMMA TimesAreNat ==
    ASSUME ServerTypeOK
    PROVE  /\ now \in Nat
           /\ \A t \in Times : t \in Nat
           /\ \A span \in 0..MaxSpan : now + span \in Nat
  BY BoundsAssumption DEF ServerTypeOK, Times

\* The sleep the server computes is the polling second at most.
LEMMA SleepSpanType ==
    ASSUME ServerTypeOK, ListInv
    PROVE  SleepSpan(queue) \in 0..1
  BY HeadType, TimesAreNat DEF SleepSpan, Clip, Until

\* The walk of the named execution continues at a natural number.
LEMMA ContinueAtType ==
    ASSUME ListInv, NEW i \in ContinueAt
    PROVE  i \in Nat
  <1>1. queue \in Seq(Events(Objects)) /\ Len(queue) \in Nat
    BY EventsOfList DEF ListInv, WellFormed
  <1>2. \A o : FirstOf(queue, o) \in Nat
    <2> SUFFICES ASSUME NEW o PROVE FirstOf(queue, o) \in Nat
      OBVIOUS
    <2>1. CASE Queued(queue, o)
      BY <2>1, <1>1, FirstOfFinds
    <2>2. CASE ~Queued(queue, o)
      <3>1. {k \in 1..Len(queue) : queue[k].obj = o} = {}
        BY <2>2 DEF Queued
      <3> QED BY <3>1 DEF FirstOf, SelectInSeq
    <2> QED BY <2>1, <2>2
  <1>3. 1 \in Nat /\ \A k \in 1..(Len(queue) + 1) : k \in Nat
    BY <1>1
  <1>4. FirstOf(queue, cursor.obj) + 1 \in Nat
    BY <1>2
  <1> QED BY <1>3, <1>4 DEF ContinueAt

\* The event the walk stops at matches.
LEMMA MatchFromFinds ==
    ASSUME ListInv, NEW i \in Nat, MatchFrom(i) # 0
    PROVE  queue[MatchFrom(i)].obj \in matching
  <1> DEFINE I == {k \in i..Len(queue) : queue[k].obj \in matching}
  <1>1. MatchFrom(i) = IF I # {} THEN Min(I) ELSE 0
    BY DEF MatchFrom, SelectInSubSeq
  <1>2. I # {}
    BY <1>1
  <1>3. Len(queue) \in Nat
    BY EventsOfList DEF ListInv, WellFormed
  <1>4. I \in SUBSET Nat
    BY <1>3
  <1>5. MatchFrom(i) \in I
    BY <1>1, <1>2, <1>4, MinProperties
  <1> QED BY <1>5

---------------------------------------------------------------------------
\* The calls of clients keep the invariant.
LEMMA ClientStepKeeps ==
    ASSUME SchedInv, ClientStep
    PROVE  SchedInv'
  <1> USE DEF SchedInv
  <1>0. ServerTypeOK /\ ListInv
    OBVIOUS
  <1>1. ASSUME NEW o \in Objects, Register(o) PROVE SchedInv'
    <2>1. ServerTypeOK'
      BY <1>1 DEF Register, ServerTypeOK, clientvars, namedvars
    <2>2. ListInv'
      BY <1>1, TimesAreNat, RegisterKeeps DEF Register, ListInv
    <2> QED BY <2>1, <2>2
  <1>2. ASSUME NEW o \in Objects, Unregister(o) PROVE SchedInv'
    <2>1. ServerTypeOK'
      BY <1>2, CursorTypes
         DEF Unregister, CursorAfterFree, ServerTypeOK, clientvars
    <2>2. ListInv'
      BY <1>2, UnregisterKeeps, QueuedObjects DEF Unregister, ListInv
    <2> QED BY <2>1, <2>2
  <1>3. ASSUME NEW o \in Objects, NEW t \in Nat, SetAbsEventTime(o, t) PROVE SchedInv'
    <2>1. ServerTypeOK'
      BY <1>3 DEF SetAbsEventTime, ServerTypeOK, clientvars, namedvars
    <2>2. ListInv'
      BY <1>3, SetAbsEventTimeKeeps DEF SetAbsEventTime, ListInv
    <2> QED BY <2>1, <2>2
  <1>4. ASSUME NEW o \in Objects, NEW span \in 0..MaxSpan, SetRelEventTime(o, span)
        PROVE  SchedInv'
    BY <1>3, <1>4, TimesAreNat DEF SetRelEventTime
  <1>5. ASSUME SetActivityLock PROVE SchedInv'
    BY <1>5 DEF SetActivityLock, ServerTypeOK, ListInv, namedvars
  <1>6. ASSUME NEW b \in RunValues, SetServerRun(b) PROVE SchedInv'
    BY <1>6, BoundsAssumption DEF SetServerRun, ServerTypeOK, ListInv, namedvars
  <1> QED BY <1>1, <1>2, <1>3, <1>4, <1>5, <1>6, TimesAreNat DEF ClientStep

\* The scheduler functions called by the server keep the invariant.
LEMMA SchedulerStepKeeps ==
    ASSUME SchedInv, SchedulerStep
    PROVE  SchedInv'
  <1> USE DEF SchedInv
  <1>0. ServerTypeOK /\ ListInv
    OBVIOUS
  <1>1. ASSUME ScheduleLocked PROVE SchedInv'
    BY <1>1 DEF ScheduleLocked, ServerTypeOK, ListInv, Phases, clientvars, namedvars
  <1>2. ASSUME ScheduleNothingDue PROVE SchedInv'
    BY <1>2, SleepSpanType
       DEF ScheduleNothingDue, ServerTypeOK, ListInv, Phases, clientvars, namedvars
  <1>3. ASSUME ScheduleDue PROVE SchedInv'
    <2>0. queue # <<>>
      BY <1>3 DEF ScheduleDue, HeadDue
    <2>1. numExceeds' \in 0..MaxExceeds
      BY <1>3, BoundsAssumption DEF ScheduleDue, ServerTypeOK
    <2>2. running' \in AnyObject
      BY <1>3, <2>0, HeadType DEF ScheduleDue, AnyObject
    <2>3. ServerTypeOK'
      BY <1>3, <2>1, <2>2
         DEF ScheduleDue, ServerTypeOK, Phases, clientvars, namedvars
    <2>4. ListInv'
      BY <1>3, <2>0, TimesAreNat, RequeueHeadKeeps DEF ScheduleDue, ListInv
    <2> QED BY <2>3, <2>4
  <1>4. ASSUME ExecuteReturns PROVE SchedInv'
    BY <1>4, SleepSpanType
       DEF ExecuteReturns, ServerTypeOK, ListInv, Phases, AnyObject, clientvars, namedvars
  <1>5. ASSUME Wake PROVE SchedInv'
    BY <1>5 DEF Wake, ServerTypeOK, ListInv, Phases, clientvars, namedvars
  <1>6. ASSUME NamedExecute PROVE SchedInv'
    <2>1. running' \in Objects
      <3>1. PICK i \in ContinueAt : /\ MatchFrom(i) # 0
                                    /\ running' = queue[MatchFrom(i)].obj
        BY <1>6 DEF NamedExecute
      <3>2. running' \in matching
        BY <3>1, ContinueAtType, MatchFromFinds
      <3> QED BY <3>2 DEF ServerTypeOK
    <2>2. ServerTypeOK'
      BY <1>6, <2>1, CursorTypes
         DEF NamedExecute, ServerTypeOK, AnyObject, clientvars
    <2>3. ListInv'
      BY <1>6 DEF NamedExecute, ListInv
    <2> QED BY <2>2, <2>3
  <1>7. ASSUME NamedReturns PROVE SchedInv'
    BY <1>7 DEF NamedReturns, ServerTypeOK, ListInv, AnyObject, clientvars, namedvars
  <1>9. ASSUME NamedExecuteStale PROVE SchedInv'
    BY <1>9 DEF NamedExecuteStale, ServerTypeOK, ListInv, AnyObject, clientvars, namedvars
  <1>10. ASSUME NamedLost PROVE SchedInv'
    BY <1>10 DEF NamedLost, ServerTypeOK, ListInv, Phases, clientvars
  <1>8. ASSUME NamedEnd PROVE SchedInv'
    BY <1>8, CursorTypes DEF NamedEnd, ServerTypeOK, ListInv, Phases, clientvars
  <1> QED BY <1>1, <1>2, <1>3, <1>4, <1>5, <1>6, <1>7, <1>8, <1>9, <1>10
          DEF SchedulerStep

\* The steps of the server process, signals and the clock keep the invariant.
LEMMA OtherStepKeeps ==
    ASSUME SchedInv, ServerStep \/ Signal \/ Tick \/ AdjustClock \/ Done
    PROVE  SchedInv'
  <1> USE DEF SchedInv
  <1>1. ASSUME CreateServer PROVE SchedInv'
    BY <1>1 DEF CreateServer, ServerTypeOK, ListInv, Phases, clientvars, namedvars
  <1>2. ASSUME StartServer PROVE SchedInv'
    <2>1. phase' \in Phases /\ matching' \subseteq Objects
      BY <1>2 DEF StartServer, ServerTypeOK, Phases
    <2>2. server_run' \in BOOLEAN
      BY <1>2 DEF StartServer
    <2>3. ServerTypeOK'
      BY <1>2, <2>1, <2>2 DEF StartServer, ServerTypeOK
    <2>4. ListInv'
      BY <1>2 DEF StartServer, ListInv
    <2> QED BY <2>3, <2>4
  <1>3. ASSUME LeaveLoop PROVE SchedInv'
    BY <1>3 DEF LeaveLoop, ServerTypeOK, ListInv, Phases, clientvars, namedvars
  <1>4. ASSUME ShutdownDone PROVE SchedInv'
    BY <1>4 DEF ShutdownDone, ServerTypeOK, ListInv, Phases, clientvars, namedvars
  <1>5. ASSUME Signal PROVE SchedInv'
    <2>1. /\ server_run' \in BOOLEAN /\ signalled' \in BOOLEAN
          /\ activitylock' \in BOOLEAN
      BY <1>5 DEF Signal, ServerTypeOK
    <2>2. delay' \in 0..1
      BY <1>5 DEF Signal
    <2> QED BY <1>5, <2>1, <2>2 DEF Signal, ServerTypeOK, ListInv, namedvars
  <1>6. ASSUME Tick PROVE SchedInv'
    BY <1>6, BoundsAssumption DEF Tick, ServerTypeOK, ListInv, clientvars, namedvars
  <1>7. ASSUME AdjustClock PROVE SchedInv'
    BY <1>7 DEF AdjustClock, ServerTypeOK, ListInv, clientvars, namedvars
  <1>8. ASSUME Done PROVE SchedInv'
    BY <1>8 DEF Done, vars, ServerTypeOK, ListInv
  <1> QED BY <1>1, <1>2, <1>3, <1>4, <1>5, <1>6, <1>7, <1>8 DEF ServerStep

\* Every step keeps the invariant.
LEMMA SchedNext == SchedInv /\ [Next]_vars => SchedInv'
  <1>1. ASSUME SchedInv, UNCHANGED vars PROVE SchedInv'
    BY <1>1 DEF SchedInv, ServerTypeOK, ListInv, vars
  <1> QED BY <1>1, ClientStepKeeps, SchedulerStepKeeps, OtherStepKeeps DEF Next

---------------------------------------------------------------------------
\* The inductive invariant holds in every reachable state.
THEOREM SchedulerInvariant == Spec => []SchedInv
  BY SchedInit, SchedNext, PTL DEF Spec

\* Every variable of the scheduler and of the server keeps its type.
THEOREM SchedulerTypeCorrect == Spec => []TypeOK
  BY SchedulerInvariant, SchedInvImplies, PTL

\* The event list is ordered by time in every state, whatever times clients
\* ask for and however the clock is changed: the head is always the event
\* ov_scheduler_schedulenextevent has to look at.
THEOREM SchedulerQueueSorted == Spec => []QueueSorted
  BY SchedulerInvariant, SchedInvImplies, PTL

\* An object has OV_OS_ACTIVE exactly while it has an event, and never two.
THEOREM SchedulerActiveIffQueued == Spec => []ActiveIffQueued
  BY SchedulerInvariant, SchedInvImplies, PTL

---------------------------------------------------------------------------
(* ov_scheduler_getnexteventtime.                                          *)

\* In an ordered list with the running event at or before the current time,
\* the second event tells when the first event of another object is due: if
\* the running event is the head the second event is the earliest other one,
\* and if it is not, both are over and the time left is zero.
LEMMA SecondEventIsNextOther ==
    ASSUME SchedInv
    PROVE  NextEventTimeIsOthers
  <1> SUFFICES ASSUME NEW i \in 1..Len(queue), ~activitylock,
                      queue[i].time <= now
               PROVE  LET others == {queue[j].time : j \in (1..Len(queue)) \ {i}}
                      IN  getnexteventtime = IF others = {} THEN Never
                                             ELSE Until(Min(others))
    BY DEF NextEventTimeIsOthers
  <1> DEFINE n == Len(queue)
             T(j) == queue[j].time
             others == {T(j) : j \in (1..n) \ {i}}
  <1>1. n \in Nat /\ \A j \in 1..n : T(j) \in Nat
    BY EventsOfList DEF SchedInv, ListInv, WellFormed
  <1>2. \A j, k \in 1..n : j <= k => T(j) <= T(k)
    BY DEF SchedInv, ListInv, WellFormed, Sorted
  <1>3. now \in Nat
    BY TimesAreNat DEF SchedInv
  <1>4. getnexteventtime = IF n > 1 THEN Until(T(2)) ELSE Never
    BY DEF getnexteventtime
  <1>5. i \in 1..n /\ T(i) <= now
    OBVIOUS
  <1> HIDE DEF n, T
  <1>6. CASE n > 1
    <2> DEFINE m == IF i = 1 THEN 2 ELSE 1
    <2>1. m \in (1..n) \ {i} /\ 2 \in 1..n /\ 1 \in 1..n
      BY <1>1, <1>5, <1>6
    <2>2. others # {} /\ others \in SUBSET Nat
      BY <2>1, <1>1
    <2>3. Min(others) \in others /\ \A t \in others : Min(others) <= t
      BY <2>2, MinProperties
    <2>4. \A j \in (1..n) \ {i} : T(m) <= T(j)
      <3>1. \A j \in (1..n) \ {i} : m <= j
        BY <1>1
      <3> QED BY <3>1, <2>1, <1>2
    <2>5. Min(others) = T(m)
      <3>1. T(m) \in others
        BY <2>1
      <3>2. Min(others) <= T(m)
        BY <3>1, <2>3
      <3>3. T(m) <= Min(others)
        BY <2>3, <2>4
      <3>4. T(m) \in Nat /\ Min(others) \in Nat
        BY <2>1, <2>2, <2>3, <1>1
      <3> QED BY <3>2, <3>3, <3>4
    <2>6. Until(T(2)) = Until(T(m))
      <3>1. CASE i = 1
        BY <3>1
      <3>2. CASE i # 1
        <4>1. T(2) <= T(i) /\ T(1) <= T(i)
          BY <3>2, <2>1, <1>1, <1>2, <1>5
        <4>2. T(2) <= now /\ T(1) <= now
          BY <4>1, <2>1, <1>1, <1>3, <1>5
        <4> QED BY <3>2, <4>2, <2>1, <1>1, <1>3 DEF Until
      <3> QED BY <3>1, <3>2
    <2> QED BY <2>2, <2>5, <2>6, <1>4, <1>6 DEF n, T
  <1>7. CASE ~(n > 1)
    <2>1. others = {}
      BY <1>1, <1>5, <1>7
    <2> QED BY <2>1, <1>4, <1>7 DEF n, T
  <1> QED BY <1>6, <1>7

\* While a method runs that has not moved its own event,
\* ov_scheduler_getnexteventtime is the time to the next event of another
\* object: the communication task can sleep for that long.
THEOREM SchedulerNextEventTime == Spec => []NextEventTimeIsOthers
  BY SchedulerInvariant, SecondEventIsNextOther, PTL

---------------------------------------------------------------------------
(* The sleep of the server loop.                                           *)

\* A method runs only inside the two functions that call one: the list does
\* not change while the server sleeps.
RunningInMethod == phase \notin {"exec", "named"} => running = NoObject

\* The walk of the named execution has a cursor only in its phase.  While it
\* executes an object it stands on the event of that object or on freed memory.
CursorInv ==
    /\ phase \notin {"named", "lost"} => cursor = NoCursor
    /\ phase = "lost" => cursor = Freed
    /\ phase = "named" /\ running # NoObject => cursor \in {Freed, CursorAt(running)}

SleepInv == SchedInv /\ RunningInMethod /\ CursorInv /\ SleepsNotPastDue

\* A span that is not zero ends at the time of the head at the latest.
LEMMA SleepSpanBound ==
    ASSUME SchedInv, queue # <<>>, SleepSpan(queue) > 0
    PROVE  now + SleepSpan(queue) <= Head(queue).time
  <1>1. now \in Nat /\ Head(queue).time \in Nat
    BY HeadType, TimesAreNat DEF SchedInv
  <1> QED BY <1>1 DEF SleepSpan, Clip, Until

\* Every step leaves the cursor where it belongs.
LEMMA CursorNext ==
    ASSUME SleepInv, [Next]_vars
    PROVE  CursorInv'
  <1>0. CursorInv
    BY DEF SleepInv
  <1>1. ASSUME NEW o \in Objects, Unregister(o) PROVE CursorInv'
    <2>1. /\ UNCHANGED <<phase, running>> /\ cursor' \in {cursor, Freed}
          /\ cursor' # cursor => cursor = CursorAt(o)
          /\ phase \in {"startup", "shutdown"} \/ running # NoObject
      BY <1>1 DEF Unregister, CursorAfterFree, ObjectCodeRuns
    <2>2. cursor' # cursor => phase \in {"named", "lost"}
      BY <2>1, <1>0, CursorsDiffer, NoObjectAssumption DEF CursorInv, NoCursor
    <2> QED BY <2>1, <2>2, <1>0 DEF CursorInv
  <1>2. ASSUME NamedExecute PROVE CursorInv'
    BY <1>2 DEF NamedExecute, CursorInv
  <1>3. ASSUME NamedExecuteStale \/ NamedLost \/ NamedReturns \/ NamedEnd PROVE CursorInv'
    BY <1>0, <1>3 DEF NamedExecuteStale, NamedLost, NamedReturns, NamedEnd, CursorInv,
                      namedvars
  <1>4. ASSUME ScheduleDue PROVE CursorInv'
    BY <1>0, <1>4 DEF ScheduleDue, InLoop, CursorInv, namedvars
  <1>5. ASSUME StartServer PROVE CursorInv'
    <2>1. phase = "created" /\ phase' \in {"named", "loop"} /\ UNCHANGED <<running, cursor>>
      BY <1>5 DEF StartServer
    <2>2. running = NoObject
      BY <2>1 DEF SleepInv, RunningInMethod
    <2> QED BY <2>1, <2>2, <1>0 DEF CursorInv
  <1>6. ASSUME \/ ScheduleLocked \/ ScheduleNothingDue \/ ExecuteReturns \/ Wake
               \/ CreateServer \/ LeaveLoop \/ ShutdownDone
        PROVE  CursorInv'
    BY <1>0, <1>6 DEF ScheduleLocked, ScheduleNothingDue, ExecuteReturns, Wake, InLoop,
                      CreateServer, LeaveLoop, ShutdownDone, CursorInv, namedvars
  <1>7. ASSUME UNCHANGED <<phase, running, cursor>> PROVE CursorInv'
    BY <1>0, <1>7 DEF CursorInv
  <1>8. ASSUME ClientStep PROVE CursorInv'
    BY <1>1, <1>7, <1>8 DEF ClientStep, Register, SetAbsEventTime, SetRelEventTime,
                            SetActivityLock, SetServerRun, namedvars
  <1>9. ASSUME Signal \/ Tick \/ AdjustClock \/ Done \/ UNCHANGED vars PROVE CursorInv'
    BY <1>7, <1>9 DEF Signal, Tick, AdjustClock, Done, vars, namedvars
  <1> QED BY <1>2, <1>3, <1>4, <1>5, <1>6, <1>8, <1>9
          DEF Next, SchedulerStep, ServerStep

\* No step lets the server sleep past the head.
LEMMA SleepNext ==
    ASSUME SleepInv, [Next]_vars, SchedInv'
    PROVE  SleepInv'
  <1>0. SchedInv /\ RunningInMethod /\ SleepsNotPastDue
    BY DEF SleepInv
  <1>t. /\ now \in Nat /\ delay \in 0..1 /\ NoObject \notin Objects
        /\ queue # <<>> => Head(queue).time \in Nat
    BY <1>0, HeadType, TimesAreNat, NoObjectAssumption DEF SchedInv, ServerTypeOK
  <1> SUFFICES RunningInMethod' /\ SleepsNotPastDue'
    BY CursorNext DEF SleepInv
  <1>1. ASSUME ClientStep PROVE RunningInMethod' /\ SleepsNotPastDue'
    <2>1. /\ phase' = phase /\ running' = running
          /\ phase \in {"startup", "shutdown"} \/ running # NoObject
      BY <1>1 DEF ClientStep, Register, Unregister, SetAbsEventTime, SetRelEventTime,
                  SetActivityLock, SetServerRun, ObjectCodeRuns
    <2>2. phase # "sleep"
      BY <2>1, <1>0 DEF RunningInMethod
    <2> QED BY <2>1, <2>2, <1>0 DEF RunningInMethod, SleepsNotPastDue
  <1>2. ASSUME ScheduleLocked PROVE RunningInMethod' /\ SleepsNotPastDue'
    BY <1>0, <1>2 DEF ScheduleLocked, InLoop, clientvars, RunningInMethod, SleepsNotPastDue
  <1>3. ASSUME ScheduleNothingDue PROVE RunningInMethod' /\ SleepsNotPastDue'
    BY <1>0, <1>3, SleepSpanBound
       DEF ScheduleNothingDue, InLoop, RunningInMethod, SleepsNotPastDue
  <1>4. ASSUME ScheduleDue PROVE RunningInMethod' /\ SleepsNotPastDue'
    BY <1>4 DEF ScheduleDue, RunningInMethod, SleepsNotPastDue
  <1>5. ASSUME ExecuteReturns PROVE RunningInMethod' /\ SleepsNotPastDue'
    BY <1>0, <1>5, SleepSpanBound DEF ExecuteReturns, RunningInMethod, SleepsNotPastDue
  <1>6. ASSUME Wake PROVE RunningInMethod' /\ SleepsNotPastDue'
    BY <1>0, <1>6 DEF Wake, RunningInMethod, SleepsNotPastDue
  <1>7. ASSUME \/ NamedExecute \/ NamedExecuteStale \/ NamedLost
               \/ NamedReturns \/ NamedEnd
        PROVE  RunningInMethod' /\ SleepsNotPastDue'
    BY <1>7 DEF NamedExecute, NamedExecuteStale, NamedLost, NamedReturns, NamedEnd,
                RunningInMethod, SleepsNotPastDue
  <1>8. ASSUME ServerStep PROVE RunningInMethod' /\ SleepsNotPastDue'
    BY <1>0, <1>8 DEF ServerStep, CreateServer, StartServer, LeaveLoop, ShutdownDone,
                      RunningInMethod, SleepsNotPastDue
  <1>9. ASSUME Signal PROVE RunningInMethod' /\ SleepsNotPastDue'
    BY <1>0, <1>9 DEF Signal, RunningInMethod, SleepsNotPastDue
  <1>10. ASSUME Tick PROVE RunningInMethod' /\ SleepsNotPastDue'
    BY <1>0, <1>t, <1>10 DEF Tick, clientvars, RunningInMethod, SleepsNotPastDue
  <1>11. ASSUME AdjustClock PROVE RunningInMethod' /\ SleepsNotPastDue'
    <2>1. now' \in Nat /\ now' < now
      BY <1>11, BoundsAssumption DEF AdjustClock
    <2> QED BY <2>1, <1>0, <1>t, <1>11
            DEF AdjustClock, clientvars, RunningInMethod, SleepsNotPastDue
  <1>12. ASSUME Done \/ UNCHANGED vars PROVE RunningInMethod' /\ SleepsNotPastDue'
    BY <1>0, <1>12 DEF Done, vars, RunningInMethod, SleepsNotPastDue
  <1> QED BY <1>1, <1>2, <1>3, <1>4, <1>5, <1>6, <1>7, <1>8, <1>9, <1>10, <1>11, <1>12
          DEF Next, SchedulerStep

\* The invariant of the sleep, with the place of running methods.
LEMMA SchedulerSleepInv == Spec => []SleepInv
  <1>1. Init => SleepInv
    BY SchedInit DEF Init, SleepInv, RunningInMethod, CursorInv, SleepsNotPastDue
  <1>2. SleepInv /\ [Next]_vars => SleepInv'
    BY SchedNext, SleepNext DEF SleepInv
  <1> QED BY <1>1, <1>2, PTL DEF Spec

\* The server loop never sleeps past the time of the first event, whatever
\* the method that has just returned did to the list.
THEOREM SchedulerSleepsNotPastDue == Spec => []SleepsNotPastDue
  <1>1. SleepInv => SleepsNotPastDue
    BY DEF SleepInv
  <1> QED BY <1>1, SchedulerSleepInv, PTL

---------------------------------------------------------------------------
(* The list implements a set of objects with times.  The abstract times    *)
(* are TimeOf(queue); each abstract action has a lemma of its own.         *)

\* Registering an object adds it with the current time.
LEMMA RegisterAdds ==
    ASSUME SchedInv, NEW o \in Objects, Register(o), SchedInv'
    PROVE  Abstract!Add(o)
  <1>1. /\ WellFormed(queue, Objects) /\ WellFormed(queue', Objects) /\ now \in Nat
        /\ o \notin ObjectsOf(queue) /\ queue' = register(queue, o, now)
    BY TimesAreNat DEF SchedInv, ListInv, Register
  <1>2. Range(queue') = Range(queue) \cup {Event(o, now)}
    BY <1>1, RegisterRange
  <1>3. ObjectsOf(queue') = ObjectsOf(queue) \cup {o}
    BY <1>1, RegisterKeeps
  <1>4. \A p \in ObjectsOf(queue) \ {o} : TimeOf(queue')[p] = TimeOf(queue)[p]
    BY <1>1, <1>2, TimeOfOthers
  <1>5. TimeOf(queue')[o] = now
    <2>1. Event(o, now) \in Range(queue') /\ Event(o, now).obj = o
          /\ Event(o, now).time = now
      BY <1>2 DEF Event
    <2> QED BY <1>1, <2>1, TimeOfEvent
  <1>6. TimeOf(queue') = [p \in ObjectsOf(queue) \cup {o} |->
                             IF p = o THEN now ELSE TimeOf(queue)[p]]
    <2>1. TimeOf(queue') = [p \in ObjectsOf(queue) \cup {o} |-> TimeOf(queue')[p]]
      BY <1>3, TimeOfFunction
    <2> QED BY <1>4, <1>5, <2>1
  <1>7. UNCHANGED cursor
    BY DEF Register, namedvars
  <1> QED BY <1>1, <1>6, <1>7 DEF Abstract!Add, TimeOf

\* Unregistering an object takes its time away and leaves the others; the walk of
\* the named execution goes astray when it is the object that is executed.
LEMMA UnregisterRemoves ==
    ASSUME SleepInv, NEW o \in Objects, Unregister(o), SchedInv'
    PROVE  Abstract!Remove(o)
  <1>1. /\ WellFormed(queue, Objects) /\ WellFormed(queue', Objects)
        /\ queue' = unregister(queue, o)
    BY DEF SleepInv, SchedInv, ListInv, Unregister
  <1>2. Range(queue') = OthersOf(queue, o)
    BY <1>1, UnregisterRange
  <1>3. ObjectsOf(queue') = ObjectsOf(queue) \ {o}
    BY <1>1, UnregisterKeeps
  <1>4. \A p \in ObjectsOf(queue) \ {o} : TimeOf(queue')[p] = TimeOf(queue)[p]
    BY <1>1, <1>2, TimeOfOthers DEF OthersOf
  <1>5. TimeOf(queue') = [p \in ObjectsOf(queue) \ {o} |-> TimeOf(queue)[p]]
    <2>1. TimeOf(queue') = [p \in ObjectsOf(queue) \ {o} |-> TimeOf(queue')[p]]
      BY <1>3, TimeOfFunction
    <2> QED BY <1>4, <2>1
  <1> DEFINE strays == /\ phase \in {"startup", "created", "named", "lost"}
                       /\ running = o /\ o \in ObjectsOf(queue)
  <1>6. (cursor' = Freed) = (cursor = Freed \/ strays)
    <2>1. Queued(queue, o) <=> o \in ObjectsOf(queue)
      BY <1>1, QueuedObjects
    <2>2. /\ RunningInMethod /\ CursorInv
          /\ phase \in {"startup", "shutdown"} \/ running # NoObject
          /\ cursor' = IF cursor = CursorAt(o) /\ Queued(queue, o) THEN Freed ELSE cursor
      BY DEF SleepInv, Unregister, ObjectCodeRuns, CursorAfterFree
    <2>3. ASSUME cursor # Freed PROVE (cursor = CursorAt(o) /\ Queued(queue, o)) <=> strays
      <3>1. ASSUME strays PROVE cursor = CursorAt(o) /\ Queued(queue, o)
        BY <2>1, <2>2, <2>3, <3>1, NoObjectAssumption DEF RunningInMethod, CursorInv
      <3>2. ASSUME cursor = CursorAt(o), Queued(queue, o) PROVE strays
        <4>1. phase = "named" /\ running # NoObject
          BY <2>2, <2>3, <3>2, CursorsDiffer, NoObjectAssumption
             DEF CursorInv, NoCursor, RunningInMethod
        <4> QED BY <2>1, <2>2, <2>3, <3>2, <4>1, CursorsDiffer DEF CursorInv
      <3> QED BY <3>1, <3>2
    <2> HIDE DEF strays
    <2>4. CASE cursor = Freed
      BY <2>2, <2>4
    <2>5. CASE cursor # Freed
      BY <2>2, <2>3, <2>5
    <2> QED BY <2>4, <2>5
  <1>7. DOMAIN TimeOf(queue) = ObjectsOf(queue)
    BY TimeOfFunction
  <1> QED BY <1>5, <1>6, <1>7 DEF Abstract!Remove, Restrict, Abstract!Restrict, TimeOf

\* A new event time moves one object, and nothing when it is not registered.
LEMMA SetAbsEventTimeMoves ==
    ASSUME SchedInv, NEW o \in Objects, NEW t \in Nat, SetAbsEventTime(o, t), SchedInv'
    PROVE  Abstract!Move(o) \/ queue' = queue
  <1>1. /\ WellFormed(queue, Objects) /\ WellFormed(queue', Objects)
        /\ queue' = setabseventtime(queue, o, t)
    BY DEF SchedInv, ListInv, SetAbsEventTime
  <1>2. CASE o \notin ObjectsOf(queue)
    BY <1>1, <1>2, SetAbsEventTimeNotQueued
  <1>3. CASE o \in ObjectsOf(queue)
    <2>1. Range(queue') = OthersOf(queue, o) \cup {Event(o, t)}
      BY <1>1, <1>3, SetAbsEventTimeRange
    <2>2. ObjectsOf(queue') = ObjectsOf(queue)
      BY <1>1, SetAbsEventTimeKeeps
    <2>3. \A p \in ObjectsOf(queue) \ {o} : TimeOf(queue')[p] = TimeOf(queue)[p]
      BY <1>1, <2>1, TimeOfOthers DEF OthersOf
    <2>4. TimeOf(queue') \in [ObjectsOf(queue) -> Nat]
      <3>1. TimeOf(queue') = [p \in ObjectsOf(queue) |-> TimeOf(queue')[p]]
        BY <2>2, TimeOfFunction
      <3>2. \A p \in ObjectsOf(queue) : TimeOf(queue')[p] \in Nat
        BY <1>1, <2>2, TimeOfEvent
      <3> QED BY <3>1, <3>2
    <2>5. UNCHANGED cursor
      BY DEF SetAbsEventTime, namedvars
    <2> QED BY <1>3, <2>3, <2>4, <2>5 DEF Abstract!Move, TimeOf
  <1> QED BY <1>2, <1>3

\* What clients do is what abstract clients do, or the lock, or nothing.
LEMMA ClientStepSimulated ==
    ASSUME SleepInv, ClientStep, SchedInv'
    PROVE  Abstract!ANext \/ UNCHANGED Abstract!avars
  <1>0. SchedInv /\ now \in Nat /\ \A t \in Times : t \in Nat
    BY TimesAreNat DEF SleepInv, SchedInv
  <1>1. ASSUME NEW o \in Objects, Register(o) PROVE Abstract!ANext
    <2>1. Abstract!Add(o)
      BY <1>0, <1>1, RegisterAdds
    <2>2. Abstract!Client
      BY <1>1, <2>1 DEF Abstract!Client, Register, clientvars
    <2> QED BY <2>2 DEF Abstract!ANext
  <1>2. ASSUME NEW o \in Objects, Unregister(o) PROVE Abstract!ANext
    <2>1. Abstract!Remove(o)
      BY <1>2, UnregisterRemoves
    <2>2. Abstract!Client
      BY <1>2, <2>1 DEF Abstract!Client, Unregister, clientvars
    <2> QED BY <2>2 DEF Abstract!ANext
  <1>3. ASSUME NEW o \in Objects, NEW t \in Nat, SetAbsEventTime(o, t)
        PROVE  Abstract!ANext \/ UNCHANGED Abstract!avars
    <2>1. Abstract!Move(o) \/ queue' = queue
      BY <1>0, <1>3, SetAbsEventTimeMoves
    <2>2. UNCHANGED <<running, phase, cursor, activitylock, now>>
      BY <1>3 DEF SetAbsEventTime, clientvars, namedvars
    <2>3. CASE Abstract!Move(o)
      <3>1. Abstract!Client
        BY <2>2, <2>3 DEF Abstract!Client
      <3> QED BY <3>1 DEF Abstract!ANext
    <2>4. CASE queue' = queue
      BY <2>2, <2>4 DEF Abstract!avars
    <2> QED BY <2>1, <2>3, <2>4
  <1>4. ASSUME NEW o \in Objects, NEW span \in 0..MaxSpan, SetRelEventTime(o, span)
        PROVE  Abstract!ANext \/ UNCHANGED Abstract!avars
    <2>1. now + span \in Nat
      BY <1>0, TimesAreNat DEF SchedInv
    <2> QED BY <1>3, <1>4, <2>1 DEF SetRelEventTime
  <1>5. ASSUME SetActivityLock PROVE Abstract!ANext
    <2>1. Abstract!Lock
      BY <1>5 DEF SetActivityLock, Abstract!Lock, namedvars
    <2> QED BY <2>1 DEF Abstract!ANext
  <1>6. ASSUME NEW b \in RunValues, SetServerRun(b) PROVE UNCHANGED Abstract!avars
    BY <1>6 DEF SetServerRun, Abstract!avars, namedvars
  <1> QED BY <1>0, <1>1, <1>2, <1>3, <1>4, <1>5, <1>6 DEF ClientStep

\* The head is executed when the abstract specification allows it: it is
\* overdue, no other object has an earlier time, and it alone is given the
\* time of its execution.
LEMMA ScheduleDueExecutes ==
    ASSUME SleepInv, ScheduleDue, SchedInv'
    PROVE  Abstract!Execute
  <1>0. queue # <<>> /\ Head(queue).time < now
    <2>1. queue # <<>> /\ now > Head(queue).time
      BY DEF ScheduleDue, HeadDue
    <2> QED BY <2>1, HeadType, TimesAreNat DEF SleepInv, SchedInv
  <1>1. /\ WellFormed(queue, Objects) /\ WellFormed(queue', Objects) /\ now \in Nat
        /\ queue' = requeuehead(queue, now) /\ running' = Head(queue).obj
        /\ ~activitylock /\ phase = "loop" /\ phase' = "exec" /\ running = NoObject
        /\ activitylock' = activitylock /\ now' = now /\ cursor' = cursor
    BY TimesAreNat DEF SleepInv, RunningInMethod, SchedInv, ListInv, ScheduleDue,
                       InLoop, clientvars, namedvars
  <1> DEFINE o == Head(queue).obj
  <1>2. /\ Range(queue') = OthersOf(queue, o) \cup {Event(o, now)}
        /\ Head(queue) \in Range(queue)
        /\ \A e \in Range(queue) : Head(queue).time <= e.time
    BY <1>0, <1>1, RequeueHeadRange
  <1>3. ObjectsOf(queue') = ObjectsOf(queue)
    BY <1>0, <1>1, RequeueHeadKeeps
  <1>4. o \in ObjectsOf(queue) /\ TimeOf(queue)[o] = Head(queue).time
    BY <1>1, <1>2, TimeOfEvent
  <1>5. \A p \in ObjectsOf(queue) : TimeOf(queue)[o] <= TimeOf(queue)[p]
    <2> SUFFICES ASSUME NEW p \in ObjectsOf(queue)
                 PROVE  Head(queue).time <= TimeOf(queue)[p]
      BY <1>4
    <2>1. Event(p, TimeOf(queue)[p]) \in Range(queue)
      BY <1>1, TimeOfEvent
    <2> QED BY <1>2, <2>1 DEF Event
  <1>6. \A p \in ObjectsOf(queue) \ {o} : TimeOf(queue')[p] = TimeOf(queue)[p]
    BY <1>1, <1>2, TimeOfOthers DEF OthersOf
  <1>7. TimeOf(queue')[o] = now
    <2>1. Event(o, now) \in Range(queue') /\ Event(o, now).obj = o
          /\ Event(o, now).time = now
      BY <1>2 DEF Event
    <2> QED BY <1>1, <2>1, TimeOfEvent
  <1>8. TimeOf(queue') = [TimeOf(queue) EXCEPT ![o] = now]
    <2>1. /\ TimeOf(queue') = [p \in ObjectsOf(queue) |-> TimeOf(queue')[p]]
          /\ TimeOf(queue) = [p \in ObjectsOf(queue) |-> TimeOf(queue)[p]]
      BY <1>3, TimeOfFunction
    <2> QED BY <1>4, <1>6, <1>7, <2>1
  <1>9. TimeOf(queue)[o] < now /\ DOMAIN TimeOf(queue) = ObjectsOf(queue)
    BY <1>0, <1>1, <1>4, TimeOfEvent
  <1> HIDE DEF o
  <1>10. running' = o
    BY <1>1 DEF o
  <1>11. /\ running' \in DOMAIN TimeOf(queue)
         /\ TimeOf(queue)[running'] < now
         /\ \A p \in DOMAIN TimeOf(queue) : TimeOf(queue)[running'] <= TimeOf(queue)[p]
         /\ TimeOf(queue') = [TimeOf(queue) EXCEPT ![running'] = now]
    BY <1>4, <1>5, <1>8, <1>9, <1>10
  <1> QED BY <1>1, <1>11 DEF Abstract!Execute, TimeOf

\* The event of a named execution is one of the list, and leads back to it.
LEMMA NamedExecuteSimulated ==
    ASSUME SchedInv, NamedExecute
    PROVE  Abstract!ExecuteNamed
  <1>1. PICK i \in ContinueAt : MatchFrom(i) # 0 /\ running' = queue[MatchFrom(i)].obj
    BY DEF NamedExecute
  <1>2. i \in Nat
    BY <1>1, ContinueAtType DEF SchedInv
  <1>3. MatchFrom(i) \in 1..Len(queue)
    <2> DEFINE I == {k \in i..Len(queue) : queue[k].obj \in matching}
    <2>1. Len(queue) \in Nat /\ MatchFrom(i) = IF I # {} THEN Min(I) ELSE 0
      BY EventsOfList DEF MatchFrom, SelectInSubSeq, SchedInv, ListInv, WellFormed
    <2>2. I # {} /\ I \in SUBSET Nat
      BY <1>1, <1>2, <2>1
    <2>3. MatchFrom(i) \in I
      BY <2>1, <2>2, MinProperties
    <2> QED BY <1>1, <1>2, <2>1, <2>3
  <1>4. running' \in ObjectsOf(queue)
    BY <1>1, <1>3 DEF ObjectsOf
  <1>5. cursor' # Freed
    BY CursorsDiffer DEF NamedExecute
  <1>6. DOMAIN TimeOf(queue) = ObjectsOf(queue)
    BY TimeOfFunction
  <1> QED BY <1>4, <1>5, <1>6 DEF NamedExecute, Abstract!ExecuteNamed, TimeOf, clientvars

\* Behind freed memory any object may be executed.
LEMMA NamedExecuteStaleSimulated ==
    ASSUME SchedInv, NamedExecuteStale
    PROVE  Abstract!ExecuteNamed
  <1>1. running' \in Objects
    BY DEF NamedExecuteStale, SchedInv, ServerTypeOK
  <1> QED BY <1>1 DEF NamedExecuteStale, Abstract!ExecuteNamed, clientvars, namedvars

\* Every step of the scheduler and of its server is an abstract step or none.
LEMMA StepSimulated ==
    ASSUME SleepInv, [Next]_vars, SchedInv'
    PROVE  [Abstract!ANext]_(Abstract!avars)
  <1>0. SchedInv /\ RunningInMethod /\ CursorInv /\ CursorInv'
    BY CursorNext DEF SleepInv
  <1>1. ASSUME ScheduleDue PROVE Abstract!ANext
    BY <1>1, ScheduleDueExecutes DEF Abstract!ANext
  <1>2. ASSUME ExecuteReturns \/ NamedReturns
        PROVE  Abstract!ANext \/ UNCHANGED Abstract!avars
    <2>1. /\ running' = NoObject /\ UNCHANGED <<queue, cursor, activitylock, now>>
          /\ (phase' \notin {"startup", "created", "named", "lost"})
                = (phase \notin {"startup", "created", "named", "lost"})
      BY <1>2 DEF ExecuteReturns, NamedReturns, clientvars, namedvars
    <2>2. CASE running # NoObject
      <3>1. Abstract!Finish
        BY <2>1, <2>2 DEF Abstract!Finish
      <3> QED BY <3>1 DEF Abstract!ANext
    <2>3. CASE running = NoObject
      BY <2>1, <2>3 DEF Abstract!avars
    <2> QED BY <2>2, <2>3
  <1>3. ASSUME NamedExecute PROVE Abstract!ANext
    BY <1>0, <1>3, NamedExecuteSimulated DEF Abstract!ANext
  <1>7. ASSUME NamedExecuteStale PROVE Abstract!ANext
    BY <1>0, <1>7, NamedExecuteStaleSimulated DEF Abstract!ANext
  <1>4. ASSUME NamedEnd \/ StartServer PROVE Abstract!ANext \/ UNCHANGED Abstract!avars
    <2>1. /\ running = NoObject /\ UNCHANGED <<queue, running, activitylock, now>>
          /\ phase \in {"created", "named"} /\ phase' \in {"named", "loop"}
          /\ phase' = "named" => UNCHANGED cursor
      BY <1>0, <1>4 DEF RunningInMethod, NamedEnd, StartServer, clientvars
    <2>2. CASE phase' = "loop"
      <3>2. cursor' # Freed
        BY <1>0, <2>2, CursorsDiffer DEF CursorInv
      <3>1. Abstract!Serve
        BY <2>1, <2>2, <3>2 DEF Abstract!Serve
      <3> QED BY <3>1 DEF Abstract!ANext
    <2>3. CASE phase' = "named"
      BY <2>1, <2>3 DEF Abstract!avars
    <2> QED BY <2>1, <2>2, <2>3
  <1>5. ASSUME Tick \/ AdjustClock PROVE Abstract!ANext
    <2>1. now' \in Nat /\ UNCHANGED <<queue, phase, running, cursor, activitylock>>
      BY <1>0, <1>5, TimesAreNat, BoundsAssumption
         DEF Tick, AdjustClock, clientvars, namedvars, SchedInv
    <2>2. Abstract!PassTime
      BY <2>1 DEF Abstract!PassTime
    <2> QED BY <2>2 DEF Abstract!ANext
  <1>6. ASSUME \/ ScheduleLocked \/ ScheduleNothingDue \/ Wake
               \/ CreateServer \/ LeaveLoop \/ ShutdownDone
               \/ Signal \/ NamedLost \/ Done \/ UNCHANGED vars
        PROVE  UNCHANGED Abstract!avars
    <2>1. /\ UNCHANGED <<queue, running, cursor, activitylock, now>>
          /\ (phase' \notin {"startup", "created", "named", "lost"})
                = (phase \notin {"startup", "created", "named", "lost"})
      BY <1>6 DEF ScheduleLocked, ScheduleNothingDue, Wake, CreateServer, LeaveLoop,
                  ShutdownDone, Signal, NamedLost, Done, vars, clientvars, namedvars, InLoop
    <2> QED BY <2>1 DEF Abstract!avars
  <1> QED BY <1>0, <1>1, <1>2, <1>3, <1>4, <1>5, <1>6, <1>7, ClientStepSimulated
          DEF Next, SchedulerStep, ServerStep

\* The scheduler with its list implements the set of objects with times.
THEOREM SchedulerImplementsTimedObjects == Spec => ImplementsTimedObjects
  <1>1. Init => Abstract!AInit
    <2> SUFFICES ASSUME Init PROVE Abstract!AInit
      OBVIOUS
    <2>1. ObjectsOf(queue) = {}
      BY DEF Init, ObjectsOf
    <2>2. TimeOf(queue) = <<>>
      BY <2>1 DEF TimeOf
    <2> QED BY <2>2, CursorsDiffer DEF Init, Abstract!AInit, TimeOf
  <1>2. SleepInv /\ [Next]_vars => [Abstract!ANext]_(Abstract!avars)
    BY SchedNext, StepSimulated DEF SleepInv
  <1> QED BY <1>1, <1>2, SchedulerSleepInv, PTL
          DEF Spec, ImplementsTimedObjects, Abstract!ASpec

---------------------------------------------------------------------------
(* The times of the events.  On normal times the arithmetic of the code is *)
(* that of the numbers of microseconds.                                    *)

\* A number that fits is converted to itself.
LEMMA UIntFits == \A x \in 0..(Word - 1) : OV_UINT(x) = x
  BY WidthAssumption DEF OV_UINT, Word

\* A negative number wraps around.
LEMMA UIntNegative == \A x \in (-Half)..(-1) : OV_UINT(x) = x + Word
  BY WidthAssumption DEF OV_UINT, Word

\* A signed number that fits is converted to itself, and survives a conversion
\* to an unsigned one.
LEMMA IntFits == \A x \in (-Half)..(Half - 1) : OV_INT(x) = x /\ OV_INT(OV_UINT(x)) = x
  <1> SUFFICES ASSUME NEW x \in (-Half)..(Half - 1)
               PROVE  OV_INT(x) = x /\ OV_INT(OV_UINT(x)) = x
    OBVIOUS
  <1>1. CASE x >= 0
    <2>1. OV_UINT(x) = x
      BY <1>1, UIntFits, WidthAssumption DEF Word
    <2> QED BY <1>1, <2>1, WidthAssumption DEF OV_INT
  <1>2. CASE x < 0
    <2>1. OV_UINT(x) = x + Word
      BY <1>2, UIntNegative, WidthAssumption
    <2>2. OV_UINT(x + Word) = x + Word
      BY <1>2, UIntFits, WidthAssumption DEF Word
    <2> QED BY <1>2, <2>1, <2>2, WidthAssumption DEF OV_INT, Word
  <1> QED BY <1>1, <1>2, WidthAssumption

---------------------------------------------------------------------------
\* The parts of a normal time or span, as numbers.
LEMMA NormalParts ==
    /\ Word \in Nat /\ Word = 2 * Half
    /\ \A t \in NormalTime :
        /\ t.secs \in Int /\ 0 <= t.secs /\ t.secs < Word
        /\ t.usecs \in Int /\ 0 <= t.usecs /\ t.usecs < Second
    /\ \A s \in NormalSpan :
        /\ s.secs \in Int /\ -Half <= s.secs /\ s.secs < Half
        /\ s.usecs \in Int /\ -Second < s.usecs /\ s.usecs < Second
  BY WidthAssumption DEF NormalTime, NormalSpan, Word

\* A normal time lies between its seconds and the next second.
LEMMA SecondsOf ==
    ASSUME NEW n \in Int, NEW u \in Int, 0 <= u, u < Second,
           0 <= n * Second + u, n * Second + u < Word * Second
    PROVE  n \in 0..(Word - 1)
  <1>1. Second \in Int /\ Second > 0 /\ Word \in Int
    BY WidthAssumption DEF Word
  <1>2. n >= 0
    <2> SUFFICES ASSUME n <= -1 PROVE FALSE
      BY <1>1
    <2>1. (-1 - n) * Second >= 0
      BY <1>1, SMT
    <2> QED BY <1>1, <2>1, SMT
  <1>3. n < Word
    <2> SUFFICES ASSUME n >= Word PROVE FALSE
      BY <1>1
    <2>1. (n - Word) * Second >= 0
      BY <1>1, SMT
    <2> QED BY <1>1, <2>1, SMT
  <1> QED BY <1>1, <1>2, <1>3

\* Adding one to or taking one from the seconds is modulo the word, as the
\* addition of the seconds was.
LEMMA CarriedSeconds ==
    ASSUME NEW x \in Int, NEW d \in {-1, 0, 1}, x + d \in 0..(Word - 1),
           -Half <= x, x < Word + Half
    PROVE  OV_UINT(OV_UINT(x) + d) = x + d
  <1>1. CASE x \in 0..(Word - 1)
    BY <1>1, UIntFits, WidthAssumption DEF Word
  <1>2. CASE x = -1
    BY <1>2, WidthAssumption DEF OV_UINT, Word
  <1>3. CASE x = Word
    BY <1>3, WidthAssumption DEF OV_UINT, Word
  <1> QED BY <1>1, <1>2, <1>3, WidthAssumption DEF Word

---------------------------------------------------------------------------
\* ov_time_add of a normal time and a normal span is normal and the sum of
\* their microseconds whenever 32 bits of seconds can say it: the correction by
\* one second is enough.
THEOREM AddIsExact ==
    ASSUME NEW t \in NormalTime, NEW s \in NormalSpan,
           Micros(t) + Micros(s) \in 0..(Word * Second - 1)
    PROVE  /\ ov_time_add(t, s) \in NormalTime
           /\ Micros(ov_time_add(t, s)) = Micros(t) + Micros(s)
  <1> DEFINE x == t.secs + s.secs
             u == t.usecs + s.usecs
  <1>1. /\ x \in Int /\ -Half <= x /\ x < Word + Half
        /\ u \in Int /\ -Second < u /\ u < 2 * Second - 1
        /\ Second \in Int /\ Word \in Int /\ Half \in Int
        /\ Word = 2 * Half /\ 1 < Second /\ 2 * Second <= Half
    BY NormalParts, WidthAssumption
  <1>2. /\ Micros(t) + Micros(s) = x * Second + u
        /\ 0 <= x * Second + u /\ x * Second + u < Word * Second
    <2>1. /\ t.secs \in Int /\ s.secs \in Int /\ t.usecs \in Int /\ s.usecs \in Int
          /\ Second \in Int /\ Word * Second \in Int
      BY <1>1, NormalParts
    <2>2. Micros(t) + Micros(s) = x * Second + u
      BY <2>1, SMT DEF Micros
    <2> QED BY <2>1, <2>2
  <1> HIDE DEF x, u
  <1>3. OV_INT(OV_UINT(u)) = u
    BY <1>1, IntFits
  <1>4. ov_time_add(t, s) =
            IF u > Second - 1
            THEN [secs |-> OV_UINT(OV_UINT(x) + 1), usecs |-> OV_UINT(OV_UINT(u) - Second)]
            ELSE IF u < 0
            THEN [secs |-> OV_UINT(OV_UINT(x) - 1), usecs |-> OV_UINT(OV_UINT(u) + Second)]
            ELSE [secs |-> OV_UINT(x), usecs |-> OV_UINT(u)]
    BY <1>3 DEF ov_time_add, x, u
  <1>5. ASSUME NEW d \in {-1, 0, 1}, NEW r, r = [secs |-> x + d, usecs |-> u - d * Second],
               0 <= u - d * Second, u - d * Second < Second
        PROVE  r \in NormalTime /\ Micros(r) = x * Second + u /\ x + d \in 0..(Word - 1)
    <2>1. x + d \in Int /\ u - d * Second \in Int
      BY <1>1
    <2>2. (x + d) * Second + (u - d * Second) = x * Second + u
      BY <1>1, SMT
    <2>3. x + d \in 0..(Word - 1)
      BY <1>2, <1>5, <2>1, <2>2, SecondsOf
    <2>4. r \in NormalTime
      BY <1>1, <1>5, <2>1, <2>3 DEF NormalTime
    <2>5. Micros(r) = (x + d) * Second + (u - d * Second)
      BY <1>5 DEF Micros
    <2> QED BY <2>2, <2>3, <2>4, <2>5
  <1>6. CASE u > Second - 1
    <2> DEFINE r == [secs |-> x + 1, usecs |-> u - 1 * Second]
    <2>1. r \in NormalTime /\ Micros(r) = x * Second + u /\ x + 1 \in 0..(Word - 1)
      BY <1>1, <1>5, <1>6
    <2>2. OV_UINT(OV_UINT(x) + 1) = x + 1
      BY <1>1, <2>1, CarriedSeconds
    <2>3. OV_UINT(OV_UINT(u) - Second) = u - 1 * Second
      BY <1>1, <1>6, UIntFits
    <2>4. ov_time_add(t, s) = r
      BY <1>4, <1>6, <2>2, <2>3
    <2> QED BY <1>2, <2>1, <2>4
  <1>7. CASE u < 0
    <2> DEFINE r == [secs |-> x + (-1), usecs |-> u - (-1) * Second]
    <2>1. r \in NormalTime /\ Micros(r) = x * Second + u /\ x + (-1) \in 0..(Word - 1)
      BY <1>1, <1>5, <1>7
    <2>2. OV_UINT(OV_UINT(x) - 1) = x + (-1)
      <3>1. OV_UINT(OV_UINT(x) + (-1)) = x + (-1)
        BY <1>1, <2>1, CarriedSeconds
      <3>2. OV_UINT(x) \in Int
        BY <1>1 DEF OV_UINT
      <3>3. OV_UINT(x) + (-1) = OV_UINT(x) - 1
        BY <3>2
      <3> QED BY <3>1, <3>3
    <2>3. OV_UINT(OV_UINT(u) + Second) = u - (-1) * Second
      <3>1. OV_UINT(u) = u + Word
        BY <1>1, <1>7, UIntNegative
      <3>2. OV_UINT(u + Word + Second) = u + Second
        BY <1>1, <1>7 DEF OV_UINT
      <3> QED BY <1>1, <3>1, <3>2
    <2>4. ov_time_add(t, s) = r
      BY <1>1, <1>4, <1>7, <2>2, <2>3
    <2> QED BY <1>2, <2>1, <2>4
  <1>8. CASE 0 <= u /\ u <= Second - 1
    <2> DEFINE r == [secs |-> x + 0, usecs |-> u - 0 * Second]
    <2>1. r \in NormalTime /\ Micros(r) = x * Second + u /\ x + 0 \in 0..(Word - 1)
      BY <1>1, <1>5, <1>8
    <2>2. OV_UINT(x) = x + 0 /\ OV_UINT(u) = u - 0 * Second
      BY <1>1, <1>8, <2>1, UIntFits
    <2>3. ov_time_add(t, s) = r
      BY <1>1, <1>4, <1>8, <2>2
    <2> QED BY <1>2, <2>1, <2>3
  <1> QED BY <1>1, <1>6, <1>7, <1>8

\* ov_time_diff of two normal times that are less than 2^31 seconds apart is
\* the difference of their microseconds, on either side of the year 2038, and
\* its parts do not differ in sign, as its comment demands.
THEOREM DiffIsExact ==
    ASSUME NEW a \in NormalTime, NEW b \in NormalTime, Near(a, b)
    PROVE  /\ ov_time_diff(a, b) \in NormalSpan
           /\ SameSign(ov_time_diff(a, b))
           /\ Micros(ov_time_diff(a, b)) = Micros(a) - Micros(b)
  <1> DEFINE x == a.secs - b.secs
             u == a.usecs - b.usecs
  <1>1. /\ x \in Int /\ -Half < x /\ x < Half
        /\ u \in Int /\ -Second < u /\ u < Second
        /\ Second \in Int /\ Half \in Int /\ 1 < Second /\ 2 * Second <= Half
    BY NormalParts, WidthAssumption DEF Near
  <1>2. Micros(a) - Micros(b) = x * Second + u
    <2>1. /\ a.secs \in Int /\ b.secs \in Int /\ a.usecs \in Int /\ b.usecs \in Int
          /\ Second \in Int
      BY <1>1, NormalParts
    <2> QED BY <2>1, SMT DEF Micros
  <1> HIDE DEF x, u
  <1>3. OV_INT(x) = x /\ OV_INT(u) = u
    BY <1>1, IntFits
  <1>4. ov_time_diff(a, b) =
            IF x > 0 /\ u < 0 THEN [secs |-> x - 1, usecs |-> u + Second]
            ELSE IF x < 0 /\ u > 0 THEN [secs |-> x + 1, usecs |-> u - Second]
            ELSE [secs |-> x, usecs |-> u]
    BY <1>3 DEF ov_time_diff, x, u
  <1>5. CASE x > 0 /\ u < 0
    <2> DEFINE r == [secs |-> x - 1, usecs |-> u + Second]
    <2>1. r \in NormalSpan /\ SameSign(r)
      BY <1>1, <1>5 DEF NormalSpan, SameSign
    <2>2. Micros(r) = x * Second + u
      BY <1>1, SMT DEF Micros
    <2>3. ov_time_diff(a, b) = r
      BY <1>4, <1>5
    <2> QED BY <1>2, <2>1, <2>2, <2>3
  <1>6. CASE x < 0 /\ u > 0
    <2> DEFINE r == [secs |-> x + 1, usecs |-> u - Second]
    <2>1. r \in NormalSpan /\ SameSign(r)
      BY <1>1, <1>6 DEF NormalSpan, SameSign
    <2>2. Micros(r) = x * Second + u
      BY <1>1, SMT DEF Micros
    <2>3. ov_time_diff(a, b) = r
      BY <1>1, <1>4, <1>6
    <2> QED BY <1>2, <2>1, <2>2, <2>3
  <1>7. CASE ~(x > 0 /\ u < 0) /\ ~(x < 0 /\ u > 0)
    <2> DEFINE r == [secs |-> x, usecs |-> u]
    <2>1. r \in NormalSpan /\ SameSign(r)
      BY <1>1, <1>7 DEF NormalSpan, SameSign
    <2>2. Micros(r) = x * Second + u
      BY <1>1, SMT DEF Micros
    <2>3. ov_time_diff(a, b) = r
      BY <1>4, <1>7
    <2> QED BY <1>2, <2>1, <2>2, <2>3
  <1> QED BY <1>5, <1>6, <1>7

\* Microseconds tell normal times apart, and order them as their parts do.
LEMMA MicrosOrder ==
    ASSUME NEW a \in NormalTime, NEW b \in NormalTime
    PROVE  /\ a.secs < b.secs => Micros(a) < Micros(b)
           /\ a.secs = b.secs => Micros(a) - Micros(b) = a.usecs - b.usecs
  <1>1. /\ a.secs \in Int /\ b.secs \in Int /\ a.usecs \in Int /\ b.usecs \in Int
        /\ 0 <= a.usecs /\ a.usecs < Second /\ 0 <= b.usecs /\ b.usecs < Second
        /\ Second \in Int /\ 0 < Second
    BY NormalParts, WidthAssumption
  <1>2. ASSUME a.secs < b.secs PROVE Micros(a) < Micros(b)
    <2>1. (b.secs - a.secs - 1) * Second >= 0
      BY <1>1, <1>2, SMT
    <2> QED BY <1>1, <2>1, SMT DEF Micros
  <1>3. ASSUME a.secs = b.secs PROVE Micros(a) - Micros(b) = a.usecs - b.usecs
    BY <1>1, <1>3, SMT DEF Micros
  <1> QED BY <1>2, <1>3

\* ov_time_compare orders normal times as their microseconds: the order of the
\* event list is that of the numbers by which the models count time.
THEOREM CompareIsOrder ==
    ASSUME NEW a \in NormalTime, NEW b \in NormalTime
    PROVE  /\ ov_time_compare(a, b) = -1 <=> Micros(a) < Micros(b)
           /\ ov_time_compare(a, b) = 0 <=> Micros(a) = Micros(b)
           /\ ov_time_compare(a, b) = 1 <=> Micros(a) > Micros(b)
  <1>1. /\ a.secs \in Int /\ b.secs \in Int /\ a.usecs \in Int /\ b.usecs \in Int
        /\ Micros(a) \in Int /\ Micros(b) \in Int
    BY NormalParts, WidthAssumption DEF Micros
  <1>2. /\ a.secs < b.secs => Micros(a) < Micros(b)
        /\ b.secs < a.secs => Micros(b) < Micros(a)
        /\ a.secs = b.secs => Micros(a) - Micros(b) = a.usecs - b.usecs
    BY MicrosOrder
  <1> QED BY <1>1, <1>2 DEF ov_time_compare

\* The time until an event, added to the present, is the time of the event:
\* the sleeps and the intervals that the code computes by a difference and
\* hands to an addition do not drift.
THEOREM AddUndoesDiff ==
    ASSUME NEW a \in NormalTime, NEW b \in NormalTime, Near(a, b)
    PROVE  ov_time_add(b, ov_time_diff(a, b)) = a
  <1> DEFINE d == ov_time_diff(a, b)
             c == ov_time_add(b, d)
  <1>1. d \in NormalSpan /\ Micros(d) = Micros(a) - Micros(b)
    BY DiffIsExact
  <1>2. /\ a.secs \in Int /\ a.usecs \in Int /\ Micros(a) \in Int /\ Micros(b) \in Int
        /\ 0 <= a.usecs /\ a.usecs < Second /\ 0 <= a.secs /\ a.secs < Word
        /\ Second \in Int /\ 0 < Second /\ Word \in Int
    BY NormalParts, WidthAssumption DEF Micros
  <1>3. Micros(a) \in 0..(Word * Second - 1)
    <2>1. a.secs * Second >= 0 /\ (Word - a.secs - 1) * Second >= 0
      BY <1>2, SMT
    <2> QED BY <1>2, <2>1, SMT DEF Micros
  <1>4. Micros(b) + Micros(d) = Micros(a)
    BY <1>1, <1>2
  <1> HIDE DEF d
  <1>5. c \in NormalTime /\ Micros(c) = Micros(a)
    BY <1>1, <1>3, <1>4, AddIsExact
  <1> HIDE DEF c
  <1>6. c.secs = a.secs
    <2>1. /\ c.secs < a.secs => Micros(c) < Micros(a)
          /\ a.secs < c.secs => Micros(a) < Micros(c)
      BY <1>5, MicrosOrder
    <2>2. c.secs \in Int
      BY <1>5, NormalParts
    <2> QED BY <1>2, <1>5, <2>1, <2>2
  <1>7. c.usecs = a.usecs
    <2>1. Micros(c) - Micros(a) = c.usecs - a.usecs /\ c.usecs \in Int
      BY <1>5, <1>6, MicrosOrder, NormalParts
    <2> QED BY <1>2, <1>5, <2>1
  <1>8. c = a
    BY <1>5, <1>6, <1>7 DEF NormalTime
  <1> QED BY <1>8 DEF c, d
===========================================================================
