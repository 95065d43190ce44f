---------------------------- MODULE EventQueue ----------------------------
(***************************************************************************)
(* The event list of libov/ov_scheduler.c: a singly linked list of         *)
(* OV_SCHEDULER_EVENT objects, ordered by time, whose head is the static   *)
(* variable pfirstevent.  A list is a sequence of records [obj, time]; the *)
(* walks along pnext are searches for the first index with a property.     *)
(* The operators are pure, so that every module whose objects are          *)
(* scheduled (Scheduler, TaskLib, FbTask) shares them.                     *)
(***************************************************************************)
EXTENDS Naturals, Sequences, SequencesExt

Event(obj, time) == [obj |-> obj, time |-> time]

Events(O) == [obj : O, time : Nat]

\* Index of the first event of obj, 0 when obj has none.
FirstOf(q, obj) == SelectInSeq(q, LAMBDA e : e.obj = obj)

Queued(q, obj) == \E i \in 1..Len(q) : q[i].obj = obj

\* An event goes in front of the first strictly later one: events of equal
\* time keep the order in which they were inserted.
insertevent_AtEnd(q, e) == Append(q, e)
insertevent(q, e) ==
    LET later == SelectInSeq(q, LAMBDA f : f.time > e.time)
    IN  InsertAt(q, IF later = 0 THEN Len(q) + 1 ELSE later, e)

\* ov_scheduler_register appends a fresh event; it does not look for an
\* existing one.
register(q, obj, now) == insertevent(q, Event(obj, now))

\* Only the first event of obj is unlinked; without one nothing happens.
unregister(q, obj) ==
    IF Queued(q, obj) THEN RemoveAt(q, FirstOf(q, obj)) ELSE q

\* Only the first event of obj is given the new time and moved.
setabseventtime(q, obj, time) ==
    IF Queued(q, obj)
    THEN insertevent(RemoveAt(q, FirstOf(q, obj)), Event(obj, time))
    ELSE q

\* What ov_scheduler_schedulenextevent does to the list before it calls the
\* method of the head: the head gets the current time and is reinserted.
requeuehead_TimeKept(q, now) == q
requeuehead(q, now) == insertevent(Tail(q), Event(Head(q).obj, now))

\* The head is executed only when its time has passed, not when it is reached.
HeadDue_AtTime(q, now) == q # <<>> /\ now >= Head(q).time
HeadDue(q, now) == q # <<>> /\ now > Head(q).time

---------------------------------------------------------------------------
(* What the list operations are meant to keep.                             *)

Sorted(q) == \A i, j \in 1..Len(q) : i <= j => q[i].time <= q[j].time

OnePerObject(q) == \A i, j \in 1..Len(q) : q[i].obj = q[j].obj => i = j

ObjectsOf(q) == {q[i].obj : i \in 1..Len(q)}
===========================================================================
