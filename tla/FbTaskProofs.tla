---------------------------- MODULE FbTaskProofs ----------------------------
(***************************************************************************)
(* The invariants of tasks and function blocks, for any tasks in any tree  *)
(* of task lists, any cycle times and any requests.                        *)
(***************************************************************************)
EXTENDS FbTask, EventQueueProofs

Scheduled == {UrTask, ComTask}
Members(lists, t) == ToSet(lists[t])

\* The types of the variables but for the event list, the task lists and the
\* stack.
LocalsOK ==
    /\ phase \in {"startup", "up", "down"}
    /\ now \in 0..MaxTime /\ ltc \in 0..MaxTime
    /\ serving \in BOOLEAN
    /\ actimode \in [Tasks -> Modes]
    /\ proctime \in [Tasks -> Nat] /\ cyctime \in [Tasks -> Nat]
    /\ ErrState \in [Tasks -> {0, 1}]
    /\ eexreq \in [Blocks -> BOOLEAN]

\* The event list is well-formed and has both objects while the server runs.
QueueInv ==
    /\ WellFormed(queue, Scheduled)
    /\ phase = "startup" => queue = <<>>
    /\ phase = "up" => ObjectsOf(queue) = Scheduled

\* A task is linked to one parent at most, and once; the urtask has none.
TreeInv(lists) ==
    /\ lists \in [Tasks -> Seq(Tasks \ {UrTask})]
    /\ \A t \in Tasks : IsListOf(lists[t], Tasks \ {UrTask})
    /\ \A t, q \in Tasks : Members(lists, t) \cap Members(lists, q) # {} => t = q

\* What of a list is still before a walk that has come to c.
Rest(l, c) == {l[k] : k \in {j \in 1..Len(l) : 0 < PlaceOf(l, c) /\ PlaceOf(l, c) <= j}}

\* A walk stands on a member of its list or at its end, and what it has not
\* looked at is still before it.
FrameInv(f, lists) ==
    f.pc = "children" =>
        /\ f.cur \in Members(lists, f.task) \cup {NoTask}
        /\ f.missed \subseteq Rest(lists[f.task], f.cur)

\* A walk that executes the child t has remembered a member behind which there
\* is all that it has not looked at; t may have left the list, but is in no
\* other one.
CallerInv(f, t, lists) ==
    /\ f.pc = "children" /\ f.cur = t
    /\ f.next \in (Members(lists, f.task) \ {t}) \cup {NoTask}
    /\ f.missed \subseteq {t} \cup Rest(lists[f.task], f.next)
    /\ \A q \in Tasks : t \in Members(lists, q) => q = f.task

\* The stack is a path from the urtask, and no task is on it twice.
PathInv(st, lists) ==
    /\ st \in Seq(FrameTypes)
    /\ st # <<>> => st[1].task = UrTask
    /\ \A i, j \in 1..Len(st) : j = i + 1 => CallerInv(st[i], st[j].task, lists)
    /\ \A i, j \in 1..Len(st) : st[i].task = st[j].task => i = j

StackInv(st, lists) ==
    /\ PathInv(st, lists)
    /\ st # <<>> => FrameInv(st[Len(st)], lists)

\* Nothing is executed while clients are served, and both happens only while
\* the server runs.
ServingInv ==
    /\ serving => stack = <<>>
    /\ serving \/ stack # <<>> => phase = "up"

FbIInv ==
    /\ LocalsOK /\ QueueInv /\ FailedIsOff
    /\ TreeInv(tasklist) /\ StackInv(stack, tasklist) /\ ServingInv

---------------------------------------------------------------------------
(* The walk along a list.                                                  *)

\* The place of the member at a place, and the members at and behind it.
LEMMA RestFromPlace ==
    ASSUME NEW S, NEW l, IsListOf(l, S), NEW i \in 1..Len(l)
    PROVE  /\ PlaceOf(l, l[i]) = i
           /\ Rest(l, l[i]) = {l[k] : k \in i..Len(l)}
           /\ NextChild(l, l[i]) = IF i < Len(l) THEN l[i + 1] ELSE NoTask
  <1>1. /\ Len(l) \in Nat /\ ToSet(l) = {l[k] : k \in 1..Len(l)}
        /\ \A j, k \in 1..Len(l) : l[j] = l[k] => j = k
    BY ListPlaces
  <1>2. PlaceOf(l, l[i]) \in 1..Len(l) /\ l[PlaceOf(l, l[i])] = l[i]
    BY <1>1, PlaceFinds
  <1>3. PlaceOf(l, l[i]) = i
    BY <1>1, <1>2
  <1>4. {j \in 1..Len(l) : 0 < i /\ i <= j} = i..Len(l)
    BY <1>1
  <1>5. Rest(l, l[i]) = {l[k] : k \in i..Len(l)}
    BY <1>3, <1>4 DEF Rest
  <1>6. NextChild(l, l[i]) = IF i \in 1..(Len(l) - 1) THEN l[i + 1] ELSE NoTask
    BY <1>3 DEF NextChild, PlaceOf
  <1>7. i \in 1..(Len(l) - 1) <=> i < Len(l)
    BY <1>1
  <1> QED BY <1>3, <1>5, <1>6, <1>7

\* Nothing is before a walk that has come to the end.
LEMMA NoRestAtEnd ==
    ASSUME NEW S, NEW l, IsListOf(l, S), NEW x, x \notin ToSet(l)
    PROVE  Rest(l, x) = {}
  <1>1. Len(l) \in Nat /\ ToSet(l) = {l[k] : k \in 1..Len(l)}
    BY ListPlaces
  <1>2. PlaceOf(l, x) = 0
    BY <1>1, PlaceFinds
  <1> QED BY <1>2 DEF Rest

\* Everything is before a walk that begins.
LEMMA AllFromFirst ==
    ASSUME NEW S, NEW l, IsListOf(l, S)
    PROVE  /\ FirstChild(l) \in ToSet(l) \cup {NoTask}
           /\ ToSet(l) \subseteq Rest(l, FirstChild(l))
  <1>1. Len(l) \in Nat /\ ToSet(l) = {l[k] : k \in 1..Len(l)}
    BY ListPlaces
  <1>2. CASE l = <<>>
    BY <1>2, EmptyList DEF FirstChild
  <1>3. CASE l # <<>>
    <2>1. FirstChild(l) = l[1] /\ 1 \in 1..Len(l)
      BY <1>3, EmptySeq, LenProperties DEF IsListOf, FirstChild
    <2>2. Rest(l, l[1]) = ToSet(l)
      BY <1>1, <2>1, RestFromPlace
    <2> QED BY <1>1, <2>1, <2>2
  <1> QED BY <1>2, <1>3

\* A step of the walk leaves behind the child it has looked at, and no other.
LEMMA RestAdvances ==
    ASSUME NEW S, NEW l, IsListOf(l, S), NEW c \in ToSet(l)
    PROVE  /\ NextChild(l, c) \in (ToSet(l) \ {c}) \cup {NoTask}
           /\ Rest(l, c) \subseteq {c} \cup Rest(l, NextChild(l, c))
  <1>1. /\ Len(l) \in Nat /\ ToSet(l) = {l[k] : k \in 1..Len(l)}
        /\ \A j, k \in 1..Len(l) : l[j] = l[k] => j = k
    BY ListPlaces
  <1>2. PICK i \in 1..Len(l) : c = l[i]
    BY <1>1
  <1>3. /\ Rest(l, c) = {l[k] : k \in i..Len(l)}
        /\ NextChild(l, c) = IF i < Len(l) THEN l[i + 1] ELSE NoTask
    BY <1>2, RestFromPlace
  <1>4. CASE i < Len(l)
    <2>1. i + 1 \in 1..Len(l) /\ i + 1 # i
      BY <1>1, <1>4
    <2>2. NextChild(l, c) = l[i + 1] /\ l[i + 1] \in ToSet(l) \ {c}
      BY <1>1, <1>2, <1>3, <1>4, <2>1
    <2>3. Rest(l, l[i + 1]) = {l[k] : k \in (i + 1)..Len(l)}
      BY <2>1, RestFromPlace
    <2>4. \A k \in i..Len(l) : k = i \/ k \in (i + 1)..Len(l)
      BY <1>1
    <2> QED BY <1>2, <1>3, <2>2, <2>3, <2>4
  <1>5. CASE ~(i < Len(l))
    <2>1. \A k \in i..Len(l) : k = i
      BY <1>1, <1>5
    <2> QED BY <1>2, <1>3, <1>5, <2>1
  <1> QED BY <1>4, <1>5

\* What is behind a member stays behind it when another one leaves the list.
LEMMA RestWithout ==
    ASSUME NEW S, NEW l, IsListOf(l, S), NEW c, NEW x, x # c
    PROVE  Rest(l, x) \ {c} \subseteq Rest(RemoveFirst(l, c), x)
  <1> DEFINE r == RemoveFirst(l, c)
             n == Len(l)
  <1>1. /\ n \in Nat /\ ToSet(l) = {l[k] : k \in 1..n}
        /\ \A j, k \in 1..n : l[j] = l[k] => j = k
    BY ListPlaces
  <1>2. CASE c \notin ToSet(l)
    <2>1. r = l
      BY <1>1, <1>2 DEF RemoveFirst
    <2> QED BY <2>1
  <1>3. CASE x \notin ToSet(l)
    BY <1>3, NoRestAtEnd
  <1>4. CASE c \in ToSet(l) /\ x \in ToSet(l)
    <2>1. PICK p \in 1..n : c = l[p]
      BY <1>1, <1>4
    <2>2. PICK i \in 1..n : x = l[i]
      BY <1>1, <1>4
    <2>3. PlaceOf(l, c) = p
      BY <2>1, RestFromPlace
    <2>4. r = RemoveAt(l, p)
      BY <2>1, <2>3 DEF RemoveFirst, PlaceOf
    <2>5. /\ Len(r) = n - 1
          /\ \A j \in 1..(n - 1) : r[j] = IF j < p THEN l[j] ELSE l[j + 1]
      BY <2>4, RemoveAtProperties DEF IsListOf
    <2>6. IsListOf(r, S)
      BY RemoveFirstKeepsList
    <2> HIDE DEF r
    <2> DEFINE sh(k) == IF k < p THEN k ELSE k - 1
    <2>7. ASSUME NEW k \in 1..n, k # p
          PROVE  sh(k) \in 1..(n - 1) /\ r[sh(k)] = l[k]
      BY <1>1, <2>5, <2>7
    <2>8. ASSUME NEW k \in i..n, k # p
          PROVE  sh(k) \in sh(i)..(n - 1)
      BY <1>1, <2>8
    <2>9. i # p
      BY <2>1, <2>2
    <2>10. sh(i) \in 1..Len(r) /\ r[sh(i)] = x
      BY <2>2, <2>5, <2>7, <2>9
    <2>11. Rest(r, x) = {r[k] : k \in sh(i)..(n - 1)}
      <3> HIDE DEF sh
      <3>1. Rest(r, r[sh(i)]) = {r[k] : k \in sh(i)..Len(r)}
        BY <2>6, <2>10, RestFromPlace
      <3> QED BY <2>5, <2>10, <3>1
    <2>12. Rest(l, x) = {l[k] : k \in i..n}
      BY <2>2, RestFromPlace
    <2>13. ASSUME NEW k \in i..n, l[k] # c
           PROVE  l[k] \in {r[m] : m \in sh(i)..(n - 1)}
      <3>1. k # p /\ k \in 1..n
        BY <1>1, <2>1, <2>13
      <3>2. sh(k) \in sh(i)..(n - 1) /\ r[sh(k)] = l[k]
        BY <2>7, <2>8, <3>1
      <3> HIDE DEF sh
      <3> QED BY <3>2
    <2> HIDE DEF sh, n
    <2> QED BY <2>11, <2>12, <2>13 DEF r
  <1> QED BY <1>2, <1>3, <1>4

\* It stays there, too, when one is linked to the end of the list.
LEMMA RestAppended ==
    ASSUME NEW S, NEW l, IsListOf(l, S), NEW c \in S, c \notin ToSet(l), NEW x
    PROVE  Rest(l, x) \subseteq Rest(Append(l, c), x)
  <1> DEFINE r == Append(l, c)
             n == Len(l)
  <1>1. n \in Nat /\ ToSet(l) = {l[k] : k \in 1..n}
    BY ListPlaces
  <1>2. CASE x \notin ToSet(l)
    BY <1>2, NoRestAtEnd
  <1>3. CASE x \in ToSet(l)
    <2>1. PICK i \in 1..n : x = l[i]
      BY <1>1, <1>3
    <2>2. /\ Len(r) = n + 1 /\ \A k \in 1..n : r[k] = l[k]
          /\ IsListOf(r, S)
      BY AppendProperties, AppendKeepsList DEF IsListOf
    <2> HIDE DEF r
    <2>3. i \in 1..Len(r) /\ r[i] = x
      BY <1>1, <2>1, <2>2
    <2>4. Rest(r, x) = {r[k] : k \in i..(n + 1)}
      <3>1. IsListOf(r, S) /\ i \in 1..Len(r)
        BY <2>2, <2>3
      <3> HIDE DEF n
      <3>2. Rest(r, r[i]) = {r[k] : k \in i..Len(r)}
        BY <3>1, RestFromPlace
      <3> QED BY <2>2, <2>3, <3>2
    <2>5. Rest(l, x) = {l[k] : k \in i..n}
      BY <2>1, RestFromPlace
    <2>6. ASSUME NEW k \in i..n PROVE k \in i..(n + 1) /\ r[k] = l[k]
      BY <1>1, <2>2
    <2> HIDE DEF n
    <2> QED BY <2>4, <2>5, <2>6 DEF r
  <1> QED BY <1>2, <1>3

---------------------------------------------------------------------------
(* Frames and the stack.                                                   *)

LEMMA ListsOfTasks ==
    ASSUME NEW lists, TreeInv(lists), NEW t \in Tasks
    PROVE  /\ IsListOf(lists[t], Tasks \ {UrTask})
           /\ Members(lists, t) \subseteq Tasks /\ UrTask \notin Members(lists, t)
           /\ NoTask \notin Members(lists, t)
           /\ FirstChild(lists[t]) \in Tasks \cup {NoTask}
           /\ \A c : NextChild(lists[t], c) \in Tasks \cup {NoTask}
  <1>1. IsListOf(lists[t], Tasks \ {UrTask})
    BY DEF TreeInv
  <1>2. Members(lists, t) \subseteq Tasks \ {UrTask}
    BY <1>1, ListPlaces DEF Members
  <1>3. FirstChild(lists[t]) \in Tasks \cup {NoTask}
    BY <1>1, <1>2, AllFromFirst DEF Members
  <1>4. ASSUME NEW c PROVE NextChild(lists[t], c) \in Tasks \cup {NoTask}
    <2> DEFINE p == PlaceOf(lists[t], c)
    <2>1. NextChild(lists[t], c)
            = IF p \in 1..(Len(lists[t]) - 1) THEN lists[t][p + 1] ELSE NoTask
      BY DEF NextChild, PlaceOf
    <2> HIDE DEF p
    <2>2. p \in 1..(Len(lists[t]) - 1) => lists[t][p + 1] \in Members(lists, t)
      <3>1. /\ Len(lists[t]) \in Nat
            /\ ToSet(lists[t]) = {lists[t][k] : k \in 1..Len(lists[t])}
        BY <1>1, ListPlaces
      <3>2. p \in 1..(Len(lists[t]) - 1) => p + 1 \in 1..Len(lists[t])
        BY <3>1
      <3> QED BY <3>1, <3>2 DEF Members
    <2> QED BY <1>2, <2>1, <2>2
  <1> QED BY <1>1, <1>2, <1>3, <1>4, TasksAssumption

\* The frames that the actions write.
LEMMA FrameFields ==
    /\ \A f \in FrameTypes :
        /\ f.task \in Tasks /\ f.cur \in Tasks \cup {NoTask}
        /\ f.next \in Tasks \cup {NoTask} /\ f.missed \subseteq Tasks
        /\ f.pc \in {"children", "method"}
    /\ \A f \in FrameTypes, n \in Tasks \cup {NoTask} :
        LET g == [f EXCEPT !.next = n]
        IN  /\ g \in FrameTypes /\ g.task = f.task /\ g.pc = f.pc
            /\ g.cur = f.cur /\ g.next = n /\ g.missed = f.missed
    /\ \A f \in FrameTypes : \A lists :
        LET g == Advance(f, lists)
        IN  /\ g \in FrameTypes /\ g.task = f.task /\ g.pc = f.pc
            /\ g.cur = f.next /\ g.missed = f.missed \ {f.cur}
  <1>1. \A f \in FrameTypes :
        /\ f.task \in Tasks /\ f.cur \in Tasks \cup {NoTask}
        /\ f.next \in Tasks \cup {NoTask} /\ f.missed \subseteq Tasks
        /\ f.pc \in {"children", "method"}
    BY DEF FrameTypes
  <1>2. ASSUME NEW f \in FrameTypes, NEW n \in Tasks \cup {NoTask}
        PROVE  LET g == [f EXCEPT !.next = n]
               IN  /\ g \in FrameTypes /\ g.task = f.task /\ g.pc = f.pc
                   /\ g.cur = f.cur /\ g.next = n /\ g.missed = f.missed
    BY DEF FrameTypes
  <1>3. ASSUME NEW f \in FrameTypes, NEW lists
        PROVE  LET g == Advance(f, lists)
               IN  /\ g \in FrameTypes /\ g.task = f.task /\ g.pc = f.pc
                   /\ g.cur = f.next /\ g.missed = f.missed \ {f.cur}
    BY DEF FrameTypes, Advance
  <1> QED BY <1>1, <1>2, <1>3

\* The frames of a stack.
LEMMA FramesOfStack ==
    ASSUME NEW st \in Seq(FrameTypes)
    PROVE  /\ Len(st) \in Nat /\ \A i \in 1..Len(st) : st[i] \in FrameTypes
           /\ st = <<>> <=> Len(st) = 0
  BY LenProperties, ElementOfSeq, EmptySeq

\* The last frame is replaced by one of the same task.
LEMMA ReplaceTop ==
    ASSUME NEW st, NEW lists, PathInv(st, lists), st # <<>>,
           NEW f \in FrameTypes, f.task = st[Len(st)].task, FrameInv(f, lists)
    PROVE  StackInv([st EXCEPT ![Len(st)] = f], lists)
  <1> DEFINE n == Len(st)
             r == [st EXCEPT ![n] = f]
  <1>1. n \in Nat /\ n > 0 /\ n \in 1..n /\ st \in Seq(FrameTypes)
    BY FramesOfStack DEF PathInv
  <1>2. r \in Seq(FrameTypes) /\ Len(r) = n
    BY <1>1, ExceptSeq
  <1>3. r[n] = f /\ \A i \in 1..n : i # n => r[i] = st[i]
    BY <1>1
  <1>4. \A i \in 1..n : r[i].task = st[i].task
    BY <1>3
  <1> HIDE DEF r
  <1>5. r # <<>> => r[1].task = UrTask
    BY <1>1, <1>4 DEF PathInv
  <1>6. \A i, j \in 1..n : j = i + 1 => CallerInv(r[i], r[j].task, lists)
    <2> SUFFICES ASSUME NEW i \in 1..n, NEW j \in 1..n, j = i + 1
                 PROVE  CallerInv(r[i], r[j].task, lists)
      OBVIOUS
    <2>1. i # n
      BY <1>1
    <2> QED BY <1>3, <1>4, <2>1 DEF PathInv
  <1>7. \A i, j \in 1..n : r[i].task = r[j].task => i = j
    BY <1>4 DEF PathInv
  <1> QED BY <1>2, <1>3, <1>5, <1>6, <1>7 DEF StackInv, PathInv, r

\* A child is executed: it is not among the tasks that are being executed, for
\* they are in the lists of their callers or in none, and the urtask is in none.
LEMMA PushFrame ==
    ASSUME NEW st, NEW lists, TreeInv(lists), PathInv(st, lists), st # <<>>,
           NEW f \in FrameTypes, FrameInv(f, lists),
           CallerInv(st[Len(st)], f.task, lists),
           f.task \in Members(lists, st[Len(st)].task)
    PROVE  StackInv(Append(st, f), lists)
  <1> DEFINE n == Len(st)
             r == Append(st, f)
  <1>1. /\ n \in Nat /\ n > 0 /\ n \in 1..n /\ st \in Seq(FrameTypes)
        /\ \A i \in 1..n : st[i].task \in Tasks
    BY FramesOfStack, FrameFields DEF PathInv
  <1>2. /\ r \in Seq(FrameTypes) /\ Len(r) = n + 1 /\ r[n + 1] = f
        /\ \A i \in 1..n : r[i] = st[i]
    BY <1>1, AppendProperties
  <1> HIDE DEF r
  <1>3. \A i \in 1..(n + 1) : i \in 1..n \/ i = n + 1
    BY <1>1
  <1>4. ASSUME NEW i \in 1..n PROVE f.task # st[i].task
    <2> SUFFICES ASSUME f.task = st[i].task PROVE FALSE
      OBVIOUS
    <2>1. f.task # UrTask
      BY <1>1, ListsOfTasks
    <2>2. i # 1 /\ i - 1 \in 1..n /\ i = (i - 1) + 1
      BY <1>1, <2>1 DEF PathInv
    <2>3. CallerInv(st[i - 1], st[i].task, lists)
      BY <2>2 DEF PathInv
    <2>4. st[n].task = st[i - 1].task
      BY <1>1, <2>3 DEF CallerInv
    <2>5. i - 1 = n
      BY <1>1, <2>2, <2>4 DEF PathInv
    <2> QED BY <1>1, <2>5
  <1>5. r # <<>> => r[1].task = UrTask
    BY <1>1, <1>2 DEF PathInv
  <1>6. \A i, j \in 1..(n + 1) : j = i + 1 => CallerInv(r[i], r[j].task, lists)
    <2> SUFFICES ASSUME NEW i \in 1..(n + 1), NEW j \in 1..(n + 1), j = i + 1
                 PROVE  CallerInv(r[i], r[j].task, lists)
      OBVIOUS
    <2>1. CASE j \in 1..n
      <3>1. i \in 1..n
        BY <1>1, <2>1
      <3> QED BY <1>2, <2>1, <3>1 DEF PathInv
    <2>2. CASE j = n + 1
      <3>1. i = n
        BY <1>1, <2>2
      <3> QED BY <1>1, <1>2, <2>2, <3>1
    <2> QED BY <1>3, <2>1, <2>2
  <1>7. \A i, j \in 1..(n + 1) : r[i].task = r[j].task => i = j
    BY <1>2, <1>3, <1>4 DEF PathInv
  <1> QED BY <1>2, <1>5, <1>6, <1>7 DEF StackInv, PathInv, r

\* A task has been executed: what is below it on the stack.
LEMMA PopFrame ==
    ASSUME NEW st, NEW lists, PathInv(st, lists), st # <<>>
    PROVE  LET r == Front(st)
           IN  /\ PathInv(r, lists) /\ Len(r) = Len(st) - 1
               /\ \A i \in 1..Len(r) : r[i] = st[i]
               /\ r # <<>> => CallerInv(r[Len(r)], st[Len(st)].task, lists)
  <1> DEFINE n == Len(st)
             r == Front(st)
  <1>1. n \in Nat /\ n > 0 /\ st \in Seq(FrameTypes)
    BY FramesOfStack DEF PathInv
  <1>2. /\ r \in Seq(FrameTypes) /\ Len(r) = n - 1
        /\ \A i \in 1..(n - 1) : r[i] = st[i]
    <2>1. /\ 1 \in Int /\ n - 1 \in Int /\ \A i \in 1..(n - 1) : st[i] \in FrameTypes
          /\ (n - 1) - 1 + 1 = n - 1 /\ \A i \in 1..(n - 1) : 1 + i - 1 = i
      BY <1>1, FramesOfStack
    <2>2. /\ SubSeq(st, 1, n - 1) \in Seq(FrameTypes)
          /\ Len(SubSeq(st, 1, n - 1)) = IF 1 <= n - 1 THEN (n - 1) - 1 + 1 ELSE 0
          /\ \A i \in 1..((n - 1) - 1 + 1) : SubSeq(st, 1, n - 1)[i] = st[1 + i - 1]
      BY <2>1, SubSeqProperties
    <2>3. Len(SubSeq(st, 1, n - 1)) = n - 1
      <3>1. CASE 1 <= n - 1
        BY <2>1, <2>2, <3>1
      <3>2. CASE ~(1 <= n - 1)
        <4>1. \A m \in Nat : m > 0 /\ ~(1 <= m - 1) => m - 1 = 0
          OBVIOUS
        <4>2. n - 1 = 0
          BY <1>1, <3>2, <4>1
        <4> QED BY <2>2, <3>2, <4>2
      <3> QED BY <3>1, <3>2
    <2> QED BY <2>1, <2>2, <2>3 DEF Front
  <1> HIDE DEF r
  <1>3. \A i \in 1..(n - 1) : i \in 1..n
    BY <1>1
  <1>4. r # <<>> => 1 \in 1..(n - 1) /\ n - 1 \in 1..(n - 1) /\ n \in 1..n
                    /\ n - 1 \in 1..n /\ n = (n - 1) + 1
    BY <1>1, <1>2, FramesOfStack
  <1>5. r # <<>> => r[1].task = UrTask
    BY <1>1, <1>2, <1>4 DEF PathInv
  <1>6. \A i, j \in 1..(n - 1) : j = i + 1 => CallerInv(r[i], r[j].task, lists)
    BY <1>2, <1>3 DEF PathInv
  <1>7. \A i, j \in 1..(n - 1) : r[i].task = r[j].task => i = j
    BY <1>2, <1>3 DEF PathInv
  <1>8. PathInv(r, lists)
    BY <1>2, <1>5, <1>6, <1>7 DEF PathInv
  <1>9. ASSUME r # <<>> PROVE CallerInv(r[n - 1], st[n].task, lists)
    BY <1>2, <1>4, <1>9 DEF PathInv
  <1> QED BY <1>2, <1>8, <1>9 DEF r

\* The lists without a task that leaves them: the lists of its parent shrinks,
\* the others are as before.
Without(lists, t) == [q \in Tasks |-> RemoveFirst(lists[q], t)]

LEMMA WithoutTask ==
    ASSUME NEW lists, TreeInv(lists), NEW t
    PROVE  /\ TreeInv(Without(lists, t))
           /\ \A q \in Tasks :
                /\ Without(lists, t)[q] = RemoveFirst(lists[q], t)
                /\ Members(Without(lists, t), q) = Members(lists, q) \ {t}
                /\ t \notin Members(lists, q) => Without(lists, t)[q] = lists[q]
  <1> DEFINE new == Without(lists, t)
  <1>1. ASSUME NEW q \in Tasks
        PROVE  /\ new[q] = RemoveFirst(lists[q], t)
               /\ IsListOf(new[q], Tasks \ {UrTask})
               /\ Members(new, q) = Members(lists, q) \ {t}
               /\ t \notin Members(lists, q) => new[q] = lists[q]
    <2>1. new[q] = RemoveFirst(lists[q], t)
      BY DEF Without
    <2>2. IsListOf(lists[q], Tasks \ {UrTask})
      BY DEF TreeInv
    <2>3. /\ IsListOf(RemoveFirst(lists[q], t), Tasks \ {UrTask})
          /\ ToSet(RemoveFirst(lists[q], t)) = ToSet(lists[q]) \ {t}
      BY <2>2, RemoveFirstKeepsList
    <2>4. t \notin ToSet(lists[q]) => RemoveFirst(lists[q], t) = lists[q]
      <3>1. ToSet(lists[q]) = {lists[q][i] : i \in 1..Len(lists[q])}
        BY <2>2, ListPlaces
      <3> QED BY <3>1 DEF RemoveFirst
    <2> QED BY <2>1, <2>3, <2>4 DEF Members
  <1>2. new = [q \in Tasks |-> new[q]]
    BY DEF Without
  <1> HIDE DEF new
  <1>3. \A q \in Tasks : new[q] \in Seq(Tasks \ {UrTask})
    BY <1>1 DEF IsListOf
  <1>4. new \in [Tasks -> Seq(Tasks \ {UrTask})]
    BY <1>2, <1>3
  <1>5. \A p, q \in Tasks : Members(new, p) \cap Members(new, q) # {} => p = q
    BY <1>1 DEF TreeInv
  <1>6. TreeInv(new)
    BY <1>1, <1>4, <1>5 DEF TreeInv
  <1> QED BY <1>1, <1>6 DEF new

\* A walk goes on to the child it has remembered.
LEMMA AdvancedFrame ==
    ASSUME NEW lists, NEW f \in FrameTypes, NEW t, CallerInv(f, t, lists)
    PROVE  FrameInv(Advance(f, lists), lists)
  <1> DEFINE g == Advance(f, lists)
  <1>1. g.task = f.task /\ g.cur = f.next /\ g.missed = f.missed \ {f.cur}
    BY FrameFields
  <1> HIDE DEF g
  <1> QED BY <1>1 DEF FrameInv, CallerInv, g

\* What walks have remembered is right even when a task leaves its list, if from
\* the lists that are being walked only the task leaves that is being executed.
LEMMA PathWithout ==
    ASSUME NEW st, NEW lists, TreeInv(lists), PathInv(st, lists), NEW c,
           \A i \in 1..(Len(st) - 1) :
               c \in Members(lists, st[i].task) => c = st[Len(st)].task
    PROVE  PathInv(st, Without(lists, c))
  <1> DEFINE n == Len(st)
             new == Without(lists, c)
  <1>1. /\ n \in Nat /\ st \in Seq(FrameTypes)
        /\ \A i \in 1..n : st[i] \in FrameTypes /\ st[i].task \in Tasks
    BY FramesOfStack, FrameFields DEF PathInv
  <1>2. \A q \in Tasks :
            /\ new[q] = RemoveFirst(lists[q], c)
            /\ Members(new, q) = Members(lists, q) \ {c}
            /\ c \notin Members(lists, q) => new[q] = lists[q]
    BY WithoutTask
  <1> HIDE DEF new
  <1>3. ASSUME NEW i \in 1..n, NEW j \in 1..n, j = i + 1
        PROVE  CallerInv(st[i], st[j].task, new)
    <2> DEFINE f == st[i]
               t == st[j].task
               l == lists[f.task]
    <2>1. CallerInv(f, t, lists) /\ f.task \in Tasks
      BY <1>1, <1>3 DEF PathInv
    <2>2. \A q \in Tasks : t \in Members(new, q) => q = f.task
      BY <1>2, <2>1 DEF CallerInv
    <2>3. c \in Members(lists, f.task) => c = t
      <3> SUFFICES ASSUME c \in Members(lists, f.task) PROVE c = t
        OBVIOUS
      <3>1. i \in 1..(n - 1) /\ n \in 1..n /\ n - 1 \in 1..n /\ n = (n - 1) + 1
        BY <1>1, <1>3
      <3>2. c = st[n].task
        BY <3>1
      <3>3. CallerInv(st[n - 1], st[n].task, lists)
        BY <3>1 DEF PathInv
      <3>4. f.task = st[n - 1].task
        BY <2>1, <3>2, <3>3 DEF CallerInv
      <3>5. i = n - 1
        BY <3>1, <3>4 DEF PathInv
      <3>6. j = n
        BY <1>1, <1>3, <3>5
      <3> QED BY <3>2, <3>6
    <2>4. CASE c \notin Members(lists, f.task)
      <3>1. new[f.task] = lists[f.task] /\ Members(new, f.task) = Members(lists, f.task)
        BY <1>2, <2>1, <2>4
      <3> QED BY <2>1, <2>2, <3>1 DEF CallerInv
    <2>5. CASE c \in Members(lists, f.task)
      <3>1. c = t /\ new[f.task] = RemoveFirst(l, t)
            /\ Members(new, f.task) = Members(lists, f.task) \ {t}
        BY <1>2, <2>1, <2>3, <2>5
      <3>2. f.next # t
        <4>1. NoTask \notin Members(lists, f.task)
          BY <2>1, ListsOfTasks
        <4> QED BY <2>1, <2>5, <3>1, <4>1 DEF CallerInv
      <3>3. IsListOf(l, Tasks \ {UrTask})
        BY <2>1, ListsOfTasks
      <3>4. Rest(l, f.next) \ {t} \subseteq Rest(new[f.task], f.next)
        BY <3>1, <3>2, <3>3, RestWithout
      <3>5. f.missed \subseteq {t} \cup Rest(l, f.next)
        BY <2>1 DEF CallerInv
      <3>6. f.missed \subseteq {t} \cup Rest(new[f.task], f.next)
        BY <3>4, <3>5
      <3> QED BY <2>1, <2>2, <3>1, <3>6 DEF CallerInv
    <2> QED BY <2>4, <2>5
  <1> HIDE DEF n
  <1> QED BY <1>3 DEF PathInv, n, new

\* It is right, too, when a task that is not being executed is linked to the end
\* of a list.
LEMMA PathAppended ==
    ASSUME NEW st, NEW lists, TreeInv(lists), PathInv(st, lists),
           NEW p \in Tasks, NEW c \in Tasks \ {UrTask},
           \A q \in Tasks : c \notin Members(lists, q),
           \A i \in 1..Len(st) : c # st[i].task,
           NEW new, \A q \in Tasks :
               new[q] = IF q = p THEN Append(lists[q], c) ELSE lists[q]
    PROVE  PathInv(st, new)
  <1> DEFINE n == Len(st)
  <1>1. \A i \in 1..n : st[i].task \in Tasks
    BY FramesOfStack, FrameFields DEF PathInv
  <1>2. ASSUME NEW q \in Tasks
        PROVE  /\ Members(lists, q) \subseteq Members(new, q)
               /\ Members(new, q) \subseteq Members(lists, q) \cup {c}
               /\ \A x : Rest(lists[q], x) \subseteq Rest(new[q], x)
    <2>1. CASE q # p
      <3>1. new[q] = lists[q]
        BY <2>1
      <3> QED BY <3>1 DEF Members
    <2>2. CASE q = p
      <3>1. new[q] = Append(lists[q], c)
        BY <2>2
      <3>2. IsListOf(lists[q], Tasks \ {UrTask}) /\ c \notin ToSet(lists[q])
        BY ListsOfTasks DEF Members
      <3>3. ToSet(Append(lists[q], c)) = ToSet(lists[q]) \cup {c}
        BY <3>2, AppendKeepsList
      <3>4. \A x : Rest(lists[q], x) \subseteq Rest(Append(lists[q], c), x)
        BY <3>2, RestAppended
      <3> QED BY <3>1, <3>3, <3>4 DEF Members
    <2> QED BY <2>1, <2>2
  <1>3. ASSUME NEW i \in 1..n, NEW j \in 1..n, j = i + 1
        PROVE  CallerInv(st[i], st[j].task, new)
    <2> DEFINE f == st[i]
               t == st[j].task
    <2>1. CallerInv(f, t, lists) /\ f.task \in Tasks /\ c # t
      BY <1>1, <1>3 DEF PathInv
    <2>2. \A q \in Tasks : t \in Members(new, q) => q = f.task
      BY <1>2, <2>1 DEF CallerInv
    <2>3. /\ Members(lists, f.task) \subseteq Members(new, f.task)
          /\ Rest(lists[f.task], f.next) \subseteq Rest(new[f.task], f.next)
      BY <1>2, <2>1
    <2>4. f.next \in (Members(new, f.task) \ {t}) \cup {NoTask}
      BY <2>1, <2>3 DEF CallerInv
    <2>5. f.missed \subseteq {t} \cup Rest(new[f.task], f.next)
      BY <2>1, <2>3 DEF CallerInv
    <2> QED BY <2>1, <2>2, <2>4, <2>5 DEF CallerInv
  <1> QED BY <1>3 DEF PathInv

\* No frame, no condition.
LEMMA EmptyStack == \A lists : StackInv(<<>>, lists)
  <1>1. <<>> \in Seq(FrameTypes) /\ Len(<<>>) = 0
    BY EmptySeq
  <1> QED BY <1>1 DEF StackInv, PathInv

\* An execute method returns to the walk that has called it.
LEMMA ReturnToCaller ==
    ASSUME NEW st, NEW lists, PathInv(st, lists), st # <<>>
    PROVE  StackInv(AdvanceLast(Front(st), lists), lists)
  <1> DEFINE r == Front(st)
             k == Len(r)
             t == st[Len(st)].task
             g == Advance(r[k], lists)
  <1>1. CASE r = <<>>
    BY <1>1, EmptyStack DEF AdvanceLast
  <1>2. CASE r # <<>>
    <2>1. PathInv(r, lists) /\ CallerInv(r[k], t, lists)
      BY <1>2, PopFrame
    <2>2. AdvanceLast(r, lists) = [r EXCEPT ![k] = g]
      BY <1>2 DEF AdvanceLast
    <2> HIDE DEF r, t
    <2>3. r[k] \in FrameTypes
      BY <1>2, <2>1, FramesOfStack DEF PathInv
    <2>4. FrameInv(g, lists) /\ g \in FrameTypes /\ g.task = r[k].task
      BY <2>1, <2>3, AdvancedFrame, FrameFields
    <2> HIDE DEF g
    <2>5. StackInv([r EXCEPT ![k] = g], lists)
      BY <1>2, <2>1, <2>4, ReplaceTop
    <2> QED BY <2>2, <2>5 DEF r
  <1> QED BY <1>1, <1>2

\* The walk over a list begins.
LEMMA ChildrenFrameOK ==
    ASSUME TreeInv(tasklist), NEW t \in Tasks
    PROVE  /\ Linked(t) = Members(tasklist, t)
           /\ ChildrenFrame(t) \in FrameTypes /\ ChildrenFrame(t).task = t
           /\ ChildrenFrame(t).pc = "children"
           /\ FrameInv(ChildrenFrame(t), tasklist)
  <1>1. /\ IsListOf(tasklist[t], Tasks \ {UrTask})
        /\ FirstChild(tasklist[t]) \in Tasks \cup {NoTask}
        /\ Members(tasklist, t) \subseteq Tasks
    BY ListsOfTasks
  <1>2. Linked(t) = Members(tasklist, t)
    <2>1. ToSet(tasklist[t]) = {tasklist[t][i] : i \in 1..Len(tasklist[t])}
      BY <1>1, ListPlaces
    <2> QED BY <1>1, <2>1 DEF Linked, Members, Contains
  <1>3. /\ FirstChild(tasklist[t]) \in Members(tasklist, t) \cup {NoTask}
        /\ Members(tasklist, t) \subseteq Rest(tasklist[t], FirstChild(tasklist[t]))
    BY <1>1, AllFromFirst DEF Members
  <1>4. ChildrenFrame(t) \in FrameTypes
    BY <1>1, <1>2 DEF ChildrenFrame, FrameTypes
  <1>5. FrameInv(ChildrenFrame(t), tasklist)
    BY <1>2, <1>3 DEF ChildrenFrame, FrameInv
  <1> QED BY <1>2, <1>4, <1>5 DEF ChildrenFrame

---------------------------------------------------------------------------
(* The times of execution.                                                 *)

\* Whole cycles are a time.
LEMMA WholeCycles ==
    ASSUME NEW x \in Nat, NEW c \in Nat, c > 0
    PROVE  (x \div c) * c \in Nat
  <1>1. x \div c \in Int /\ x \div c >= 0
    OBVIOUS
  <1>2. \A k, m \in Nat : k * m \in Nat
    OBVIOUS
  <1> QED BY <1>1, <1>2

\* Whatever the mode and the cycle time, the time of the next execution is a
\* time; there is no division by a cycle time of zero.
LEMMA ProctimesAreTimes ==
    ASSUME LocalsOK, NEW proc \in Nat, NEW cyc \in Nat
    PROVE  /\ now \in Nat /\ ltc \in Nat
           /\ fb_set_proctime(proc, cyc) \in Nat
           /\ \A limit \in Nat : cyc > 0 => AddCyclesUpTo(proc, cyc, limit) \in Nat
           /\ \A mode : NextProctime(mode, proc, cyc) \in Nat
           /\ UrProctime(proc, cyc) \in Nat
  <1>1. now \in Nat /\ ltc \in Nat
    BY BoundsAssumption DEF LocalsOK
  <1>2. fb_set_proctime(proc, cyc) \in Nat
    <2>1. CASE proc >= now
      BY <1>1, <2>1 DEF fb_set_proctime
    <2>2. CASE proc < now /\ cyc > 0
      <3>1. now - proc \in Nat /\ ~(proc >= now) /\ ~(cyc = 0)
        BY <1>1, <2>2
      <3>2. ((now - proc) \div cyc) * cyc \in Nat
        BY <2>2, <3>1, WholeCycles
      <3>3. fb_set_proctime(proc, cyc) = proc + ((now - proc) \div cyc) * cyc
        BY <2>2, <3>1 DEF fb_set_proctime
      <3> HIDE DEF fb_set_proctime
      <3> QED BY <3>2, <3>3
    <2>3. CASE proc < now /\ cyc = 0
      <3>1. ~(proc >= now) /\ ~(cyc > 0)
        BY <1>1, <2>3
      <3>2. fb_set_proctime(proc, cyc) = now
        BY <2>3, <3>1 DEF fb_set_proctime
      <3> QED BY <1>1, <3>2
    <2> QED BY <1>1, <2>1, <2>2, <2>3
  <1>3. ASSUME NEW limit \in Nat, cyc > 0
        PROVE  AddCyclesUpTo(proc, cyc, limit) \in Nat
    <2>1. CASE proc + cyc >= limit
      BY <2>1 DEF AddCyclesUpTo
    <2>2. CASE ~(proc + cyc >= limit)
      <3> DEFINE x == limit - proc + cyc - 1
      <3>1. x \in Nat
        BY <2>2
      <3>2. AddCyclesUpTo(proc, cyc, limit) = proc + (x \div cyc) * cyc
        BY <2>2 DEF AddCyclesUpTo
      <3> HIDE DEF x
      <3>3. (x \div cyc) * cyc \in Nat
        BY <1>3, <3>1, WholeCycles
      <3> QED BY <3>2, <3>3
    <2> QED BY <2>1, <2>2
  <1>4. ASSUME NEW mode PROVE NextProctime(mode, proc, cyc) \in Nat
    <2>1. /\ proc + cyc \in Nat
          /\ cyc > 0 => AddCyclesUpTo(proc, cyc, ltc) \in Nat
      BY <1>1, <1>3
    <2> QED BY <2>1 DEF NextProctime, ON, CATCHUP
  <1>5. UrProctime(proc, cyc) \in Nat
    BY <1>1 DEF UrProctime
  <1> QED BY <1>1, <1>2, <1>3, <1>4, <1>5

---------------------------------------------------------------------------
(* The inductive invariant.                                                *)

\* It gives what the runs check.
LEMMA FbIInvImplies == FbIInv => FbInv /\ NoChildSkipped
  <1> SUFFICES ASSUME FbIInv PROVE FbInv /\ NoChildSkipped
    OBVIOUS
  <1>1. TypeOK
    BY DEF FbIInv, LocalsOK, QueueInv, WellFormed, Scheduled, TreeInv, StackInv, PathInv,
          TypeOK
  <1>2. UrTaskScheduled
    BY DEF FbIInv, QueueInv, WellFormed, Scheduled, UrTaskScheduled
  <1>3. NoChildSkipped
    <2> SUFFICES ASSUME InChildren, Child = NoTask
                 PROVE  stack[Top].missed \cap Linked(stack[Top].task) = {}
      BY DEF NoChildSkipped
    <2> DEFINE f == stack[Top]
    <2>1. StackInv(stack, tasklist) /\ TreeInv(tasklist)
      BY DEF FbIInv
    <2>2. Top \in 1..Len(stack) /\ f \in FrameTypes
      BY <2>1, FramesOfStack DEF StackInv, PathInv, InChildren, Top
    <2>3. f.task \in Tasks /\ f.pc = "children" /\ f.cur = NoTask
      BY <2>2, FrameFields DEF InChildren, Child
    <2>4. f.missed \subseteq Rest(tasklist[f.task], NoTask)
      BY <2>1, <2>2, <2>3 DEF StackInv, FrameInv, InChildren, Top
    <2>5. Rest(tasklist[f.task], NoTask) = {}
      BY <2>1, <2>3, ListsOfTasks, NoRestAtEnd DEF Members
    <2>6. Linked(f.task) = Members(tasklist, f.task)
      BY <2>1, <2>3, ChildrenFrameOK
    <2> QED BY <2>4, <2>5, <2>6
  <1> QED BY <1>1, <1>2, <1>3 DEF FbInv, FbIInv

\* The program starts in it: the clients that have built the tree have linked
\* every task once.
LEMMA FbInit == Init => FbIInv
  <1> SUFFICES ASSUME Init PROVE FbIInv
    OBVIOUS
  <1>1. LocalsOK
    <2>1. now \in 0..MaxTime /\ ltc \in 0..MaxTime
      BY BoundsAssumption DEF Init
    <2>2. actimode \in [Tasks -> Modes] /\ cyctime \in [Tasks -> Nat]
      BY BoundsAssumption DEF Init, Modes
    <2> QED BY <2>1, <2>2 DEF Init, LocalsOK
  <1>2. QueueInv
    <2>1. queue = <<>> /\ phase = "startup"
      BY DEF Init
    <2>2. <<>> \in Seq(Events(Scheduled)) /\ Len(<<>>) = 0
      BY EmptySeq
    <2> QED BY <2>1, <2>2 DEF QueueInv, WellFormed, Sorted, OnePerObject
  <1>3. FailedIsOff
    BY DEF Init, FailedIsOff
  <1>4. TreeInv(tasklist)
    <2>1. tasklist = InitialLists
      BY DEF Init
    <2> QED BY <2>1, TasksAssumption DEF TreeInv, IsListOf, Members
  <1>5. StackInv(stack, tasklist) /\ ServingInv
    BY EmptyStack DEF Init, ServingInv
  <1> QED BY <1>1, <1>2, <1>3, <1>4, <1>5 DEF FbIInv

\* The task that is being executed.
LEMMA TopFrame ==
    ASSUME StackInv(stack, tasklist), stack # <<>>
    PROVE  /\ Top \in 1..Len(stack) /\ Top = Len(stack)
           /\ stack[Top] \in FrameTypes /\ stack[Top].task \in Tasks
           /\ FrameInv(stack[Top], tasklist)
  BY FramesOfStack, FrameFields DEF StackInv, PathInv, Top

---------------------------------------------------------------------------
(* The steps of clients and typemethods.                                   *)

LEMMA SetActimodeKeeps ==
    ASSUME FbIInv, NEW t \in Tasks, NEW mode \in ClientModes[t], SetActimode(t, mode)
    PROVE  FbIInv'
  <1>1. /\ LocalsOK /\ FailedIsOff /\ UNCHANGED <<phase, now, queue, serving, ltc>>
        /\ UNCHANGED <<stack, tasklist, cyctime, eexreq>>
    BY DEF FbIInv, SetActimode
  <1>2. mode \in Modes
    BY BoundsAssumption
  <1>3. LocalsOK'
    <2>1. proctime[t] \in Nat /\ cyctime[t] \in Nat
      BY <1>1 DEF LocalsOK
    <2>2. fb_set_proctime(proctime[t], cyctime[t]) \in Nat
      BY <1>1, <2>1, ProctimesAreTimes
    <2>3. proctime' \in [Tasks -> Nat]
      BY <1>1, <2>1, <2>2 DEF LocalsOK, SetActimode
    <2>4. actimode' \in [Tasks -> Modes]
      BY <1>1, <1>2 DEF LocalsOK, SetActimode
    <2>5. ErrState' \in [Tasks -> {0, 1}]
      BY <1>1 DEF LocalsOK, SetActimode
    <2> QED BY <1>1, <2>3, <2>4, <2>5 DEF LocalsOK
  <1>4. FailedIsOff'
    <2>1. /\ actimode' = [actimode EXCEPT ![t] = mode]
          /\ ErrState' = [ErrState EXCEPT ![t] = IF mode = OFF THEN @ ELSE 0]
          /\ actimode \in [Tasks -> Modes] /\ ErrState \in [Tasks -> {0, 1}]
      BY <1>1 DEF SetActimode, LocalsOK
    <2> QED BY <1>1, <2>1 DEF FailedIsOff
  <1> QED BY <1>1, <1>3, <1>4 DEF FbIInv, QueueInv, TreeInv, StackInv, PathInv, ServingInv

LEMMA SetCyctimeKeeps ==
    ASSUME FbIInv, NEW t \in Tasks, NEW cyc \in CycTimes, SetCyctime(t, cyc)
    PROVE  FbIInv'
  <1>1. LocalsOK'
    BY BoundsAssumption DEF FbIInv, LocalsOK, SetCyctime
  <1> QED BY <1>1 DEF FbIInv, SetCyctime, QueueInv, FailedIsOff, TreeInv, StackInv,
                      PathInv, ServingInv

LEMMA SetInputKeeps ==
    ASSUME FbIInv, NEW b \in Blocks, SetInput(b)
    PROVE  FbIInv'
  <1>1. LocalsOK'
    BY DEF FbIInv, LocalsOK, SetInput
  <1> QED BY <1>1 DEF FbIInv, SetInput, QueueInv, FailedIsOff, TreeInv, StackInv,
                      PathInv, ServingInv

\* The event of the urtask is moved as a whole: taken out, and registered again.
LEMMA SetProctimeKeeps ==
    ASSUME FbIInv, NEW t \in Tasks, NEW time \in ProcTimes[t], SetProctime(t, time)
    PROVE  FbIInv'
  <1>1. /\ LocalsOK /\ QueueInv /\ phase = "up"
        /\ UNCHANGED <<phase, now, serving, ltc, stack, tasklist>>
        /\ UNCHANGED <<actimode, cyctime, ErrState, eexreq>>
    BY DEF FbIInv, SetProctime, ClientRuns
  <1>2. time \in Nat /\ cyctime[t] \in Nat
    BY <1>1, BoundsAssumption DEF LocalsOK
  <1>3. fb_set_proctime(time, cyctime[t]) \in Nat /\ now \in Nat
    BY <1>1, <1>2, ProctimesAreTimes
  <1>4. proctime' \in [Tasks -> Nat]
    BY <1>1, <1>2, <1>3 DEF LocalsOK, SetProctime
  <1>5. LocalsOK'
    BY <1>1, <1>4 DEF LocalsOK
  <1>6. QueueInv'
    <2>1. CASE t # UrTask
      <3>1. queue' = queue
        BY <2>1 DEF SetProctime
      <3> QED BY <1>1, <3>1 DEF QueueInv
    <2>2. CASE t = UrTask
      <3> DEFINE q1 == unregister(queue, UrTask)
                 q2 == register(q1, UrTask, now)
                 p == proctime'[t]
      <3>1. queue' = setabseventtime(q2, UrTask, p) /\ p \in Nat
        BY <1>4, <2>2 DEF SetProctime, MovedQueue
      <3>2. WellFormed(q1, Scheduled) /\ ObjectsOf(q1) = ObjectsOf(queue) \ {UrTask}
        BY <1>1, UnregisterKeeps DEF QueueInv
      <3> HIDE DEF q1
      <3>3. UrTask \in Scheduled
        BY DEF Scheduled
      <3>4. WellFormed(q2, Scheduled) /\ ObjectsOf(q2) = ObjectsOf(q1) \cup {UrTask}
        BY <1>3, <3>2, <3>3, RegisterKeeps
      <3> HIDE DEF q2, p
      <3>5. WellFormed(queue', Scheduled) /\ ObjectsOf(queue') = ObjectsOf(q2)
        BY <3>1, <3>3, <3>4, SetAbsEventTimeKeeps
      <3>6. ObjectsOf(queue') = Scheduled
        BY <1>1, <3>2, <3>3, <3>4, <3>5 DEF QueueInv
      <3> QED BY <1>1, <3>5, <3>6 DEF QueueInv
    <2> QED BY <2>1, <2>2
  <1> QED BY <1>1, <1>5, <1>6 DEF FbIInv, FailedIsOff, TreeInv, StackInv, PathInv, ServingInv

\* While clients or methods change the lists, no walk stands on a task but those
\* that are executing one.
LEMMA ListsChange ==
    ASSUME FbIInv, ClientRuns
    PROVE  /\ phase = "up" /\ PathInv(stack, tasklist)
           /\ \A lists : PathInv(stack, lists) => StackInv(stack, lists)
  <1>1. stack = <<>> \/ stack[Len(stack)].pc = "method"
    BY DEF FbIInv, ServingInv, ClientRuns, InMethod, Top
  <1> QED BY <1>1 DEF FbIInv, ClientRuns, StackInv, FrameInv

LEMMA LinkTaskKeeps ==
    ASSUME FbIInv, NEW t \in Tasks, NEW c \in Tasks, LinkTask(t, c)
    PROVE  FbIInv'
  <1>1. /\ LocalsOK /\ QueueInv /\ FailedIsOff /\ TreeInv(tasklist) /\ ServingInv
        /\ UNCHANGED <<phase, now, queue, serving, ltc, stack>>
        /\ UNCHANGED <<actimode, proctime, cyctime, ErrState, eexreq>>
        /\ c \in Tasks \ {UrTask} /\ Parents(c) = {} /\ c \notin Executed /\ ClientRuns
        /\ tasklist' = [tasklist EXCEPT ![t] = Append(tasklist[t], c)]
    BY DEF FbIInv, LinkTask
  <1>2. ASSUME NEW q \in Tasks PROVE c \notin Members(tasklist, q)
    <2>1. ~Contains(tasklist[q], c)
      BY <1>1 DEF Parents
    <2>2. ToSet(tasklist[q]) = {tasklist[q][i] : i \in 1..Len(tasklist[q])}
      BY <1>1, ListsOfTasks, ListPlaces
    <2> QED BY <2>1, <2>2 DEF Contains, Members
  <1>3. /\ IsListOf(Append(tasklist[t], c), Tasks \ {UrTask})
        /\ ToSet(Append(tasklist[t], c)) = Members(tasklist, t) \cup {c}
    <2>1. IsListOf(tasklist[t], Tasks \ {UrTask}) /\ c \notin ToSet(tasklist[t])
      BY <1>1, <1>2, ListsOfTasks DEF Members
    <2> QED BY <1>1, <2>1, AppendKeepsList DEF Members
  <1>4. /\ tasklist'[t] = Append(tasklist[t], c)
        /\ \A q \in Tasks : q # t => tasklist'[q] = tasklist[q]
        /\ \A q \in Tasks : IsListOf(tasklist[q], Tasks \ {UrTask})
    BY <1>1 DEF TreeInv
  <1>5. tasklist' \in [Tasks -> Seq(Tasks \ {UrTask})]
    BY <1>1, <1>3 DEF TreeInv, IsListOf
  <1>6. \A q \in Tasks : IsListOf(tasklist'[q], Tasks \ {UrTask})
    BY <1>3, <1>4
  <1>7. \A q \in Tasks : Members(tasklist', q)
                            = IF q = t THEN Members(tasklist, q) \cup {c}
                              ELSE Members(tasklist, q)
    BY <1>3, <1>4 DEF Members
  <1>8. \A p, q \in Tasks : Members(tasklist', p) \cap Members(tasklist', q) # {} => p = q
    <2>1. \A p, q \in Tasks : Members(tasklist, p) \cap Members(tasklist, q) # {} => p = q
      BY <1>1 DEF TreeInv
    <2> QED BY <1>2, <1>7, <2>1
  <1>9. TreeInv(tasklist')
    BY <1>5, <1>6, <1>8 DEF TreeInv
  <1>10. StackInv(stack', tasklist') /\ ServingInv'
    <2>1. \A i \in 1..Len(stack) : c # stack[i].task
      BY <1>1 DEF Executed, Top
    <2>2. \A q \in Tasks : tasklist'[q] = IF q = t THEN Append(tasklist[q], c)
                                         ELSE tasklist[q]
      BY <1>4
    <2>0. TreeInv(tasklist) /\ PathInv(stack, tasklist) /\ c \in Tasks \ {UrTask}
      BY <1>1, ListsChange
    <2>3. PathInv(stack, tasklist')
      BY <1>2, <2>0, <2>1, <2>2, PathAppended
    <2>4. StackInv(stack, tasklist')
      BY <1>1, <2>3, ListsChange
    <2> QED BY <1>1, <2>4 DEF ServingInv
  <1>11. LocalsOK' /\ QueueInv' /\ FailedIsOff'
    BY <1>1 DEF LocalsOK, QueueInv, FailedIsOff
  <1> QED BY <1>9, <1>10, <1>11 DEF FbIInv

LEMMA UnlinkTaskKeeps ==
    ASSUME FbIInv, NEW t \in Tasks, NEW c \in Tasks, UnlinkTask(t, c)
    PROVE  FbIInv'
  <1>1. /\ LocalsOK /\ QueueInv /\ FailedIsOff /\ TreeInv(tasklist) /\ ServingInv
        /\ UNCHANGED <<phase, now, queue, serving, ltc, stack>>
        /\ UNCHANGED <<actimode, proctime, cyctime, ErrState, eexreq>>
        /\ c \in Linked(t) /\ (t \in Walked => c = stack[Top].task) /\ ClientRuns
        /\ tasklist' = [tasklist EXCEPT ![t] = RemoveFirst(tasklist[t], c)]
    BY DEF FbIInv, UnlinkTask
  <1>2. c \in Members(tasklist, t)
    BY <1>1, ChildrenFrameOK
  <1>3. tasklist' = Without(tasklist, c)
    <2>1. ASSUME NEW q \in Tasks PROVE tasklist'[q] = Without(tasklist, c)[q]
      <3>1. /\ Without(tasklist, c)[q] = RemoveFirst(tasklist[q], c)
            /\ c \notin Members(tasklist, q) => Without(tasklist, c)[q] = tasklist[q]
        BY <1>1, WithoutTask
      <3>2. tasklist'[q] = IF q = t THEN RemoveFirst(tasklist[q], c) ELSE tasklist[q]
        BY <1>1 DEF TreeInv
      <3>3. q # t => c \notin Members(tasklist, q)
        BY <1>1, <1>2 DEF TreeInv
      <3> QED BY <3>1, <3>2, <3>3
    <2>2. tasklist' = [q \in Tasks |-> tasklist'[q]]
      BY <1>1 DEF TreeInv
    <2>3. Without(tasklist, c) = [q \in Tasks |-> Without(tasklist, c)[q]]
      BY DEF Without
    <2> QED BY <2>1, <2>2, <2>3
  <1>4. TreeInv(tasklist')
    <2>1. TreeInv(Without(tasklist, c))
      BY <1>1, WithoutTask
    <2> QED BY <1>3, <2>1
  <1>5. StackInv(stack', tasklist') /\ ServingInv'
    <2>1. ASSUME NEW i \in 1..(Len(stack) - 1), c \in Members(tasklist, stack[i].task)
          PROVE  c = stack[Len(stack)].task
      <3>1. Len(stack) \in Nat /\ \A j \in 1..Len(stack) : stack[j] \in FrameTypes
        BY ListsChange, <1>1, FramesOfStack DEF PathInv
      <3>2. i \in 1..Len(stack)
        BY <3>1
      <3>3. stack[i].task \in Tasks
        BY <3>1, <3>2, FrameFields
      <3>4. stack[i].task = t
        BY <1>1, <1>2, <2>1, <3>3 DEF TreeInv
      <3>5. t \in Walked
        BY <3>4 DEF Walked, Top
      <3> QED BY <1>1, <3>5 DEF Top
    <2>0. TreeInv(tasklist) /\ PathInv(stack, tasklist)
      BY <1>1, ListsChange
    <2>2. PathInv(stack, Without(tasklist, c))
      BY <2>0, <2>1, PathWithout
    <2>3. StackInv(stack, tasklist')
      BY <1>1, <1>3, <2>2, ListsChange
    <2> QED BY <1>1, <2>3 DEF ServingInv
  <1>6. LocalsOK' /\ QueueInv' /\ FailedIsOff'
    BY <1>1 DEF LocalsOK, QueueInv, FailedIsOff
  <1> QED BY <1>4, <1>5, <1>6 DEF FbIInv

---------------------------------------------------------------------------
(* The steps of the walk.                                                  *)

\* Looking for the child behind the present one changes no condition.
LEMMA RememberingKeeps ==
    ASSUME TreeInv(tasklist), StackInv(stack, tasklist), InChildren, Child # NoTask
    PROVE  /\ PathInv(Remembering, tasklist) /\ Remembering # <<>>
           /\ Len(Remembering) = Len(stack)
           /\ CallerInv(Remembering[Len(stack)], Child, tasklist)
           /\ Child \in Members(tasklist, Remembering[Len(stack)].task)
           /\ Child \in Tasks
  <1> DEFINE f == stack[Top]
             n == NextChild(tasklist[f.task], Child)
             g == [f EXCEPT !.next = n]
  <1>1. /\ stack # <<>> /\ Top = Len(stack) /\ Top \in 1..Len(stack)
        /\ f \in FrameTypes /\ f.task \in Tasks /\ FrameInv(f, tasklist)
        /\ f.pc = "children" /\ f.cur = Child /\ stack \in Seq(FrameTypes)
        /\ PathInv(stack, tasklist)
    BY TopFrame DEF InChildren, Child, StackInv, PathInv
  <1>2. n \in Tasks \cup {NoTask}
    BY <1>1, ListsOfTasks
  <1>3. /\ g \in FrameTypes /\ g.task = f.task /\ g.pc = f.pc
        /\ g.cur = f.cur /\ g.next = n /\ g.missed = f.missed
    BY <1>1, <1>2, FrameFields
  <1>4. Remembering = [stack EXCEPT ![Len(stack)] = g]
    BY <1>1 DEF Remembering
  <1>5. Child \in Members(tasklist, f.task)
    BY <1>1 DEF FrameInv
  <1>6. FrameInv(g, tasklist)
    BY <1>1, <1>3 DEF FrameInv
  <1>7. CallerInv(g, Child, tasklist)
    <2>1. IsListOf(tasklist[f.task], Tasks \ {UrTask})
      BY <1>1, ListsOfTasks
    <2>2. /\ n \in (Members(tasklist, f.task) \ {Child}) \cup {NoTask}
          /\ Rest(tasklist[f.task], Child) \subseteq {Child} \cup Rest(tasklist[f.task], n)
      BY <1>5, <2>1, RestAdvances DEF Members
    <2>3. \A q \in Tasks : Child \in Members(tasklist, q) => q = f.task
      BY <1>1, <1>5 DEF TreeInv
    <2>4. f.missed \subseteq Rest(tasklist[f.task], Child)
      BY <1>1 DEF FrameInv
    <2> HIDE DEF f, n, g
    <2>5. g.missed \subseteq {Child} \cup Rest(tasklist[g.task], g.next)
      BY <1>3, <2>2, <2>4
    <2> QED BY <1>1, <1>3, <2>2, <2>3, <2>5 DEF CallerInv
  <1> HIDE DEF g
  <1>8. StackInv(Remembering, tasklist)
    BY <1>1, <1>3, <1>4, <1>6, ReplaceTop
  <1>9. Len(Remembering) = Len(stack) /\ Remembering[Len(stack)] = g
    BY <1>1, <1>3, <1>4, ExceptSeq
  <1>10. Remembering # <<>>
    BY <1>1, <1>8, <1>9, FramesOfStack DEF StackInv, PathInv
  <1>11. Child \in Tasks
    BY <1>1, <1>5, ListsOfTasks
  <1> QED BY <1>3, <1>5, <1>7, <1>8, <1>9, <1>10, <1>11 DEF StackInv

LEMMA SkipChildKeeps ==
    ASSUME FbIInv, SkipChild
    PROVE  FbIInv'
  <1>1. /\ TreeInv(tasklist) /\ StackInv(stack, tasklist) /\ ServingInv
        /\ InChildren /\ Child # NoTask /\ stack # <<>>
        /\ UNCHANGED <<phase, now, queue, serving, ltc, tasklist, actimode>>
        /\ UNCHANGED <<proctime, cyctime, ErrState, eexreq>>
        /\ stack' = AdvanceLast(Remembering, tasklist)
    BY DEF FbIInv, SkipChild, InChildren
  <1> DEFINE r == Remembering
             k == Len(stack)
             g == Advance(r[k], tasklist)
  <1>2. /\ PathInv(r, tasklist) /\ r # <<>> /\ Len(r) = k
        /\ CallerInv(r[k], Child, tasklist)
    BY <1>1, RememberingKeeps
  <1> HIDE DEF r
  <1>3. stack' = [r EXCEPT ![Len(r)] = g]
    BY <1>1, <1>2 DEF AdvanceLast, r
  <1>4. r[k] \in FrameTypes
    BY <1>2, FramesOfStack DEF PathInv
  <1>5. g \in FrameTypes /\ g.task = r[Len(r)].task
    BY <1>2, <1>4, FrameFields
  <1>6. FrameInv(g, tasklist)
    BY <1>2, <1>4, AdvancedFrame
  <1> HIDE DEF g
  <1>7. StackInv(stack', tasklist)
    BY <1>2, <1>3, <1>5, <1>6, ReplaceTop
  <1>8. ServingInv'
    BY <1>1 DEF ServingInv
  <1> QED BY <1>1, <1>7, <1>8 DEF FbIInv, LocalsOK, QueueInv, FailedIsOff, TreeInv

LEMMA MethodFrameOK ==
    ASSUME NEW b \in Tasks, NEW lists
    PROVE  /\ MethodFrame(b) \in FrameTypes /\ MethodFrame(b).task = b
           /\ FrameInv(MethodFrame(b), lists)
  BY DEF MethodFrame, FrameTypes, FrameInv

LEMMA ExecuteChildKeeps ==
    ASSUME FbIInv, ExecuteChild
    PROVE  FbIInv'
  <1>1. /\ TreeInv(tasklist) /\ StackInv(stack, tasklist) /\ ServingInv /\ LocalsOK
        /\ InChildren /\ Child # NoTask /\ stack # <<>>
        /\ UNCHANGED <<phase, now, queue, serving, ltc, tasklist, actimode>>
        /\ UNCHANGED <<proctime, cyctime, ErrState>>
    BY DEF FbIInv, ExecuteChild, InChildren
  <1>2. /\ PathInv(Remembering, tasklist) /\ Remembering # <<>>
        /\ Len(Remembering) = Len(stack) /\ Child \in Tasks
        /\ Child \in Members(tasklist, Remembering[Len(stack)].task)
        /\ CallerInv(Remembering[Len(stack)], Child, tasklist)
    BY <1>1, RememberingKeeps
  <1>3. PICK f \in {MethodFrame(Child), ChildrenFrame(Child)} :
            stack' = Append(Remembering, f)
    BY DEF ExecuteChild
  <1>4. f \in FrameTypes /\ f.task = Child /\ FrameInv(f, tasklist)
    BY <1>1, <1>2, MethodFrameOK, ChildrenFrameOK
  <1>5. StackInv(stack', tasklist)
    BY <1>1, <1>2, <1>3, <1>4, PushFrame
  <1>6. eexreq' \in [Blocks -> BOOLEAN]
    BY <1>1 DEF LocalsOK, ExecuteChild
  <1>7. LocalsOK'
    BY <1>1, <1>6 DEF LocalsOK
  <1>8. ServingInv'
    BY <1>1 DEF ServingInv
  <1> QED BY <1>1, <1>5, <1>7, <1>8 DEF FbIInv, QueueInv, FailedIsOff, TreeInv

LEMMA MethodReturnsKeeps ==
    ASSUME FbIInv, MethodReturns
    PROVE  FbIInv'
  <1>1. /\ TreeInv(tasklist) /\ StackInv(stack, tasklist) /\ ServingInv /\ stack # <<>>
        /\ UNCHANGED <<phase, now, queue, serving, ltc, tasklist, actimode>>
        /\ UNCHANGED <<proctime, cyctime, ErrState, eexreq>>
    BY DEF FbIInv, MethodReturns, InMethod
  <1> DEFINE f == ChildrenFrame(stack[Top].task)
  <1>2. stack[Top].task \in Tasks /\ Top = Len(stack)
    BY <1>1, TopFrame
  <1>3. stack' = [stack EXCEPT ![Len(stack)] = f]
    BY <1>2 DEF MethodReturns
  <1>4. f \in FrameTypes /\ f.task = stack[Len(stack)].task /\ FrameInv(f, tasklist)
    BY <1>1, <1>2, ChildrenFrameOK
  <1> HIDE DEF f
  <1>5. StackInv(stack', tasklist)
    BY <1>1, <1>3, <1>4, ReplaceTop DEF StackInv
  <1>6. ServingInv'
    BY <1>1 DEF ServingInv
  <1> QED BY <1>1, <1>5, <1>6 DEF FbIInv, LocalsOK, QueueInv, FailedIsOff, TreeInv

\* A failed block is off, and its parent goes on.
LEMMA MethodFailsKeeps ==
    ASSUME FbIInv, MethodFails
    PROVE  FbIInv'
  <1> DEFINE t == stack[Top].task
  <1>1. /\ TreeInv(tasklist) /\ StackInv(stack, tasklist) /\ ServingInv /\ stack # <<>>
        /\ LocalsOK /\ FailedIsOff
        /\ UNCHANGED <<phase, now, queue, serving, ltc, tasklist>>
        /\ UNCHANGED <<proctime, cyctime, eexreq>>
        /\ actimode' = [actimode EXCEPT ![t] = OFF]
        /\ ErrState' = [ErrState EXCEPT ![t] = 1]
        /\ stack' = AdvanceLast(Front(stack), tasklist)
    BY DEF FbIInv, MethodFails, InMethod
  <1>2. t \in Tasks
    BY <1>1, TopFrame
  <1> HIDE DEF t
  <1>3. actimode' \in [Tasks -> Modes] /\ ErrState' \in [Tasks -> {0, 1}]
    BY <1>1, <1>2 DEF LocalsOK, Modes
  <1>4. LocalsOK'
    BY <1>1, <1>3 DEF LocalsOK
  <1>5. FailedIsOff'
    BY <1>1, <1>2 DEF FailedIsOff, LocalsOK
  <1>6. StackInv(stack', tasklist)
    BY <1>1, ReturnToCaller DEF StackInv
  <1>7. ServingInv'
    BY <1>1 DEF ServingInv
  <1> QED BY <1>1, <1>4, <1>5, <1>6, <1>7 DEF FbIInv, QueueInv, TreeInv

\* A task leaves; in the mode UNLINK it also leaves the list that is being
\* walked over.
LEMMA LeaveKeeps ==
    ASSUME FbIInv, Leave
    PROVE  FbIInv'
  <1> DEFINE t == stack[Top].task
             next == NextProctime(actimode[t], proctime[t], cyctime[t])
             p == IF t = UrTask THEN UrProctime(next, cyctime[t]) ELSE next
  <1>1. /\ TreeInv(tasklist) /\ StackInv(stack, tasklist) /\ ServingInv /\ stack # <<>>
        /\ LocalsOK /\ FailedIsOff /\ QueueInv /\ phase = "up"
        /\ UNCHANGED <<phase, now, serving, ltc, cyctime, ErrState, eexreq>>
        /\ actimode' = [actimode EXCEPT ![t] = NextMode(actimode[t])]
        /\ proctime' = [proctime EXCEPT ![t] = p]
        /\ tasklist' = IF actimode[t] = UNLINK THEN Without(tasklist, t) ELSE tasklist
        /\ queue' = IF t = UrTask THEN setabseventtime(queue, UrTask, proctime'[t])
                    ELSE queue
        /\ stack' = AdvanceLast(Front(stack), tasklist')
    BY DEF FbIInv, Leave, InChildren, ServingInv, Without
  <1>2. t \in Tasks /\ Top = Len(stack)
    BY <1>1, TopFrame
  <1>3. p \in Nat
    <2>1. proctime[t] \in Nat /\ cyctime[t] \in Nat
      BY <1>1, <1>2 DEF LocalsOK
    <2>2. next \in Nat
      BY <1>1, <2>1, ProctimesAreTimes
    <2> HIDE DEF next
    <2>3. UrProctime(next, cyctime[t]) \in Nat
      BY <1>1, <2>1, <2>2, ProctimesAreTimes
    <2> QED BY <2>2, <2>3
  <1>4. tasklist' = tasklist \/ tasklist' = Without(tasklist, stack[Len(stack)].task)
    BY <1>1, <1>2
  <1>5. StackInv(stack', tasklist')
    <2>1. PathInv(stack, Without(tasklist, stack[Len(stack)].task))
      BY <1>1, PathWithout DEF StackInv
    <2>2. PathInv(stack, tasklist')
      BY <1>1, <1>4, <2>1 DEF StackInv
    <2> QED BY <1>1, <2>2, ReturnToCaller
  <1>6. TreeInv(tasklist')
    <2>1. TreeInv(Without(tasklist, stack[Len(stack)].task))
      BY <1>1, WithoutTask
    <2> QED BY <1>1, <1>4, <2>1
  <1> HIDE DEF t, p
  <1>7. proctime' \in [Tasks -> Nat] /\ proctime'[t] \in Nat
    BY <1>1, <1>2, <1>3 DEF LocalsOK
  <1>8. actimode' \in [Tasks -> Modes]
    <2>1. NextMode(actimode[t]) \in Modes
      BY DEF NextMode, Modes
    <2> QED BY <1>1, <1>2, <2>1 DEF LocalsOK
  <1>9. LocalsOK'
    BY <1>1, <1>7, <1>8 DEF LocalsOK
  <1>10. FailedIsOff'
    <2>1. NextMode(OFF) = OFF
      BY DEF NextMode, OFF, ON, UNLINK, CATCHUP
    <2> QED BY <1>1, <1>2, <2>1 DEF FailedIsOff, LocalsOK
  <1>11. QueueInv'
    <2>1. UrTask \in Scheduled
      BY DEF Scheduled
    <2>2. /\ WellFormed(setabseventtime(queue, UrTask, proctime'[t]), Scheduled)
          /\ ObjectsOf(setabseventtime(queue, UrTask, proctime'[t])) = ObjectsOf(queue)
      BY <1>1, <1>7, <2>1, SetAbsEventTimeKeeps DEF QueueInv
    <2> QED BY <1>1, <2>2 DEF QueueInv
  <1>12. ServingInv'
    BY <1>1 DEF ServingInv
  <1> QED BY <1>5, <1>6, <1>9, <1>10, <1>11, <1>12 DEF FbIInv

---------------------------------------------------------------------------
(* The scheduler, startup and shutdown.                                    *)

\* The walk begins, or the urtask is given its next time.
LEMMA RunUrTaskKeeps ==
    ASSUME FbIInv, RunUrTask
    PROVE  FbIInv'
  <1> DEFINE h == requeuehead(queue, now)
             cyc == cyctime[UrTask]
             proc == IF actimode[UrTask] = OFF /\ cyc > 0
                     THEN AddCyclesUpTo(proctime[UrTask], cyc, now + 1)
                     ELSE IF cyc = 0 THEN now + 1 ELSE proctime[UrTask]
  <1>1. /\ TreeInv(tasklist) /\ StackInv(stack, tasklist) /\ LocalsOK /\ FailedIsOff
        /\ QueueInv /\ phase = "up" /\ stack = <<>> /\ ~serving /\ queue # <<>>
        /\ UNCHANGED <<phase, now, serving, tasklist, actimode>>
        /\ UNCHANGED <<cyctime, ErrState, eexreq>>
        /\ ltc' = now
    BY DEF FbIInv, RunUrTask, HeadDue
  <1>2. UrTask \in Tasks /\ UrTask \in Scheduled
    BY TasksAssumption DEF Scheduled
  <1>3. proctime[UrTask] \in Nat /\ cyctime[UrTask] \in Nat
    BY <1>1, <1>2 DEF LocalsOK
  <1>4. now \in Nat
    BY <1>1, <1>3, ProctimesAreTimes
  <1>5. WellFormed(h, Scheduled) /\ ObjectsOf(h) = ObjectsOf(queue)
    BY <1>1, <1>4, RequeueHeadKeeps DEF QueueInv
  <1>6. proc \in Nat
    <2>1. now + 1 \in Nat
      BY <1>4
    <2>2. cyc > 0 => AddCyclesUpTo(proctime[UrTask], cyc, now + 1) \in Nat
      BY <1>1, <1>3, <2>1, ProctimesAreTimes
    <2> QED BY <1>3, <2>1, <2>2
  <1>7. \/ /\ stack' = <<ChildrenFrame(UrTask)>>
           /\ queue' = h /\ proctime' = proctime
        \/ /\ stack' = stack
           /\ proctime' = [proctime EXCEPT ![UrTask] = proc]
           /\ queue' = setabseventtime(h, UrTask, proc)
    BY DEF RunUrTask
  <1> HIDE DEF h, proc, cyc
  <1>8. proctime' \in [Tasks -> Nat]
    BY <1>1, <1>2, <1>6, <1>7 DEF LocalsOK
  <1>9. LocalsOK'
    BY <1>1, <1>8 DEF LocalsOK
  <1>10. QueueInv'
    <2>1. /\ WellFormed(setabseventtime(h, UrTask, proc), Scheduled)
          /\ ObjectsOf(setabseventtime(h, UrTask, proc)) = ObjectsOf(h)
      BY <1>2, <1>5, <1>6, SetAbsEventTimeKeeps
    <2> QED BY <1>1, <1>5, <1>7, <2>1 DEF QueueInv
  <1>11. StackInv(stack', tasklist)
    <2>1. CASE stack' = stack
      BY <1>1, <2>1
    <2>2. CASE stack' = <<ChildrenFrame(UrTask)>>
      <3> DEFINE f == ChildrenFrame(UrTask)
      <3>1. f \in FrameTypes /\ f.task = UrTask /\ FrameInv(f, tasklist)
        BY <1>1, <1>2, ChildrenFrameOK
      <3> HIDE DEF f
      <3>2. /\ <<f>> \in Seq(FrameTypes) /\ Len(<<f>>) = 1 /\ <<f>>[1] = f
            /\ \A i \in 1..1 : i = 1
        BY <3>1
      <3>3. StackInv(<<f>>, tasklist)
        BY <3>1, <3>2 DEF StackInv, PathInv
      <3> QED BY <2>2, <3>3 DEF f
    <2> QED BY <1>7, <2>1, <2>2
  <1>12. ServingInv'
    BY <1>1 DEF ServingInv
  <1> QED BY <1>1, <1>9, <1>10, <1>11, <1>12 DEF FbIInv, FailedIsOff, TreeInv

\* The communication task is called, and comes back a second later.
LEMMA ServeKeeps ==
    ASSUME FbIInv, ServeClients \/ ServeReturns
    PROVE  FbIInv'
  <1>1. /\ LocalsOK /\ QueueInv /\ ServingInv /\ phase = "up" /\ stack = <<>>
        /\ UNCHANGED <<phase, now, ltc, stack, tasklist, actimode>>
        /\ UNCHANGED <<proctime, cyctime, ErrState, eexreq>>
        /\ serving' \in BOOLEAN
    BY DEF FbIInv, ServeClients, ServeReturns, ServingInv
  <1>2. now \in Nat /\ now + 1 \in Nat /\ ComTask \in Scheduled
    BY <1>1, BoundsAssumption DEF LocalsOK, Scheduled
  <1>3. WellFormed(queue', Scheduled) /\ ObjectsOf(queue') = ObjectsOf(queue)
    <2>1. CASE ServeClients
      <3>1. queue # <<>> /\ queue' = requeuehead(queue, now)
        BY <2>1 DEF ServeClients, HeadDue
      <3> QED BY <1>1, <1>2, <3>1, RequeueHeadKeeps DEF QueueInv
    <2>2. CASE ServeReturns
      <3>1. queue' = setabseventtime(queue, ComTask, now + 1)
        BY <2>2 DEF ServeReturns
      <3> QED BY <1>1, <1>2, <3>1, SetAbsEventTimeKeeps DEF QueueInv
    <2> QED BY <2>1, <2>2
  <1>4. QueueInv'
    BY <1>1, <1>3 DEF QueueInv
  <1>5. LocalsOK' /\ ServingInv'
    BY <1>1 DEF LocalsOK, ServingInv
  <1> QED BY <1>1, <1>4, <1>5 DEF FbIInv, FailedIsOff, TreeInv, StackInv, PathInv

\* Startup registers both objects, and gives the urtask its time.
LEMMA StartupKeeps ==
    ASSUME FbIInv, Startup
    PROVE  FbIInv'
  <1>1. /\ LocalsOK /\ QueueInv /\ ServingInv /\ queue = <<>>
        /\ phase = "startup" /\ phase' = "up"
        /\ UNCHANGED <<now, serving, ltc, stack, tasklist, actimode>>
        /\ UNCHANGED <<cyctime, ErrState, eexreq>>
    BY DEF FbIInv, Startup, QueueInv
  <1>2. proctime' \in [Tasks -> Nat]
    <2>1. ASSUME NEW t \in Tasks
          PROVE  proctime[t] \in Nat /\ fb_set_proctime(proctime[t], cyctime[t]) \in Nat
      <3>1. proctime[t] \in Nat /\ cyctime[t] \in Nat
        BY <1>1 DEF LocalsOK
      <3> QED BY <1>1, <3>1, ProctimesAreTimes
    <2> QED BY <2>1 DEF Startup
  <1>3. LocalsOK'
    BY <1>1, <1>2 DEF LocalsOK
  <1>4. QueueInv'
    <2> DEFINE q1 == register(queue, ComTask, now)
               q2 == register(q1, UrTask, now)
               p == proctime'[UrTask]
    <2>1. /\ now \in Nat /\ p \in Nat /\ UrTask # ComTask
          /\ UrTask \in Scheduled /\ ComTask \in Scheduled
      BY <1>1, <1>2, BoundsAssumption, TasksAssumption DEF LocalsOK, Scheduled
    <2>2. queue' = setabseventtime(q2, UrTask, p)
      BY DEF Startup
    <2>3. ObjectsOf(queue) = {}
      <3>1. Len(<<>>) = 0
        BY EmptySeq
      <3> QED BY <1>1, <3>1 DEF ObjectsOf
    <2>4. WellFormed(q1, Scheduled) /\ ObjectsOf(q1) = ObjectsOf(queue) \cup {ComTask}
      BY <1>1, <2>1, <2>3, RegisterKeeps DEF QueueInv
    <2> HIDE DEF q1
    <2>5. WellFormed(q2, Scheduled) /\ ObjectsOf(q2) = ObjectsOf(q1) \cup {UrTask}
      BY <2>1, <2>3, <2>4, RegisterKeeps
    <2> HIDE DEF q2, p
    <2>6. WellFormed(queue', Scheduled) /\ ObjectsOf(queue') = ObjectsOf(q2)
      BY <2>1, <2>2, <2>5, SetAbsEventTimeKeeps
    <2>7. ObjectsOf(queue') = Scheduled
      BY <2>3, <2>4, <2>5, <2>6 DEF Scheduled
    <2> QED BY <1>1, <2>6, <2>7 DEF QueueInv
  <1>5. ServingInv'
    BY <1>1 DEF ServingInv
  <1> QED BY <1>1, <1>3, <1>4, <1>5 DEF FbIInv, FailedIsOff, TreeInv, StackInv, PathInv

LEMMA ShutdownKeeps ==
    ASSUME FbIInv, Shutdown
    PROVE  FbIInv'
  <1>1. /\ LocalsOK /\ QueueInv /\ stack = <<>> /\ ~serving /\ phase' = "down"
        /\ UNCHANGED <<now, serving, ltc, stack, tasklist, actimode>>
        /\ UNCHANGED <<proctime, cyctime, ErrState, eexreq>>
        /\ queue' = unregister(unregister(queue, UrTask), ComTask)
    BY DEF FbIInv, Shutdown
  <1>2. WellFormed(unregister(queue, UrTask), Scheduled)
    BY <1>1, UnregisterKeeps DEF QueueInv
  <1>3. WellFormed(queue', Scheduled)
    BY <1>1, <1>2, UnregisterKeeps
  <1>4. LocalsOK' /\ QueueInv' /\ ServingInv'
    BY <1>1, <1>3 DEF LocalsOK, QueueInv, ServingInv
  <1> QED BY <1>1, <1>4 DEF FbIInv, FailedIsOff, TreeInv, StackInv, PathInv

\* Time passes, or nothing happens.
LEMMA IdleKeeps ==
    ASSUME FbIInv, Tick \/ UNCHANGED vars
    PROVE  FbIInv'
  <1>1. /\ LocalsOK
        /\ UNCHANGED <<phase, queue, serving, ltc, stack, tasklist, actimode>>
        /\ UNCHANGED <<proctime, cyctime, ErrState, eexreq>>
    BY DEF FbIInv, Tick, vars
  <1>2. now' \in 0..MaxTime
    <2>1. CASE Tick
      BY <1>1, <2>1, BoundsAssumption DEF Tick, LocalsOK
    <2>2. CASE UNCHANGED vars
      BY <1>1, <2>2 DEF vars, LocalsOK
    <2> QED BY <2>1, <2>2
  <1>3. LocalsOK'
    BY <1>1, <1>2 DEF LocalsOK
  <1> QED BY <1>1, <1>3 DEF FbIInv, QueueInv, FailedIsOff, TreeInv, StackInv, PathInv, ServingInv

---------------------------------------------------------------------------
\* Every step keeps the invariant.
LEMMA FbNext == FbIInv /\ [Next]_vars => FbIInv'
  <1> SUFFICES ASSUME FbIInv, [Next]_vars PROVE FbIInv'
    OBVIOUS
  <1>1. ASSUME NEW t \in Tasks, NEW mode \in ClientModes[t], SetActimode(t, mode)
        PROVE  FbIInv'
    BY <1>1, SetActimodeKeeps
  <1>2. ASSUME NEW t \in Tasks, NEW cyc \in CycTimes, SetCyctime(t, cyc)
        PROVE  FbIInv'
    BY <1>2, SetCyctimeKeeps
  <1>3. ASSUME NEW t \in Tasks, NEW time \in ProcTimes[t], SetProctime(t, time)
        PROVE  FbIInv'
    BY <1>3, SetProctimeKeeps
  <1>4. ASSUME NEW t \in Tasks, NEW c \in Tasks, LinkTask(t, c) \/ UnlinkTask(t, c)
        PROVE  FbIInv'
    BY <1>4, LinkTaskKeeps, UnlinkTaskKeeps
  <1>5. ASSUME NEW b \in Blocks, SetInput(b) PROVE FbIInv'
    BY <1>5, SetInputKeeps
  <1>6. CASE RunUrTask
    BY <1>6, RunUrTaskKeeps
  <1>7. CASE SkipChild
    BY <1>7, SkipChildKeeps
  <1>8. CASE ExecuteChild
    BY <1>8, ExecuteChildKeeps
  <1>9. CASE MethodReturns
    BY <1>9, MethodReturnsKeeps
  <1>10. CASE MethodFails
    BY <1>10, MethodFailsKeeps
  <1>11. CASE Leave
    BY <1>11, LeaveKeeps
  <1>12. CASE ServeClients \/ ServeReturns
    BY <1>12, ServeKeeps
  <1>13. CASE Startup
    BY <1>13, StartupKeeps
  <1>14. CASE Shutdown
    BY <1>14, ShutdownKeeps
  <1>15. CASE Tick \/ Done \/ UNCHANGED vars
    BY <1>15, IdleKeeps DEF Done
  <1> QED BY <1>1, <1>2, <1>3, <1>4, <1>5, <1>6, <1>7, <1>8, <1>9, <1>10, <1>11,
             <1>12, <1>13, <1>14, <1>15 DEF Next

\* Tasks, lists and the stack are as they should be in every state.
THEOREM FbTaskInvariant == Spec => []FbIInv
  BY FbInit, FbNext, PTL DEF Spec

\* The urtask keeps its one event in the scheduler, whatever clients and
\* methods do to its proctime, its cycle time and its mode, so that the
\* function blocks go on running; and a block whose method has failed is off
\* until a client switches it on.
THEOREM FbTaskFbInv == Spec => []FbInv
  BY FbTaskInvariant, FbIInvImplies, PTL

\* The walk over a task list leaves out no child that is in the list from its
\* beginning to its end, in trees of any depth and whichever children leave the
\* list, are linked to it or fail on the way: fb_task_execute reads the next
\* child before it executes one, and from the lists that are being walked only
\* the child leaves that is being executed.
THEOREM FbTaskNoChildSkipped == Spec => []NoChildSkipped
  BY FbTaskInvariant, FbIInvImplies, PTL
===========================================================================
