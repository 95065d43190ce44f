-------------------------- MODULE EventQueueProofs --------------------------
(***************************************************************************)
(* What the list operations of ov_scheduler.c do to any list: lemmas on    *)
(* insertevent, on the removal of an event, and on the three operations    *)
(* composed from them.  The lemmas on lists of other objects are here, too. *)
(***************************************************************************)
EXTENDS EventQueue, SequenceTheorems, WellFoundedInduction, TLAPS

---------------------------------------------------------------------------
(* Sequence operations the list is built from.                             *)

\* Inserting an element shifts the rest of the list by one place.
LEMMA InsertAtProperties ==
    ASSUME NEW S, NEW s \in Seq(S), NEW i \in 1..(Len(s) + 1), NEW e \in S
    PROVE  /\ InsertAt(s, i, e) \in Seq(S)
           /\ Len(InsertAt(s, i, e)) = Len(s) + 1
           /\ \A j \in 1..(Len(s) + 1) :
                InsertAt(s, i, e)[j] = IF j < i THEN s[j]
                                       ELSE IF j = i THEN e ELSE s[j - 1]
  <1> DEFINE a == SubSeq(s, 1, i - 1)
             b == SubSeq(s, i, Len(s))
  <1>0. Len(s) \in Nat /\ \A k \in 1..Len(s) : s[k] \in S
    BY LenProperties, ElementOfSeq
  <1>1. /\ a \in Seq(S) /\ Len(a) = i - 1
        /\ \A k \in 1..(i - 1) : a[k] = s[k]
    <2>1. \A k \in 1..(i - 1) : s[k] \in S
      BY <1>0
    <2>2. /\ a \in Seq(S) /\ Len(a) = IF 1 <= i - 1 THEN i - 1 - 1 + 1 ELSE 0
          /\ \A k \in 1..(i - 1 - 1 + 1) : a[k] = s[1 + k - 1]
      BY <2>1, <1>0, SubSeqProperties
    <2> QED BY <2>2, <1>0
  <1>2. /\ b \in Seq(S) /\ Len(b) = Len(s) + 1 - i
        /\ \A k \in 1..(Len(s) + 1 - i) : b[k] = s[i + k - 1]
    <2>1. \A k \in i..Len(s) : s[k] \in S
      BY <1>0
    <2>2. /\ b \in Seq(S) /\ Len(b) = IF i <= Len(s) THEN Len(s) - i + 1 ELSE 0
          /\ \A k \in 1..(Len(s) - i + 1) : b[k] = s[i + k - 1]
      BY <2>1, <1>0, SubSeqProperties
    <2> QED BY <2>2, <1>0
  <1>3. <<e>> \in Seq(S) /\ Len(<<e>>) = 1 /\ <<e>>[1] = e
    OBVIOUS
  <1> DEFINE c == a \o <<e>>
  <1>4. /\ c \in Seq(S) /\ Len(c) = i
        /\ \A k \in 1..i : c[k] = IF k <= i - 1 THEN a[k] ELSE <<e>>[k - (i - 1)]
    <2>1. /\ c \in Seq(S) /\ Len(c) = Len(a) + Len(<<e>>)
          /\ \A k \in 1..(Len(a) + Len(<<e>>)) :
                c[k] = IF k <= Len(a) THEN a[k] ELSE <<e>>[k - Len(a)]
      BY <1>1, <1>3, ConcatProperties
    <2> QED BY <2>1, <1>1, <1>3, <1>0
  <1>5. InsertAt(s, i, e) = c \o b
    BY DEF InsertAt
  <1> HIDE DEF a, b, c
  <1>6. /\ c \o b \in Seq(S) /\ Len(c \o b) = Len(c) + Len(b)
        /\ \A k \in 1..(Len(c) + Len(b)) :
              (c \o b)[k] = IF k <= Len(c) THEN c[k] ELSE b[k - Len(c)]
    BY <1>2, <1>4, ConcatProperties
  <1> DEFINE d == c \o b
  <1>7. /\ d \in Seq(S) /\ Len(d) = Len(s) + 1
        /\ \A k \in 1..(Len(s) + 1) : d[k] = IF k <= i THEN c[k] ELSE b[k - i]
    <2>1. Len(c) = i /\ Len(c) + Len(b) = Len(s) + 1
      BY <1>0, <1>2, <1>4
    <2> QED BY <2>1, <1>6
  <1> HIDE DEF d
  <1>8. ASSUME NEW j \in 1..(Len(s) + 1)
        PROVE  d[j] = IF j < i THEN s[j] ELSE IF j = i THEN e ELSE s[j - 1]
    <2>1. CASE j < i
      BY <2>1, <1>0, <1>1, <1>4, <1>7
    <2>2. CASE j = i
      BY <2>2, <1>0, <1>3, <1>4, <1>7
    <2>3. CASE j > i
      <3>1. d[j] = b[j - i]
        BY <2>3, <1>0, <1>7
      <3>2. j - i \in 1..(Len(s) + 1 - i) /\ i + (j - i) - 1 = j - 1
        BY <2>3, <1>0
      <3>3. b[j - i] = s[j - 1]
        BY <3>2, <1>2
      <3> QED BY <3>1, <3>3, <2>3, <1>0
    <2>4. j < i \/ j = i \/ j > i
      BY <1>0
    <2> QED BY <2>1, <2>2, <2>3, <2>4
  <1> QED BY <1>5, <1>7, <1>8 DEF d

\* Removing an element shifts the rest of the list back by one place.
LEMMA RemoveAtProperties ==
    ASSUME NEW S, NEW s \in Seq(S), NEW i \in 1..Len(s)
    PROVE  /\ RemoveAt(s, i) \in Seq(S)
           /\ Len(RemoveAt(s, i)) = Len(s) - 1
           /\ \A j \in 1..(Len(s) - 1) :
                RemoveAt(s, i)[j] = IF j < i THEN s[j] ELSE s[j + 1]
  <1> DEFINE a == SubSeq(s, 1, i - 1)
             b == SubSeq(s, i + 1, Len(s))
  <1>0. Len(s) \in Nat /\ \A k \in 1..Len(s) : s[k] \in S
    BY LenProperties, ElementOfSeq
  <1>1. /\ a \in Seq(S) /\ Len(a) = i - 1
        /\ \A k \in 1..(i - 1) : a[k] = s[k]
    <2>1. \A k \in 1..(i - 1) : s[k] \in S
      BY <1>0
    <2>2. /\ a \in Seq(S) /\ Len(a) = IF 1 <= i - 1 THEN i - 1 - 1 + 1 ELSE 0
          /\ \A k \in 1..(i - 1 - 1 + 1) : a[k] = s[1 + k - 1]
      BY <2>1, <1>0, SubSeqProperties
    <2> QED BY <2>2, <1>0
  <1>2. /\ b \in Seq(S) /\ Len(b) = Len(s) - i
        /\ \A k \in 1..(Len(s) - i) : b[k] = s[i + k]
    <2>1. \A k \in (i + 1)..Len(s) : s[k] \in S
      BY <1>0
    <2>2. /\ b \in Seq(S)
          /\ Len(b) = IF i + 1 <= Len(s) THEN Len(s) - (i + 1) + 1 ELSE 0
          /\ \A k \in 1..(Len(s) - (i + 1) + 1) : b[k] = s[i + 1 + k - 1]
      BY <2>1, <1>0, SubSeqProperties
    <2> QED BY <2>2, <1>0
  <1>3. RemoveAt(s, i) = a \o b
    BY DEF RemoveAt
  <1> HIDE DEF a, b
  <1>4. /\ a \o b \in Seq(S) /\ Len(a \o b) = Len(a) + Len(b)
        /\ \A k \in 1..(Len(a) + Len(b)) :
              (a \o b)[k] = IF k <= Len(a) THEN a[k] ELSE b[k - Len(a)]
    BY <1>1, <1>2, ConcatProperties
  <1> DEFINE d == a \o b
  <1>5. /\ d \in Seq(S) /\ Len(d) = Len(s) - 1
        /\ \A k \in 1..(Len(s) - 1) :
                d[k] = IF k <= i - 1 THEN a[k] ELSE b[k - (i - 1)]
    <2>1. Len(a) = i - 1 /\ Len(a) + Len(b) = Len(s) - 1
      BY <1>0, <1>1, <1>2
    <2> QED BY <2>1, <1>4
  <1> HIDE DEF d
  <1>6. ASSUME NEW j \in 1..(Len(s) - 1)
        PROVE  d[j] = IF j < i THEN s[j] ELSE s[j + 1]
    <2>1. CASE j < i
      BY <2>1, <1>0, <1>1, <1>5
    <2>2. CASE j >= i
      <3>1. d[j] = b[j - (i - 1)]
        BY <2>2, <1>0, <1>5
      <3>2. j - (i - 1) \in 1..(Len(s) - i) /\ i + (j - (i - 1)) = j + 1
        BY <2>2, <1>0
      <3>3. b[j - (i - 1)] = s[j + 1]
        BY <3>2, <1>2
      <3> QED BY <3>1, <3>3, <2>2, <1>0
    <2>3. j < i \/ j >= i
      BY <1>0
    <2> QED BY <2>1, <2>2, <2>3
  <1> QED BY <1>3, <1>5, <1>6 DEF d

\* The minimum of a nonempty set of naturals exists, and Min chooses it.
LEMMA MinProperties ==
    ASSUME NEW I \in SUBSET Nat, I # {}
    PROVE  Min(I) \in I /\ \A j \in I : Min(I) <= j
  <1>1. \E x \in I : \A y \in I : ~(<<y, x>> \in OpToRel(<, Nat))
    BY NatLessThanWellFounded, WFMin
  <1>2. ASSUME NEW x \in Nat, NEW y \in Nat, y < x
        PROVE  <<y, x>> \in OpToRel(<, Nat)
    BY <1>2 DEF OpToRel
  <1>3. \A x, y \in Nat : ~(y < x) => x <= y
    OBVIOUS
  <1>4. \E x \in I : \A y \in I : x <= y
    BY <1>1, <1>2, <1>3, Zenon
  <1> QED BY <1>4 DEF Min

---------------------------------------------------------------------------
(* Lists that hold each of their members once: the associations of objects *)
(* with their children.                                                    *)

IsListOf(l, S) == l \in Seq(S) /\ IsInjective(l)

PlaceOf(l, x) == SelectInSeq(l, LAMBDA u : u = x)

\* The places of a list.
LEMMA ListPlaces ==
    ASSUME NEW S, NEW l, IsListOf(l, S)
    PROVE  /\ Len(l) \in Nat /\ DOMAIN l = 1..Len(l)
           /\ ToSet(l) = {l[i] : i \in 1..Len(l)} /\ ToSet(l) \subseteq S
           /\ \A i, j \in 1..Len(l) : l[i] = l[j] => i = j
  <1>1. /\ Len(l) \in Nat /\ DOMAIN l = 1..Len(l)
        /\ \A i \in 1..Len(l) : l[i] \in S
    BY LenProperties, ElementOfSeq DEF IsListOf
  <1> QED BY <1>1 DEF ToSet, IsListOf, IsInjective

\* The empty list.
LEMMA EmptyList ==
    ASSUME NEW S
    PROVE  IsListOf(<<>>, S) /\ ToSet(<<>>) = {}
  <1>1. <<>> \in Seq(S) /\ DOMAIN <<>> = {}
    BY EmptySeq
  <1> QED BY <1>1 DEF IsListOf, IsInjective, ToSet

\* The head of a list is one of its members.
LEMMA HeadOfList ==
    ASSUME NEW S, NEW l, IsListOf(l, S), l # <<>>
    PROVE  Head(l) \in ToSet(l) /\ Head(l) \in S
  <1>1. Head(l) = l[1] /\ 1 \in 1..Len(l)
    BY EmptySeq, LenProperties DEF IsListOf
  <1> QED BY <1>1, ListPlaces

\* The place of a member.
LEMMA PlaceFinds ==
    ASSUME NEW S, NEW l, IsListOf(l, S), NEW x
    PROVE  /\ PlaceOf(l, x) \in 0..Len(l)
           /\ x \in ToSet(l) => PlaceOf(l, x) # 0
           /\ PlaceOf(l, x) # 0 => l[PlaceOf(l, x)] = x
  <1> DEFINE I == {i \in 1..Len(l) : l[i] = x}
  <1>1. PlaceOf(l, x) = IF I # {} THEN Min(I) ELSE 0
    BY DEF PlaceOf, SelectInSeq
  <1>2. Len(l) \in Nat /\ ToSet(l) = {l[i] : i \in 1..Len(l)}
    BY ListPlaces
  <1>3. I \in SUBSET Nat
    BY <1>2
  <1>4. CASE I = {}
    BY <1>1, <1>2, <1>4
  <1>5. CASE I # {}
    <2>1. PlaceOf(l, x) \in I
      BY <1>1, <1>3, <1>5, MinProperties
    <2> QED BY <1>2, <2>1
  <1> QED BY <1>4, <1>5

\* A new member is linked once, behind the others.
LEMMA AppendKeepsList ==
    ASSUME NEW S, NEW list, IsListOf(list, S), NEW x \in S, x \notin ToSet(list)
    PROVE  /\ IsListOf(Append(list, x), S)
           /\ ToSet(Append(list, x)) = ToSet(list) \cup {x}
  <1> DEFINE l == Append(list, x)
             n == Len(list)
  <1>1. /\ n \in Nat /\ ToSet(list) = {list[i] : i \in 1..n}
        /\ \A i, j \in 1..n : list[i] = list[j] => i = j
    BY ListPlaces
  <1>2. /\ l \in Seq(S) /\ Len(l) = n + 1 /\ DOMAIN l = 1..(n + 1)
        /\ \A i \in 1..n : l[i] = list[i]
        /\ l[n + 1] = x
    BY AppendProperties, LenProperties DEF IsListOf
  <1> HIDE DEF l
  <1>3. \A i \in 1..(n + 1) : i \in 1..n \/ i = n + 1
    BY <1>1
  <1>4. IsInjective(l)
    BY <1>1, <1>2, <1>3 DEF IsInjective
  <1>5. ToSet(l) = ToSet(list) \cup {x}
    <2>1. ToSet(l) = {l[i] : i \in 1..(n + 1)}
      BY <1>2 DEF ToSet
    <2>2. \A i \in 1..(n + 1) : l[i] \in ToSet(list) \cup {x}
      BY <1>1, <1>2, <1>3
    <2>3. \A i \in 1..n : list[i] \in ToSet(l)
      BY <1>1, <1>2, <2>1
    <2>4. x \in ToSet(l)
      BY <1>1, <1>2, <2>1
    <2> QED BY <1>1, <2>1, <2>2, <2>3, <2>4
  <1> QED BY <1>2, <1>4, <1>5 DEF IsListOf, l

\* Unlinking a member leaves all others linked.
LEMMA RemoveFirstKeepsList ==
    ASSUME NEW S, NEW list, IsListOf(list, S), NEW x
    PROVE  /\ IsListOf(RemoveFirst(list, x), S)
           /\ ToSet(RemoveFirst(list, x)) = ToSet(list) \ {x}
  <1> DEFINE p == PlaceOf(list, x)
             n == Len(list)
             l == RemoveAt(list, p)
  <1>1. /\ n \in Nat /\ ToSet(list) = {list[i] : i \in 1..n}
        /\ \A i, j \in 1..n : list[i] = list[j] => i = j
    BY ListPlaces
  <1>n. CASE x \notin ToSet(list)
    <2>1. RemoveFirst(list, x) = list
      BY <1>1, <1>n DEF RemoveFirst
    <2> QED BY <1>n, <2>1
  <1>m. CASE x \in ToSet(list)
    <2>0. RemoveFirst(list, x) = l
      BY <1>1, <1>m DEF RemoveFirst, PlaceOf
    <2>2. p \in 1..n /\ list[p] = x
      BY <1>1, <1>m, PlaceFinds
    <2> HIDE DEF p
    <2>3. /\ l \in Seq(S) /\ Len(l) = n - 1
          /\ \A j \in 1..(n - 1) : l[j] = IF j < p THEN list[j] ELSE list[j + 1]
      BY <2>2, RemoveAtProperties DEF IsListOf
    <2> HIDE DEF l
    <2>4. DOMAIN l = 1..(n - 1)
      BY <2>3, LenProperties
    <2> DEFINE old(j) == IF j < p THEN j ELSE j + 1
    <2>5. \A j \in 1..(n - 1) : old(j) \in 1..n /\ old(j) # p /\ l[j] = list[old(j)]
      BY <1>1, <2>2, <2>3
    <2>6. \A i, j \in 1..(n - 1) : old(i) = old(j) => i = j
      BY <1>1, <2>2
    <2>7. \A i \in 1..n : i # p => \E j \in 1..(n - 1) : old(j) = i
      <3> SUFFICES ASSUME NEW i \in 1..n, i # p PROVE \E j \in 1..(n - 1) : old(j) = i
        OBVIOUS
      <3>1. CASE i < p
        <4>1. i \in 1..(n - 1) /\ old(i) = i
          BY <1>1, <2>2, <3>1
        <4> QED BY <4>1
      <3>2. CASE i > p
        <4>1. i - 1 \in 1..(n - 1) /\ old(i - 1) = i
          BY <1>1, <2>2, <3>2
        <4> QED BY <4>1
      <3> QED BY <1>1, <2>2, <3>1, <3>2
    <2> HIDE DEF old
    <2>8. IsInjective(l)
      <3> SUFFICES ASSUME NEW i \in 1..(n - 1), NEW j \in 1..(n - 1), l[i] = l[j]
                   PROVE  i = j
        BY <2>4 DEF IsInjective
      <3> QED BY <1>1, <2>5, <2>6
    <2>9. ToSet(l) = ToSet(list) \ {x}
      <3>1. ToSet(l) = {l[j] : j \in 1..(n - 1)}
        BY <2>4 DEF ToSet
      <3>2. \A j \in 1..(n - 1) : l[j] \in ToSet(list) \ {x}
        BY <1>1, <2>2, <2>5
      <3>3. \A i \in 1..n : i # p => list[i] \in ToSet(l)
        BY <2>5, <2>7, <3>1
      <3>4. \A y \in ToSet(list) \ {x} : y \in ToSet(l)
        BY <1>1, <2>2, <3>3
      <3>5. \A y \in ToSet(l) : y \in ToSet(list) \ {x}
        BY <3>1, <3>2
      <3> QED BY <3>4, <3>5
    <2> QED BY <2>0, <2>3, <2>8, <2>9 DEF IsListOf
  <1> QED BY <1>n, <1>m

---------------------------------------------------------------------------
(* The list operations.                                                    *)

\* Every place of a list of events holds an object and a time.
LEMMA EventsOfList ==
    ASSUME NEW O, NEW q \in Seq(Events(O))
    PROVE  /\ Len(q) \in Nat
           /\ \A k \in 1..Len(q) : q[k].obj \in O /\ q[k].time \in Nat
  <1>1. Len(q) \in Nat
    BY LenProperties
  <1>2. \A k \in 1..Len(q) : q[k] \in Events(O)
    BY ElementOfSeq
  <1>3. ASSUME NEW x \in Events(O) PROVE x.obj \in O /\ x.time \in Nat
    BY DEF Events
  <1> QED BY <1>1, <1>2, <1>3

\* The place insertevent finds: everything before it is due no later than the
\* new event, and the event at that place is strictly later.
LEMMA InsertEventPlace ==
    ASSUME NEW O, NEW q \in Seq(Events(O)),
           NEW e \in Events(O)
    PROVE  \E p \in 1..(Len(q) + 1) :
                /\ insertevent(q, e) = InsertAt(q, p, e)
                /\ \A k \in 1..Len(q) : k < p => q[k].time <= e.time
                /\ p <= Len(q) => q[p].time > e.time
  <1> DEFINE I == {i \in 1..Len(q) : q[i].time > e.time}
             later == SelectInSeq(q, LAMBDA f : f.time > e.time)
  <1>0. /\ Len(q) \in Nat /\ e.time \in Nat
        /\ \A k \in 1..Len(q) : q[k].time \in Nat
    BY EventsOfList DEF Events
  <1>1. later = IF I # {} THEN Min(I) ELSE 0
    BY DEF SelectInSeq
  <1>2. insertevent(q, e) = InsertAt(q, IF later = 0 THEN Len(q) + 1 ELSE later, e)
    BY DEF insertevent
  <1> HIDE DEF later
  <1>3. CASE I = {}
    <2>1. later = 0
      BY <1>1, <1>3
    <2>2. insertevent(q, e) = InsertAt(q, Len(q) + 1, e)
      BY <2>1, <1>2
    <2>3. \A k \in 1..Len(q) : q[k].time <= e.time
      BY <1>0, <1>3
    <2> QED BY <2>2, <2>3, <1>0
  <1>4. CASE I # {}
    <2>1. I \in SUBSET Nat
      BY <1>0
    <2>2. later \in I /\ \A j \in I : later <= j
      BY <2>1, <1>1, <1>4, MinProperties
    <2>3. later \in 1..Len(q) /\ q[later].time > e.time
      BY <2>2
    <2>4. insertevent(q, e) = InsertAt(q, later, e)
      BY <2>3, <1>2, <1>0
    <2>5. ASSUME NEW k \in 1..Len(q), k < later
          PROVE  q[k].time <= e.time
      <3>1. k \notin I
        BY <2>2, <2>3, <2>5, <1>0
      <3> QED BY <3>1, <1>0
    <2> QED BY <2>3, <2>4, <2>5, <1>0
  <1> QED BY <1>3, <1>4

\* Inserting an event keeps the order and adds exactly that event.
LEMMA InsertEventKeeps ==
    ASSUME NEW O, NEW q \in Seq(Events(O)),
           NEW e \in Events(O)
    PROVE  /\ insertevent(q, e) \in Seq(Events(O))
           /\ ObjectsOf(insertevent(q, e)) = ObjectsOf(q) \cup {e.obj}
           /\ Sorted(q) => Sorted(insertevent(q, e))
           /\ OnePerObject(q) /\ e.obj \notin ObjectsOf(q)
                => OnePerObject(insertevent(q, e))
  <1> DEFINE r == insertevent(q, e)
             n == Len(q)
  <1>0. n \in Nat /\ e.time \in Nat /\ \A k \in 1..n : q[k].time \in Nat
    BY EventsOfList DEF Events
  <1>1. PICK p \in 1..(n + 1) :
                /\ r = InsertAt(q, p, e)
                /\ \A k \in 1..n : k < p => q[k].time <= e.time
                /\ p <= n => q[p].time > e.time
    BY InsertEventPlace
  <1>2. /\ r \in Seq(Events(O))
        /\ Len(r) = n + 1
        /\ \A j \in 1..(n + 1) :
                r[j] = IF j < p THEN q[j] ELSE IF j = p THEN e ELSE q[j - 1]
    <2> HIDE DEF r
    <2>1. /\ InsertAt(q, p, e) \in Seq(Events(O))
          /\ Len(InsertAt(q, p, e)) = n + 1
          /\ \A j \in 1..(n + 1) : InsertAt(q, p, e)[j]
                = IF j < p THEN q[j] ELSE IF j = p THEN e ELSE q[j - 1]
      BY InsertAtProperties
    <2> QED BY <2>1, <1>1
  <1> HIDE DEF r, n
  <1>3. p \in Nat /\ \A i \in 1..Len(r) : i \in Nat /\ i \in 1..(n + 1)
    BY <1>0, <1>2
  \* The three parts of the new list.
  <1>front. ASSUME NEW j \in 1..Len(r), j < p PROVE j \in 1..n /\ r[j] = q[j]
    BY <1>0, <1>2, <1>front
  <1>here. p \in 1..Len(r) /\ r[p] = e
    BY <1>0, <1>2
  <1>back. ASSUME NEW j \in 1..Len(r), j > p PROVE j - 1 \in 1..n /\ r[j] = q[j - 1]
    BY <1>0, <1>2, <1>back
  <1>split. \A j \in 1..Len(r) : j < p \/ j = p \/ j > p
    BY <1>0, <1>2
  <1>4. ObjectsOf(r) = ObjectsOf(q) \cup {e.obj}
    <2>1. ASSUME NEW j \in 1..Len(r) PROVE r[j].obj \in ObjectsOf(q) \cup {e.obj}
      BY <1>front, <1>here, <1>back, <1>split DEF ObjectsOf, n
    <2>2. ASSUME NEW k \in 1..n PROVE \E j \in 1..Len(r) : r[j] = q[k]
      <3>1. CASE k < p
        <4>1. k \in 1..Len(r)
          BY <1>0, <1>2
        <4> QED BY <3>1, <4>1, <1>front
      <3>2. CASE k >= p
        <4>1. k + 1 \in 1..Len(r) /\ k + 1 > p /\ (k + 1) - 1 = k
          BY <3>2, <1>0, <1>2
        <4> QED BY <4>1, <1>back
      <3> QED BY <3>1, <3>2, <1>0
    <2>3. ASSUME NEW x \in ObjectsOf(q) PROVE x \in ObjectsOf(r)
      <3>1. PICK k \in 1..n : x = q[k].obj
        BY DEF ObjectsOf, n
      <3> QED BY <3>1, <2>2 DEF ObjectsOf
    <2>4. e.obj \in ObjectsOf(r)
      BY <1>here DEF ObjectsOf
    <2>5. ASSUME NEW x \in ObjectsOf(r) PROVE x \in ObjectsOf(q) \cup {e.obj}
      BY <2>1 DEF ObjectsOf
    <2> QED BY <2>3, <2>4, <2>5
  <1>5. ASSUME Sorted(q) PROVE Sorted(r)
    <2>0. \A i, j \in 1..n : i <= j => q[i].time <= q[j].time
      BY <1>5 DEF Sorted, n
    <2> SUFFICES ASSUME NEW i \in 1..Len(r), NEW j \in 1..Len(r), i <= j
                 PROVE  r[i].time <= r[j].time
      BY DEF Sorted
    <2>1. CASE j < p
      <3>1. i < p
        BY <2>1, <1>3
      <3> QED BY <2>0, <2>1, <3>1, <1>front
    <2>2. CASE j = p /\ i < p
      BY <2>2, <1>1, <1>here, <1>front
    <2>3. CASE i = p /\ j > p
      <3>1. p <= n /\ p <= j - 1 /\ p \in 1..n /\ j - 1 \in 1..n
        BY <2>3, <1>0, <1>3, <1>back
      <3>2. q[p].time <= q[j - 1].time /\ q[p].time > e.time
        BY <3>1, <2>0, <1>1
      <3>3. e.time <= q[j - 1].time
        BY <3>1, <3>2, <1>0
      <3> QED BY <2>3, <3>3, <1>here, <1>back
    <2>4. CASE i < p /\ j > p
      <3>1. i <= j - 1
        BY <2>4, <1>3
      <3> QED BY <2>0, <2>4, <3>1, <1>front, <1>back
    <2>5. CASE i > p
      <3>1. i - 1 <= j - 1 /\ j > p
        BY <2>5, <1>3
      <3> QED BY <2>0, <2>5, <3>1, <1>back
    <2>6. CASE i = p /\ j = p
      BY <2>6, <1>0, <1>here
    <2>7. CASE j = p /\ i > p
      BY <2>7, <1>3
    <2>8. CASE i = p /\ j < p
      BY <2>8, <1>3
    <2> QED BY <2>1, <2>2, <2>3, <2>4, <2>5, <2>6, <2>7, <2>8, <1>split
  <1>6. ASSUME OnePerObject(q), e.obj \notin ObjectsOf(q)
        PROVE  OnePerObject(r)
    <2>0. /\ \A k \in 1..n : q[k].obj # e.obj
          /\ \A i, j \in 1..n : q[i].obj = q[j].obj => i = j
      BY <1>6 DEF ObjectsOf, OnePerObject, n
    <2>1. ASSUME NEW i \in 1..Len(r), NEW j \in 1..Len(r), i < j
          PROVE  r[i].obj # r[j].obj
      <3>1. CASE j < p
        <4>1. i < p /\ i # j
          BY <2>1, <3>1, <1>3
        <4> QED BY <2>0, <3>1, <4>1, <1>front
      <3>2. CASE j = p
        <4>1. i < p
          BY <2>1, <3>2, <1>3
        <4> QED BY <2>0, <3>2, <4>1, <1>front, <1>here
      <3>3. CASE i = p
        <4>1. j > p
          BY <2>1, <3>3, <1>3
        <4> QED BY <2>0, <3>3, <4>1, <1>back, <1>here
      <3>4. CASE i < p /\ j > p
        <4>1. i # j - 1
          BY <3>4, <1>3
        <4> QED BY <2>0, <3>4, <4>1, <1>front, <1>back
      <3>5. CASE i > p
        <4>1. j > p /\ i - 1 # j - 1
          BY <2>1, <3>5, <1>3
        <4>2. i - 1 \in 1..n /\ r[i] = q[i - 1] /\ j - 1 \in 1..n /\ r[j] = q[j - 1]
          BY <3>5, <4>1, <1>back
        <4> QED BY <2>0, <4>1, <4>2
      <3> QED BY <3>1, <3>2, <3>3, <3>4, <3>5, <1>split
    <2>2. \A i, j \in 1..Len(r) : i < j \/ i = j \/ j < i
      BY <1>3
    <2> QED BY <2>1, <2>2 DEF OnePerObject
  <1> QED BY <1>2, <1>4, <1>5, <1>6 DEF r

\* r is q without its element at p.
IsRemoval(q, p, r) ==
    /\ Len(r) = Len(q) - 1
    /\ \A j \in 1..(Len(q) - 1) : r[j] = IF j < p THEN q[j] ELSE q[j + 1]

\* Taking one event out keeps the order, and of the objects that have one
\* event each it removes exactly the one of that event.
LEMMA RemovalKeeps ==
    ASSUME NEW O, NEW q \in Seq(Events(O)),
           NEW r \in Seq(Events(O)), NEW p \in 1..Len(q),
           IsRemoval(q, p, r)
    PROVE  /\ Sorted(q) => Sorted(r)
           /\ OnePerObject(q) => /\ OnePerObject(r)
                                 /\ ObjectsOf(r) = ObjectsOf(q) \ {q[p].obj}
  <1> DEFINE n == Len(q)
  <1>0. n \in Nat /\ \A k \in 1..n : q[k].time \in Nat
    BY EventsOfList
  <1>1. p \in 1..n /\ Len(r) = n - 1
    BY DEF IsRemoval
  <1>2. \A j \in 1..(n - 1) : r[j] = IF j < p THEN q[j] ELSE q[j + 1]
    BY DEF IsRemoval
  <1> HIDE DEF n
  <1>3. p \in Nat /\ \A j \in 1..Len(r) : j \in Nat /\ j \in 1..(n - 1)
    BY <1>0, <1>1
  \* The two parts of the list that are left.
  <1>front. ASSUME NEW j \in 1..Len(r), j < p PROVE j \in 1..n /\ r[j] = q[j]
    BY <1>0, <1>1, <1>2, <1>front
  <1>back. ASSUME NEW j \in 1..Len(r), j >= p PROVE j + 1 \in 1..n /\ r[j] = q[j + 1]
    BY <1>0, <1>1, <1>2, <1>back
  <1>split. \A j \in 1..Len(r) : j < p \/ j >= p
    BY <1>3
  <1>4. ASSUME Sorted(q) PROVE Sorted(r)
    <2>0. \A i, j \in 1..n : i <= j => q[i].time <= q[j].time
      BY <1>4 DEF Sorted, n
    <2> SUFFICES ASSUME NEW i \in 1..Len(r), NEW j \in 1..Len(r), i <= j
                 PROVE  r[i].time <= r[j].time
      BY DEF Sorted
    <2>1. CASE i < p /\ j < p
      BY <2>0, <2>1, <1>front
    <2>2. CASE i < p /\ j >= p
      <3>1. i <= j + 1
        BY <1>3
      <3> QED BY <2>0, <2>2, <3>1, <1>front, <1>back
    <2>3. CASE i >= p
      <3>1. i + 1 <= j + 1 /\ j >= p
        BY <2>3, <1>3
      <3>2. /\ i + 1 \in 1..n /\ r[i] = q[i + 1]
            /\ j + 1 \in 1..n /\ r[j] = q[j + 1]
        BY <2>3, <3>1, <1>back
      <3> QED BY <2>0, <3>1, <3>2
    <2> QED BY <2>1, <2>2, <2>3, <1>split
  <1>5. ASSUME OnePerObject(q)
        PROVE  OnePerObject(r) /\ ObjectsOf(r) = ObjectsOf(q) \ {q[p].obj}
    <2>0. \A i, j \in 1..n : q[i].obj = q[j].obj => i = j
      BY <1>5 DEF OnePerObject, n
    <2>1. ASSUME NEW i \in 1..Len(r), NEW j \in 1..Len(r), i < j
          PROVE  r[i].obj # r[j].obj
      <3>1. CASE i < p /\ j < p
        <4>1. i # j
          BY <2>1, <1>3
        <4> QED BY <2>0, <3>1, <4>1, <1>front
      <3>2. CASE i < p /\ j >= p
        <4>1. i # j + 1
          BY <3>2, <1>3
        <4> QED BY <2>0, <3>2, <4>1, <1>front, <1>back
      <3>3. CASE i >= p
        <4>1. j >= p /\ i + 1 # j + 1
          BY <2>1, <3>3, <1>3
        <4>2. /\ i + 1 \in 1..n /\ r[i] = q[i + 1]
              /\ j + 1 \in 1..n /\ r[j] = q[j + 1]
          BY <3>3, <4>1, <1>back
        <4> QED BY <2>0, <4>1, <4>2
      <3> QED BY <3>1, <3>2, <3>3, <1>split
    <2>2. \A i, j \in 1..Len(r) : i < j \/ i = j \/ j < i
      BY <1>3
    <2>3. OnePerObject(r)
      BY <2>1, <2>2 DEF OnePerObject
    <2>4. ASSUME NEW j \in 1..Len(r)
          PROVE  \E k \in 1..n : k # p /\ r[j] = q[k]
      <3>1. CASE j < p
        <4>1. j # p
          BY <3>1, <1>3
        <4> QED BY <3>1, <4>1, <1>front
      <3>2. CASE j >= p
        <4>1. j + 1 # p
          BY <3>2, <1>3
        <4> QED BY <3>2, <4>1, <1>back
      <3> QED BY <3>1, <3>2, <1>split
    <2>5. ASSUME NEW k \in 1..n, k # p PROVE \E j \in 1..Len(r) : r[j] = q[k]
      <3>1. CASE k < p
        <4>1. k \in 1..Len(r)
          BY <3>1, <1>0, <1>1
        <4> QED BY <3>1, <4>1, <1>front
      <3>2. CASE k > p
        <4>1. k - 1 \in 1..Len(r) /\ k - 1 >= p /\ (k - 1) + 1 = k
          BY <3>2, <1>0, <1>1
        <4> QED BY <4>1, <1>back
      <3>3. k < p \/ k > p
        BY <2>5, <1>0, <1>1
      <3> QED BY <3>1, <3>2, <3>3
    <2>6. ASSUME NEW x \in ObjectsOf(r) PROVE x \in ObjectsOf(q) \ {q[p].obj}
      <3>1. PICK j \in 1..Len(r) : x = r[j].obj
        BY DEF ObjectsOf
      <3>2. PICK k \in 1..n : k # p /\ r[j] = q[k]
        BY <2>4
      <3>3. q[k].obj # q[p].obj
        BY <2>0, <3>2, <1>1
      <3> QED BY <3>1, <3>2, <3>3 DEF ObjectsOf, n
    <2>7. ASSUME NEW x \in ObjectsOf(q) \ {q[p].obj} PROVE x \in ObjectsOf(r)
      <3>1. PICK k \in 1..n : x = q[k].obj
        BY DEF ObjectsOf, n
      <3>2. k # p
        BY <2>7, <3>1
      <3>3. PICK j \in 1..Len(r) : r[j] = q[k]
        BY <2>5, <3>2
      <3> QED BY <3>1, <3>3 DEF ObjectsOf
    <2> QED BY <2>3, <2>6, <2>7
  <1> QED BY <1>4, <1>5

\* FirstOf finds an event of the object when there is one.
LEMMA FirstOfFinds ==
    ASSUME NEW O, NEW q \in Seq(Events(O)), NEW o, Queued(q, o)
    PROVE  FirstOf(q, o) \in 1..Len(q) /\ q[FirstOf(q, o)].obj = o
  <1> DEFINE I == {i \in 1..Len(q) : q[i].obj = o}
  <1>1. FirstOf(q, o) = IF I # {} THEN Min(I) ELSE 0
    BY DEF FirstOf, SelectInSeq
  <1>2. I # {}
    BY DEF Queued
  <1>3. Len(q) \in Nat
    BY EventsOfList
  <1>4. I \in SUBSET Nat
    BY <1>3
  <1>5. FirstOf(q, o) \in I
    BY <1>1, <1>2, <1>4, MinProperties
  <1> QED BY <1>5

\* A list has events of exactly its objects.
LEMMA QueuedObjects ==
    ASSUME NEW q, NEW o
    PROVE  Queued(q, o) <=> o \in ObjectsOf(q)
  BY DEF Queued, ObjectsOf

\* What the list of the scheduler is: events of known objects, in the order of
\* their times, one for each object.
WellFormed(q, O) ==
    /\ q \in Seq(Events(O))
    /\ Sorted(q)
    /\ OnePerObject(q)

\* An event of a new object keeps the list well-formed.
LEMMA InsertEventWellFormed ==
    ASSUME NEW O, NEW q, WellFormed(q, O), NEW o \in O, NEW t \in Nat,
           o \notin ObjectsOf(q)
    PROVE  /\ WellFormed(insertevent(q, Event(o, t)), O)
           /\ ObjectsOf(insertevent(q, Event(o, t))) = ObjectsOf(q) \cup {o}
  <1>1. Event(o, t) \in Events(O) /\ Event(o, t).obj = o
    BY DEF Event, Events
  <1> QED BY <1>1, InsertEventKeeps DEF WellFormed

\* ov_scheduler_register keeps the list well-formed when the object has no
\* event yet, and adds exactly that object.
LEMMA RegisterKeeps ==
    ASSUME NEW O, NEW q, WellFormed(q, O), NEW o \in O, NEW t \in Nat,
           o \notin ObjectsOf(q)
    PROVE  /\ WellFormed(register(q, o, t), O)
           /\ ObjectsOf(register(q, o, t)) = ObjectsOf(q) \cup {o}
  BY InsertEventWellFormed DEF register

\* Taking out the first event of an object of a well-formed list leaves a
\* well-formed list without that object.
LEMMA RemoveFirstOfKeeps ==
    ASSUME NEW O, NEW q, WellFormed(q, O), NEW o, Queued(q, o)
    PROVE  /\ WellFormed(RemoveAt(q, FirstOf(q, o)), O)
           /\ ObjectsOf(RemoveAt(q, FirstOf(q, o))) = ObjectsOf(q) \ {o}
  <1> DEFINE p == FirstOf(q, o)
             r == RemoveAt(q, p)
  <1>1. p \in 1..Len(q) /\ q[p].obj = o
    BY FirstOfFinds DEF WellFormed
  <1> HIDE DEF p
  <1>2. r \in Seq(Events(O)) /\ IsRemoval(q, p, r)
    BY <1>1, RemoveAtProperties DEF WellFormed, IsRemoval
  <1> HIDE DEF r
  <1>3. Sorted(r) /\ OnePerObject(r) /\ ObjectsOf(r) = ObjectsOf(q) \ {q[p].obj}
    BY <1>1, <1>2, RemovalKeeps DEF WellFormed
  <1> QED BY <1>1, <1>2, <1>3 DEF WellFormed, p, r

\* ov_scheduler_unregister keeps the list well-formed and removes exactly the
\* object, whether or not it had an event.
LEMMA UnregisterKeeps ==
    ASSUME NEW O, NEW q, WellFormed(q, O), NEW o
    PROVE  /\ WellFormed(unregister(q, o), O)
           /\ ObjectsOf(unregister(q, o)) = ObjectsOf(q) \ {o}
  BY RemoveFirstOfKeeps, QueuedObjects DEF unregister

\* ov_scheduler_setabseventtime keeps the list well-formed, with any time, and
\* keeps its objects.
LEMMA SetAbsEventTimeKeeps ==
    ASSUME NEW O, NEW q, WellFormed(q, O), NEW o \in O, NEW t \in Nat
    PROVE  /\ WellFormed(setabseventtime(q, o, t), O)
           /\ ObjectsOf(setabseventtime(q, o, t)) = ObjectsOf(q)
  <1>1. CASE Queued(q, o)
    <2> DEFINE r == RemoveAt(q, FirstOf(q, o))
    <2>1. WellFormed(r, O) /\ ObjectsOf(r) = ObjectsOf(q) \ {o}
      BY <1>1, RemoveFirstOfKeeps
    <2>3. setabseventtime(q, o, t) = insertevent(r, Event(o, t))
      BY <1>1 DEF setabseventtime
    <2> HIDE DEF r
    <2>4. /\ WellFormed(insertevent(r, Event(o, t)), O)
          /\ ObjectsOf(insertevent(r, Event(o, t))) = ObjectsOf(r) \cup {o}
      BY <2>1, InsertEventWellFormed
    <2>5. o \in ObjectsOf(q)
      BY <1>1, QueuedObjects
    <2> QED BY <2>1, <2>3, <2>4, <2>5
  <1>2. CASE ~Queued(q, o)
    BY <1>2 DEF setabseventtime
  <1> QED BY <1>1, <1>2

\* Reinserting the executed head keeps the list well-formed, with any time,
\* and keeps its objects.
LEMMA RequeueHeadKeeps ==
    ASSUME NEW O, NEW q, WellFormed(q, O), q # <<>>, NEW t \in Nat
    PROVE  /\ WellFormed(requeuehead(q, t), O)
           /\ ObjectsOf(requeuehead(q, t)) = ObjectsOf(q)
           /\ Head(q).obj \in ObjectsOf(q) \cap O
  <1> DEFINE r == Tail(q)
             o == Head(q).obj
  <1>0. Len(q) \in Nat \ {0} /\ o = q[1].obj /\ 1 \in 1..Len(q)
    BY LenProperties, EmptySeq DEF WellFormed
  <1>1. /\ r \in Seq(Events(O))
        /\ Len(r) = Len(q) - 1
        /\ \A i \in 1..Len(r) : r[i] = q[i + 1]
    BY HeadTailProperties DEF WellFormed
  <1>2. o \in O /\ o \in ObjectsOf(q)
    BY <1>0, EventsOfList DEF WellFormed, ObjectsOf
  <1> HIDE DEF r
  <1>3. IsRemoval(q, 1, r)
    BY <1>0, <1>1 DEF IsRemoval
  <1>4. Sorted(r) /\ OnePerObject(r) /\ ObjectsOf(r) = ObjectsOf(q) \ {q[1].obj}
    BY <1>0, <1>1, <1>3, RemovalKeeps DEF WellFormed
  <1>5. WellFormed(r, O) /\ o \notin ObjectsOf(r)
    BY <1>0, <1>1, <1>4 DEF WellFormed
  <1>6. requeuehead(q, t) = insertevent(r, Event(o, t))
    BY DEF requeuehead, r
  <1>7. /\ WellFormed(insertevent(r, Event(o, t)), O)
        /\ ObjectsOf(insertevent(r, Event(o, t))) = ObjectsOf(r) \cup {o}
    BY <1>2, <1>5, InsertEventWellFormed
  <1> QED BY <1>0, <1>2, <1>4, <1>6, <1>7

---------------------------------------------------------------------------
(* The list as a set of events, and as a function from objects to times.   *)

\* The places of a list hold exactly its events.
LEMMA RangeOfList ==
    ASSUME NEW O, NEW q \in Seq(Events(O))
    PROVE  /\ Range(q) = {q[i] : i \in 1..Len(q)}
           /\ \A e \in Range(q) : e \in Events(O)
  <1>1. DOMAIN q = 1..Len(q) /\ \A i \in 1..Len(q) : q[i] \in Events(O)
    BY LenProperties, ElementOfSeq
  <1> QED BY <1>1 DEF Range

\* insertevent adds its event to the others, wherever it puts it.
LEMMA InsertEventRange ==
    ASSUME NEW O, NEW q \in Seq(Events(O)), NEW e \in Events(O)
    PROVE  Range(insertevent(q, e)) = Range(q) \cup {e}
  <1>1. PICK p \in 1..(Len(q) + 1) : insertevent(q, e) = InsertAt(q, p, e)
    BY InsertEventPlace
  <1> DEFINE r == InsertAt(q, p, e)
             n == Len(q)
  <1>2. /\ r \in Seq(Events(O)) /\ Len(r) = n + 1 /\ n \in Nat
        /\ \A j \in 1..(n + 1) : r[j] = IF j < p THEN q[j]
                                        ELSE IF j = p THEN e ELSE q[j - 1]
    <2>1. n \in Nat /\ p \in 1..(Len(q) + 1)
      BY <1>1, EventsOfList
    <2> QED BY <2>1, InsertAtProperties
  <1> HIDE DEF r
  <1>3. Range(r) = {r[j] : j \in 1..(n + 1)} /\ Range(q) = {q[j] : j \in 1..n}
    BY <1>2, RangeOfList
  <1>4. ASSUME NEW j \in 1..(n + 1) PROVE r[j] \in Range(q) \cup {e}
    <2>1. CASE j < p
      <3>1. j \in 1..n /\ r[j] = q[j]
        BY <1>1, <1>2, <2>1
      <3> QED BY <1>3, <3>1
    <2>2. CASE j = p
      BY <1>2, <2>2
    <2>3. CASE j > p
      <3>1. j - 1 \in 1..n /\ r[j] = q[j - 1]
        BY <1>1, <1>2, <2>3
      <3> QED BY <1>3, <3>1
    <2> QED BY <1>1, <1>2, <2>1, <2>2, <2>3
  <1>5. ASSUME NEW j \in 1..n PROVE q[j] \in Range(r)
    <2>1. CASE j < p
      <3>1. j \in 1..(n + 1) /\ r[j] = q[j]
        BY <1>1, <1>2, <2>1
      <3> QED BY <1>3, <3>1
    <2>2. CASE j >= p
      <3>1. j + 1 \in 1..(n + 1) /\ r[j + 1] = q[(j + 1) - 1] /\ (j + 1) - 1 = j
        BY <1>1, <1>2, <2>2
      <3> QED BY <1>3, <3>1
    <2> QED BY <1>1, <1>2, <2>1, <2>2
  <1>6. e \in Range(r)
    BY <1>1, <1>2, <1>3
  <1> QED BY <1>1, <1>3, <1>4, <1>5, <1>6 DEF r

\* Of a list with one event for each object, the removal of a place takes
\* exactly its event.
LEMMA RemovalRange ==
    ASSUME NEW O, NEW q \in Seq(Events(O)), OnePerObject(q),
           NEW r \in Seq(Events(O)), NEW p \in 1..Len(q), IsRemoval(q, p, r)
    PROVE  Range(r) = Range(q) \ {q[p]}
  <1> DEFINE n == Len(q)
  <1>1. /\ n \in Nat /\ Len(r) = n - 1
        /\ \A j \in 1..(n - 1) : r[j] = IF j < p THEN q[j] ELSE q[j + 1]
    BY EventsOfList DEF IsRemoval
  <1>2. Range(r) = {r[j] : j \in 1..(n - 1)} /\ Range(q) = {q[j] : j \in 1..n}
    BY <1>1, RangeOfList
  <1>3. \A j \in 1..n : q[j] = q[p] => j = p
    BY DEF OnePerObject
  <1>4. ASSUME NEW j \in 1..(n - 1) PROVE r[j] \in Range(q) \ {q[p]}
    <2>1. CASE j < p
      BY <1>1, <1>2, <1>3, <2>1
    <2>2. CASE j >= p
      <3>1. j + 1 \in 1..n /\ j + 1 # p /\ r[j] = q[j + 1]
        BY <1>1, <2>2
      <3> QED BY <1>2, <1>3, <3>1
    <2> QED BY <1>1, <2>1, <2>2
  <1>5. ASSUME NEW j \in 1..n, j # p PROVE q[j] \in Range(r)
    <2>1. CASE j < p
      <3>1. j \in 1..(n - 1) /\ r[j] = q[j]
        BY <1>1, <2>1
      <3> QED BY <1>2, <3>1
    <2>2. CASE j > p
      <3>1. j - 1 \in 1..(n - 1) /\ ~(j - 1 < p) /\ (j - 1) + 1 = j
        BY <1>1, <2>2
      <3>2. r[j - 1] = q[j]
        BY <1>1, <3>1
      <3> QED BY <1>2, <3>1, <3>2
    <2> QED BY <1>1, <1>5, <2>1, <2>2
  <1> QED BY <1>2, <1>4, <1>5

\* The time of every object that has an event.
TimeOf(q) == [o \in ObjectsOf(q) |-> (CHOOSE e \in Range(q) : e.obj = o).time]

\* TimeOf is a function of the objects of the list.
LEMMA TimeOfFunction ==
    ASSUME NEW q
    PROVE  TimeOf(q) = [o \in ObjectsOf(q) |-> TimeOf(q)[o]]
  BY DEF TimeOf

\* Every object of a well-formed list has exactly one time, that of its event.
LEMMA TimeOfEvent ==
    ASSUME NEW O, NEW q, WellFormed(q, O)
    PROVE  /\ DOMAIN TimeOf(q) = ObjectsOf(q)
           /\ \A e \in Range(q) : e.obj \in ObjectsOf(q) /\ TimeOf(q)[e.obj] = e.time
           /\ \A o \in ObjectsOf(q) :
                /\ TimeOf(q)[o] \in Nat /\ o \in O
                /\ Event(o, TimeOf(q)[o]) \in Range(q)
  <1>1. /\ Range(q) = {q[i] : i \in 1..Len(q)}
        /\ \A e \in Range(q) : e \in Events(O)
    BY RangeOfList DEF WellFormed
  <1>2. \A e, f \in Range(q) : e.obj = f.obj => e = f
    BY <1>1 DEF WellFormed, OnePerObject
  <1>3. ObjectsOf(q) = {e.obj : e \in Range(q)}
    BY <1>1 DEF ObjectsOf
  <1>4. ASSUME NEW e \in Range(q)
        PROVE  e.obj \in ObjectsOf(q) /\ TimeOf(q)[e.obj] = e.time
    <2>1. (CHOOSE f \in Range(q) : f.obj = e.obj) = e
      BY <1>2, <1>4
    <2> QED BY <1>3, <2>1 DEF TimeOf
  <1>5. ASSUME NEW o \in ObjectsOf(q)
        PROVE  /\ TimeOf(q)[o] \in Nat /\ o \in O
               /\ Event(o, TimeOf(q)[o]) \in Range(q)
    <2>1. PICK e \in Range(q) : e.obj = o
      BY <1>3
    <2>2. TimeOf(q)[o] = e.time
      BY <1>4, <2>1
    <2>3. e = Event(o, e.time) /\ e.time \in Nat /\ o \in O
      BY <1>1, <2>1 DEF Event, Events
    <2> QED BY <2>1, <2>2, <2>3
  <1>6. DOMAIN TimeOf(q) = ObjectsOf(q)
    BY DEF TimeOf
  <1> QED BY <1>4, <1>5, <1>6

\* Two well-formed lists that differ by events of one object agree on the times
\* of all others.
LEMMA TimeOfOthers ==
    ASSUME NEW O, NEW q, NEW r, WellFormed(q, O), WellFormed(r, O), NEW o,
           \A e \in Range(q) : e.obj # o => e \in Range(r)
    PROVE  \A p \in ObjectsOf(q) \ {o} : p \in ObjectsOf(r) /\ TimeOf(r)[p] = TimeOf(q)[p]
  <1> SUFFICES ASSUME NEW p \in ObjectsOf(q), p # o
               PROVE  p \in ObjectsOf(r) /\ TimeOf(r)[p] = TimeOf(q)[p]
    OBVIOUS
  <1>1. Event(p, TimeOf(q)[p]) \in Range(q)
    BY TimeOfEvent
  <1>2. Event(p, TimeOf(q)[p]).obj = p /\ Event(p, TimeOf(q)[p]).time = TimeOf(q)[p]
    BY DEF Event
  <1>3. Event(p, TimeOf(q)[p]) \in Range(r)
    BY <1>1, <1>2
  <1> QED BY <1>2, <1>3, TimeOfEvent

\* The events of all objects but one.
OthersOf(q, o) == {e \in Range(q) : e.obj # o}

\* Taking out the first event of an object of a well-formed list leaves
\* exactly the events of the others.
LEMMA RemoveFirstOfRange ==
    ASSUME NEW O, NEW q, WellFormed(q, O), NEW o, Queued(q, o)
    PROVE  Range(RemoveAt(q, FirstOf(q, o))) = OthersOf(q, o)
  <1> DEFINE p == FirstOf(q, o)
             r == RemoveAt(q, p)
  <1>1. p \in 1..Len(q) /\ q[p].obj = o
    BY FirstOfFinds DEF WellFormed
  <1> HIDE DEF p
  <1>2. r \in Seq(Events(O)) /\ IsRemoval(q, p, r)
    BY <1>1, RemoveAtProperties DEF WellFormed, IsRemoval
  <1> HIDE DEF r
  <1>3. Range(r) = Range(q) \ {q[p]}
    BY <1>1, <1>2, RemovalRange DEF WellFormed
  <1>4. \A e \in Range(q) : e.obj = o <=> e = q[p]
    BY <1>1, RangeOfList DEF WellFormed, OnePerObject
  <1> QED BY <1>3, <1>4 DEF OthersOf, p, r

\* ov_scheduler_register adds one event.
LEMMA RegisterRange ==
    ASSUME NEW O, NEW q, WellFormed(q, O), NEW o \in O, NEW t \in Nat
    PROVE  Range(register(q, o, t)) = Range(q) \cup {Event(o, t)}
  <1>1. Event(o, t) \in Events(O)
    BY DEF Event, Events
  <1> QED BY <1>1, InsertEventRange DEF WellFormed, register

\* ov_scheduler_unregister leaves exactly the events of the others.
LEMMA UnregisterRange ==
    ASSUME NEW O, NEW q, WellFormed(q, O), NEW o
    PROVE  Range(unregister(q, o)) = OthersOf(q, o)
  <1>1. CASE Queued(q, o)
    BY <1>1, RemoveFirstOfRange DEF unregister
  <1>2. CASE ~Queued(q, o)
    BY <1>2, RangeOfList DEF unregister, Queued, OthersOf, WellFormed
  <1> QED BY <1>1, <1>2

\* ov_scheduler_setabseventtime replaces the event of a registered object and
\* leaves all others as they are.
LEMMA SetAbsEventTimeRange ==
    ASSUME NEW O, NEW q, WellFormed(q, O), NEW o \in O, NEW t \in Nat,
           o \in ObjectsOf(q)
    PROVE  Range(setabseventtime(q, o, t)) = OthersOf(q, o) \cup {Event(o, t)}
  <1> DEFINE r == RemoveAt(q, FirstOf(q, o))
  <1>1. Queued(q, o)
    BY QueuedObjects
  <1>2. WellFormed(r, O) /\ Range(r) = OthersOf(q, o)
    BY <1>1, RemoveFirstOfKeeps, RemoveFirstOfRange
  <1>3. setabseventtime(q, o, t) = insertevent(r, Event(o, t))
    BY <1>1 DEF setabseventtime
  <1>4. Event(o, t) \in Events(O)
    BY DEF Event, Events
  <1> HIDE DEF r
  <1> QED BY <1>2, <1>3, <1>4, InsertEventRange DEF WellFormed

\* An object without an event is not given one by ov_scheduler_setabseventtime.
LEMMA SetAbsEventTimeNotQueued ==
    ASSUME NEW q, NEW o, NEW t, o \notin ObjectsOf(q)
    PROVE  setabseventtime(q, o, t) = q
  BY QueuedObjects DEF setabseventtime

\* Reinserting the executed head replaces its event and leaves all others.
LEMMA RequeueHeadRange ==
    ASSUME NEW O, NEW q, WellFormed(q, O), q # <<>>, NEW t \in Nat
    PROVE  /\ Range(requeuehead(q, t)) =
                OthersOf(q, Head(q).obj) \cup {Event(Head(q).obj, t)}
           /\ Head(q) \in Range(q)
           /\ \A e \in Range(q) : Head(q).time <= e.time
  <1> DEFINE r == Tail(q)
             o == Head(q).obj
  <1>0. Len(q) \in Nat \ {0} /\ Head(q) = q[1] /\ 1 \in 1..Len(q)
    BY LenProperties, EmptySeq DEF WellFormed
  <1>1. /\ r \in Seq(Events(O))
        /\ Len(r) = Len(q) - 1
        /\ \A i \in 1..Len(r) : r[i] = q[i + 1]
    BY HeadTailProperties DEF WellFormed
  <1>2. Event(o, t) \in Events(O)
    BY <1>0, EventsOfList DEF WellFormed, Event, Events
  <1> HIDE DEF r
  <1>3. IsRemoval(q, 1, r)
    BY <1>0, <1>1 DEF IsRemoval
  <1>4. Range(r) = Range(q) \ {q[1]}
    BY <1>0, <1>1, <1>3, RemovalRange DEF WellFormed
  <1>5. \A e \in Range(q) : e.obj = o <=> e = q[1]
    BY <1>0, RangeOfList DEF WellFormed, OnePerObject
  <1>6. requeuehead(q, t) = insertevent(r, Event(o, t))
    BY DEF requeuehead, r
  <1>7. Range(insertevent(r, Event(o, t))) = Range(r) \cup {Event(o, t)}
    BY <1>1, <1>2, InsertEventRange
  <1>8. Head(q) \in Range(q) /\ \A e \in Range(q) : Head(q).time <= e.time
    BY <1>0, RangeOfList DEF WellFormed, Sorted
  <1> QED BY <1>4, <1>5, <1>6, <1>7, <1>8 DEF OthersOf

---------------------------------------------------------------------------
(* Lists that may hold several events of an object.                        *)

\* An object has at most one event.
Single(q, x) == \A i, j \in 1..Len(q) : q[i].obj = x /\ q[j].obj = x => i = j

\* From list q to list r only events of o have changed.
Touches(q, r, o) ==
    /\ OthersOf(r, o) = OthersOf(q, o)
    /\ \A x : x # o /\ Single(q, x) => Single(r, x)

\* An object is queued when one of the events is its own.
LEMMA QueuedRange ==
    ASSUME NEW O, NEW q \in Seq(Events(O)), NEW o
    PROVE  Queued(q, o) <=> \E e \in Range(q) : e.obj = o
  BY RangeOfList DEF Queued

\* What is not touched stays queued or not, with the same events.
LEMMA TouchesOthers ==
    ASSUME NEW O, NEW q \in Seq(Events(O)), NEW r \in Seq(Events(O)), NEW o, NEW x,
           Touches(q, r, o), x # o
    PROVE  /\ Queued(r, x) <=> Queued(q, x)
           /\ Single(q, x) => Single(r, x)
           /\ \A e \in Range(r) : e.obj = x => e \in Range(q)
  <1>1. \A e : e.obj = x => (e \in Range(r) <=> e \in Range(q))
    BY DEF Touches, OthersOf
  <1> QED BY <1>1, QueuedRange DEF Touches

\* Two steps that touch the same object are one.
LEMMA TouchesTwice ==
    ASSUME NEW q, NEW r, NEW s, NEW o, Touches(q, r, o), Touches(r, s, o)
    PROVE  Touches(q, s, o)
  BY DEF Touches

\* insertevent touches the object of its event only, and gives it its first
\* event or another one.
LEMMA InsertEventTouches ==
    ASSUME NEW O, NEW q \in Seq(Events(O)), NEW o \in O, NEW t \in Nat
    PROVE  /\ insertevent(q, Event(o, t)) \in Seq(Events(O))
           /\ Range(insertevent(q, Event(o, t))) = Range(q) \cup {Event(o, t)}
           /\ Touches(q, insertevent(q, Event(o, t)), o)
           /\ Queued(insertevent(q, Event(o, t)), o)
           /\ ~Queued(q, o) => Single(insertevent(q, Event(o, t)), o)
  <1> DEFINE e == Event(o, t)
             n == Len(q)
  <1>0. e \in Events(O) /\ e.obj = o
    BY DEF Event, Events
  <1> HIDE DEF e
  <1>1. PICK p \in 1..(n + 1) : insertevent(q, e) = InsertAt(q, p, e)
    BY <1>0, InsertEventPlace
  <1> DEFINE r == InsertAt(q, p, e)
  <1>2. /\ r \in Seq(Events(O)) /\ Len(r) = n + 1 /\ n \in Nat
        /\ \A j \in 1..(n + 1) : r[j] = IF j < p THEN q[j]
                                        ELSE IF j = p THEN e ELSE q[j - 1]
    <2>1. n \in Nat
      BY EventsOfList
    <2> QED BY <1>0, <2>1, InsertAtProperties
  <1>3. Range(r) = Range(q) \cup {e}
    BY <1>0, <1>1, InsertEventRange
  <1> HIDE DEF r
  <1> DEFINE old(j) == IF j < p THEN j ELSE j - 1
  <1>4. \A j \in 1..(n + 1) : j # p => old(j) \in 1..n /\ r[j] = q[old(j)]
    BY <1>2
  <1>5. \A i, j \in 1..(n + 1) : i # p /\ j # p /\ old(i) = old(j) => i = j
    BY <1>2
  <1>6. r[p] = e
    BY <1>2
  <1> HIDE DEF old
  <1>7. ASSUME NEW x, x # o, Single(q, x) PROVE Single(r, x)
    <2> SUFFICES ASSUME NEW i \in 1..(n + 1), NEW j \in 1..(n + 1), r[i].obj = x, r[j].obj = x
                 PROVE  i = j
      BY <1>2 DEF Single
    <2>1. i # p /\ j # p
      BY <1>0, <1>6, <1>7
    <2> QED BY <2>1, <1>4, <1>5, <1>7 DEF Single
  <1>8. ASSUME ~Queued(q, o) PROVE Single(r, o)
    <2>1. \A j \in 1..(n + 1) : r[j].obj = o => j = p
      BY <1>4, <1>8 DEF Queued
    <2> QED BY <2>1, <1>2 DEF Single
  <1>9. Queued(r, o)
    BY <1>0, <1>2, <1>6 DEF Queued
  <1>10. OthersOf(r, o) = OthersOf(q, o)
    BY <1>0, <1>3 DEF OthersOf
  <1>11. Touches(q, r, o)
    BY <1>7, <1>10 DEF Touches
  <1>12. insertevent(q, e) = r
    BY <1>1 DEF r
  <1> QED BY <1>2, <1>3, <1>8, <1>9, <1>11, <1>12 DEF e

\* The removal of a place touches its object only, and takes the event of an
\* object that has one.
LEMMA RemovalTouches ==
    ASSUME NEW O, NEW q \in Seq(Events(O)), NEW r \in Seq(Events(O)), NEW p \in 1..Len(q),
           IsRemoval(q, p, r), NEW o, q[p].obj = o
    PROVE  Touches(q, r, o) /\ (Single(q, o) => ~Queued(r, o))
  <1> DEFINE n == Len(q)
  <1>1. /\ n \in Nat /\ Len(r) = n - 1
        /\ \A j \in 1..(n - 1) : r[j] = IF j < p THEN q[j] ELSE q[j + 1]
    BY EventsOfList DEF IsRemoval
  <1>2. Range(r) = {r[j] : j \in 1..(n - 1)} /\ Range(q) = {q[j] : j \in 1..n}
    BY <1>1, RangeOfList
  <1> DEFINE old(j) == IF j < p THEN j ELSE j + 1
  <1>3. \A j \in 1..(n - 1) : old(j) \in 1..n /\ old(j) # p /\ r[j] = q[old(j)]
    BY <1>1
  <1>4. \A i, j \in 1..(n - 1) : old(i) = old(j) => i = j
    BY <1>1
  <1>5. ASSUME NEW i \in 1..n, i # p PROVE \E j \in 1..(n - 1) : old(j) = i
    <2>1. CASE i < p
      <3>1. i \in 1..(n - 1) /\ old(i) = i
        BY <1>1, <2>1
      <3> QED BY <3>1
    <2>2. CASE i > p
      <3>1. i - 1 \in 1..(n - 1) /\ old(i - 1) = i
        BY <1>1, <2>2
      <3> QED BY <3>1
    <2> QED BY <1>1, <1>5, <2>1, <2>2
  <1> HIDE DEF old
  <1>6. ASSUME NEW x, Single(q, x) PROVE Single(r, x)
    <2> SUFFICES ASSUME NEW i \in 1..(n - 1), NEW j \in 1..(n - 1), r[i].obj = x, r[j].obj = x
                 PROVE  i = j
      BY <1>1 DEF Single
    <2> QED BY <1>3, <1>4, <1>6 DEF Single
  <1>7. OthersOf(r, o) = OthersOf(q, o)
    <2>1. \A e \in Range(r) : e \in Range(q)
      BY <1>2, <1>3
    <2>2. \A i \in 1..n : i # p => q[i] \in Range(r)
      BY <1>2, <1>3, <1>5
    <2>3. \A e \in Range(q) : e.obj # o => e \in Range(r)
      BY <1>2, <2>2
    <2> QED BY <2>1, <2>3 DEF OthersOf
  <1>8. ASSUME Single(q, o) PROVE ~Queued(r, o)
    <2> SUFFICES ASSUME NEW j \in 1..(n - 1), r[j].obj = o PROVE FALSE
      BY <1>1 DEF Queued
    <2> QED BY <1>3, <1>8 DEF Single
  <1> QED BY <1>6, <1>7, <1>8 DEF Touches

\* A removal behind FirstOf is one of a place.
LEMMA RemoveFirstOfTouches ==
    ASSUME NEW O, NEW q \in Seq(Events(O)), NEW o, Queued(q, o)
    PROVE  /\ RemoveAt(q, FirstOf(q, o)) \in Seq(Events(O))
           /\ Touches(q, RemoveAt(q, FirstOf(q, o)), o)
           /\ Single(q, o) => ~Queued(RemoveAt(q, FirstOf(q, o)), o)
  <1> DEFINE p == FirstOf(q, o)
             r == RemoveAt(q, p)
  <1>1. p \in 1..Len(q) /\ q[p].obj = o
    BY FirstOfFinds
  <1> HIDE DEF p
  <1>2. r \in Seq(Events(O)) /\ IsRemoval(q, p, r)
    BY <1>1, RemoveAtProperties DEF IsRemoval
  <1> HIDE DEF r
  <1>3. Touches(q, r, o) /\ (Single(q, o) => ~Queued(r, o))
    BY <1>1, <1>2, RemovalTouches
  <1> QED BY <1>2, <1>3 DEF p, r

\* A list without changes touches nothing.
LEMMA TouchesNothing ==
    ASSUME NEW q, NEW o
    PROVE  Touches(q, q, o)
  BY DEF Touches

\* ov_scheduler_register gives the object another event, or its only one.
LEMMA RegisterTouches ==
    ASSUME NEW O, NEW q \in Seq(Events(O)), NEW o \in O, NEW t \in Nat
    PROVE  /\ register(q, o, t) \in Seq(Events(O)) /\ Touches(q, register(q, o, t), o)
           /\ Queued(register(q, o, t), o)
           /\ ~Queued(q, o) => Single(register(q, o, t), o)
  BY InsertEventTouches DEF register

\* ov_scheduler_unregister takes an event of the object, if it has any.
LEMMA UnregisterTouches ==
    ASSUME NEW O, NEW q \in Seq(Events(O)), NEW o
    PROVE  /\ unregister(q, o) \in Seq(Events(O)) /\ Touches(q, unregister(q, o), o)
           /\ Single(q, o) => ~Queued(unregister(q, o), o)
  BY RemoveFirstOfTouches, TouchesNothing DEF unregister

\* ov_scheduler_setabseventtime moves an event of the object, if it has any.
LEMMA SetAbsEventTimeTouches ==
    ASSUME NEW O, NEW q \in Seq(Events(O)), NEW o \in O, NEW t \in Nat
    PROVE  /\ setabseventtime(q, o, t) \in Seq(Events(O))
           /\ Touches(q, setabseventtime(q, o, t), o)
           /\ Queued(setabseventtime(q, o, t), o) <=> Queued(q, o)
           /\ Single(q, o) => /\ Single(setabseventtime(q, o, t), o)
                              /\ \A e \in Range(setabseventtime(q, o, t)) : e.obj = o => e.time = t
  <1>1. CASE Queued(q, o)
    <2> DEFINE r == RemoveAt(q, FirstOf(q, o))
               s == insertevent(r, Event(o, t))
    <2>1. r \in Seq(Events(O)) /\ Touches(q, r, o) /\ (Single(q, o) => ~Queued(r, o))
      BY <1>1, RemoveFirstOfTouches
    <2> HIDE DEF r
    <2>2. /\ s \in Seq(Events(O)) /\ Touches(r, s, o) /\ Queued(s, o)
          /\ ~Queued(r, o) => Single(s, o)
      BY <2>1, InsertEventTouches
    <2>r. Range(s) = Range(r) \cup {Event(o, t)}
      BY <2>1, InsertEventTouches
    <2>3. setabseventtime(q, o, t) = s
      BY <1>1 DEF setabseventtime, r
    <2> HIDE DEF s
    <2>4. Touches(q, s, o)
      BY <2>1, <2>2, TouchesTwice
    <2>5. Single(q, o) => \A e \in Range(s) : e.obj = o => e.time = t
      <3>1. Single(q, o) => \A e \in Range(r) : e.obj # o
        BY <2>1, QueuedRange
      <3>2. Event(o, t).time = t
        BY DEF Event
      <3> QED BY <2>r, <3>1, <3>2
    <2> QED BY <1>1, <2>1, <2>2, <2>3, <2>4, <2>5
  <1>2. CASE ~Queued(q, o)
    <2>1. setabseventtime(q, o, t) = q
      BY <1>2 DEF setabseventtime
    <2>2. \A e \in Range(q) : e.obj # o
      BY <1>2, QueuedRange
    <2> QED BY <2>1, <2>2, TouchesNothing
  <1> QED BY <1>1, <1>2

\* Reinserting the executed head touches its object only.
LEMMA RequeueHeadTouches ==
    ASSUME NEW O, NEW q \in Seq(Events(O)), q # <<>>, NEW t \in Nat
    PROVE  /\ Head(q).obj \in O /\ Head(q) \in Range(q) /\ Queued(q, Head(q).obj)
           /\ requeuehead(q, t) \in Seq(Events(O))
           /\ Touches(q, requeuehead(q, t), Head(q).obj)
           /\ Queued(requeuehead(q, t), Head(q).obj)
           /\ Single(q, Head(q).obj) => Single(requeuehead(q, t), Head(q).obj)
  <1> DEFINE r == Tail(q)
             o == Head(q).obj
             s == insertevent(r, Event(o, t))
  <1>0. Len(q) \in Nat \ {0} /\ Head(q) = q[1] /\ 1 \in 1..Len(q)
    BY LenProperties, EmptySeq
  <1>1. /\ r \in Seq(Events(O)) /\ Len(r) = Len(q) - 1
        /\ \A i \in 1..Len(r) : r[i] = q[i + 1]
    BY HeadTailProperties
  <1>2. o \in O /\ q[1].obj = o /\ Head(q) \in Range(q) /\ Queued(q, o)
    BY <1>0, EventsOfList, RangeOfList DEF Queued
  <1>3. requeuehead(q, t) = s
    BY DEF requeuehead
  <1> HIDE DEF r, o
  <1>4. IsRemoval(q, 1, r)
    BY <1>0, <1>1 DEF IsRemoval
  <1>5. Touches(q, r, o) /\ (Single(q, o) => ~Queued(r, o))
    BY <1>0, <1>1, <1>2, <1>4, RemovalTouches
  <1>6. /\ s \in Seq(Events(O)) /\ Touches(r, s, o) /\ Queued(s, o)
        /\ ~Queued(r, o) => Single(s, o)
    BY <1>1, <1>2, InsertEventTouches
  <1> HIDE DEF s
  <1>7. Touches(q, s, o)
    BY <1>5, <1>6, TouchesTwice
  <1> QED BY <1>2, <1>3, <1>5, <1>6, <1>7 DEF o
===========================================================================
