----------------------------- MODULE TimeArith -----------------------------
(***************************************************************************)
(* The arithmetic on times and time spans.  The other modules count time   *)
(* in numbers; here a time is what it is in the code, two unsigned words of *)
(* 32 bits, and a span is two signed ones.                                 *)
(***************************************************************************)
EXTENDS Integers

CONSTANTS
    Second,           \* the microseconds of a second, 1000000
    Half              \* half the range of OV_UINT and OV_INT, 2^31

Word == 2 * Half

ASSUME WidthAssumption ==
    /\ Second \in Nat /\ Half \in Nat
    /\ 1 < Second /\ 2 * Second <= Half

\* The conversions to OV_UINT and to OV_INT.
OV_UINT(x) == x % Word
OV_INT(x) == IF OV_UINT(x) < Half THEN OV_UINT(x) ELSE OV_UINT(x) - Word

\* The sum of a time and a span, corrected by one second at most.
ov_time_add(t, s) ==
    LET secs == OV_UINT(t.secs + s.secs)
        usecs == OV_UINT(t.usecs + s.usecs)
    IN  IF OV_INT(usecs) > Second - 1
        THEN [secs |-> OV_UINT(secs + 1), usecs |-> OV_UINT(usecs - Second)]
        ELSE IF OV_INT(usecs) < 0
        THEN [secs |-> OV_UINT(secs - 1), usecs |-> OV_UINT(usecs + Second)]
        ELSE [secs |-> secs, usecs |-> usecs]

\* The difference of two times; its parts do not differ in sign.
ov_time_diff(a, b) ==
    LET secs == OV_INT(a.secs - b.secs)
        usecs == OV_INT(a.usecs - b.usecs)
    IN  IF secs > 0 /\ usecs < 0
        THEN [secs |-> secs - 1, usecs |-> usecs + Second]
        ELSE IF secs < 0 /\ usecs > 0
        THEN [secs |-> secs + 1, usecs |-> usecs - Second]
        ELSE [secs |-> secs, usecs |-> usecs]

\* -1, 0 and 1 are OV_TIMECMP_BEFORE, OV_TIMECMP_EQUAL and OV_TIMECMP_AFTER.
ov_time_compare(a, b) ==
    IF a.secs > b.secs THEN 1
    ELSE IF a.secs < b.secs THEN -1
    ELSE IF a.usecs > b.usecs THEN 1
    ELSE IF a.usecs < b.usecs THEN -1
    ELSE 0

---------------------------------------------------------------------------
(* What the operations are measured against: numbers of microseconds.      *)

Micros(t) == t.secs * Second + t.usecs

\* The times that gettimeofday gives.
NormalTime == [secs : 0..(Word - 1), usecs : 0..(Second - 1)]

\* Spans with less than a second of microseconds, of either sign.
NormalSpan == [secs : (-Half)..(Half - 1), usecs : (1 - Second)..(Second - 1)]

\* Times whose difference a span can hold.
Near(a, b) == a.secs - b.secs \in (1 - Half)..(Half - 1)

\* A span whose parts do not differ in sign.
SameSign(s) == (s.secs > 0 => s.usecs >= 0) /\ (s.secs < 0 => s.usecs <= 0)

===========================================================================
