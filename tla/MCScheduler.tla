---------------------------- MODULE MCScheduler ----------------------------
(* Scheduler on a small instance.  The arithmetic that lets it count time  *)
(* in numbers is evaluated on words of few bits.                           *)
EXTENDS Scheduler, TimeArith

ASSUME AddOnWords ==
    \A t \in NormalTime, s \in NormalSpan :
        LET n == Micros(t) + Micros(s) IN
        n \in 0..(Word * Second - 1) =>
            /\ ov_time_add(t, s) \in NormalTime
            /\ Micros(ov_time_add(t, s)) = n

ASSUME DiffOnWords ==
    \A a, b \in NormalTime :
        Near(a, b) =>
            /\ ov_time_diff(a, b) \in NormalSpan
            /\ SameSign(ov_time_diff(a, b))
            /\ Micros(ov_time_diff(a, b)) = Micros(a) - Micros(b)
            /\ ov_time_add(b, ov_time_diff(a, b)) = a
===========================================================================
