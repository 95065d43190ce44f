----------------------------- MODULE Supervise -----------------------------
(***************************************************************************)
(* The supervision of user functions (libov/ov_supervise.c, Unix build)    *)
(* and its two callers: fb_functionblock_execTypeMethod of the function    *)
(* block library and the execute methods of tasklib.  A caller sets a jump *)
(* buffer in its own stack frame, starts the supervision, calls the user's *)
(* function (which may call further supervised functions) and ends the     *)
(* supervision.  SIGALRM aborts the function by a jump into the frame that *)
(* the static variable pjmpbuf points at, so the stack of frames is part   *)
(* of the state.  The signal is asynchronous: it may come between any two  *)
(* statements of ov_supervise_start.                                       *)
(***************************************************************************)
EXTENDS Integers, Sequences

CONSTANTS
    Callers,          \* which callers occur: subset of {"block", "task"}
    Timeouts,         \* durations they ask for; a negative one is refused
    MaxDepth          \* nesting of calls (bound)

ASSUME CallersAssumption == Callers \subseteq {"block", "task"}
ASSUME TimeoutsAssumption == Timeouts \subseteq Int
ASSUME DepthAssumption == MaxDepth \in Nat

VARIABLES
    stack,            \* frames of the callers, the innermost one last
    supervise,        \* static OV_BOOL supervise
    pjmpbuf,          \* static OV_JUMPBUFFER *pjmpbuf: the index of a frame
    timer,            \* ITIMER_REAL: ticks left, Disarmed, or 0 = expired
    handler,          \* disposition of SIGALRM
    alive             \* FALSE once SIGALRM has killed the process

vars == <<stack, supervise, pjmpbuf, timer, handler, alive>>

Disarmed == -1
NoFrame == 0
Top == Len(stack)

\* Where a caller is: before ov_supervise_start, behind its setitimer, behind
\* its signal, in the user's function, or in the branch of the jump.
Places == {"start", "armed", "handled", "body", "aborted"}
Frames == [caller : Callers, timeout : Timeouts, supervised : BOOLEAN,
           started : BOOLEAN, spent : Nat, pc : Places]

At(place) == alive /\ stack # <<>> /\ stack[Top].pc = place

Goto(place) == stack' = [stack EXCEPT ![Top].pc = place]

Init ==
    /\ stack = <<>>
    /\ supervise = FALSE
    /\ pjmpbuf = NoFrame
    /\ timer = Disarmed
    /\ handler = "default"
    /\ alive = TRUE

---------------------------------------------------------------------------
\* A function block is supervised when maxcalctime is positive, a task when
\* its flag says so, whatever its cycle time is.
MaySupervise(caller, timeout) ==
    IF caller = "block" THEN {timeout > 0} ELSE BOOLEAN

Call(caller, timeout) ==
    /\ stack = <<>> \/ At("body")
    /\ alive /\ Top < MaxDepth
    /\ \E s \in MaySupervise(caller, timeout) :
        stack' = Append(stack,
            [caller |-> caller, timeout |-> timeout, supervised |-> s,
             started |-> FALSE, spent |-> 0,
             pc |-> IF s THEN "start" ELSE "body"])
    /\ UNCHANGED <<supervise, pjmpbuf, timer, handler, alive>>

\* The supervision is not reentrant: a second start returns FALSE, and both
\* callers go on with the user's function.
StartRefused_BufferSet ==
    /\ At("start") /\ supervise
    /\ Goto("body")
    /\ pjmpbuf' = Top
    /\ UNCHANGED <<supervise, timer, handler, alive>>

StartRefused ==
    /\ At("start") /\ supervise
    /\ Goto("body")
    /\ UNCHANGED <<supervise, pjmpbuf, timer, handler, alive>>

\* A timeout of zero disarms the timer; a negative one makes setitimer fail,
\* and start returns FALSE when pjmpbuf is already set.
SetTimer ==
    /\ At("start") /\ ~supervise
    /\ pjmpbuf' = Top
    /\ IF stack[Top].timeout < 0
       THEN Goto("body") /\ UNCHANGED timer
       ELSE /\ Goto("armed")
            /\ timer' = IF stack[Top].timeout = 0 THEN Disarmed
                        ELSE stack[Top].timeout
    /\ UNCHANGED <<supervise, handler, alive>>

InstallHandler ==
    /\ At("armed")
    /\ Goto("handled")
    /\ handler' = "jump"
    /\ UNCHANGED <<supervise, pjmpbuf, timer, alive>>

StartReturns ==
    /\ At("handled")
    /\ stack' = [stack EXCEPT ![Top].pc = "body", ![Top].started = TRUE]
    /\ supervise' = TRUE
    /\ UNCHANGED <<pjmpbuf, timer, handler, alive>>

\* ov_supervise_end.
supervise_end ==
    IF supervise
    THEN supervise' = FALSE /\ timer' = Disarmed /\ handler' = "ignore"
    ELSE UNCHANGED <<supervise, timer, handler>>

\* The user's function returns (or its exception is caught).  A function block
\* ends the supervision if its own start succeeded; a task always does.
EndsSupervision_Always(f) == f.supervised
EndsSupervision_Never(f) == FALSE
EndsSupervision(f) == f.supervised /\ (f.caller = "block" => f.started)

Return ==
    /\ At("body")
    /\ stack' = SubSeq(stack, 1, Top - 1)
    /\ IF EndsSupervision(stack[Top])
       THEN supervise_end
       ELSE UNCHANGED <<supervise, timer, handler>>
    /\ UNCHANGED <<pjmpbuf, alive>>

\* The caller handles the abort (actimode off, ErrState set) and returns.
ReturnAborted ==
    /\ At("aborted")
    /\ stack' = SubSeq(stack, 1, Top - 1)
    /\ UNCHANGED <<supervise, pjmpbuf, timer, handler, alive>>

---------------------------------------------------------------------------
\* Time passes, for the timer and for every function on the stack (the time that
\* a function has spent is counted up to its timeout).
Tick ==
    /\ alive /\ stack # <<>>
    /\ timer > 0 \/ \E i \in 1..Top : stack[i].spent < stack[i].timeout
    /\ timer' = IF timer > 0 THEN timer - 1 ELSE timer
    /\ stack' = [i \in 1..Top |->
                    [stack[i] EXCEPT !.spent =
                        IF @ < stack[i].timeout THEN @ + 1 ELSE @]]
    /\ UNCHANGED <<supervise, pjmpbuf, handler, alive>>

\* SIGALRM is delivered; ov_supervise_signalhandler jumps only when
\* ov_supervise_end has found the supervision running.
Jumps_TopOnly == handler = "jump" /\ supervise /\ pjmpbuf = Top
Jumps == handler = "jump" /\ supervise

Alarm ==
    /\ alive /\ timer = 0
    /\ timer' = Disarmed
    /\ alive' = (handler # "default")
    /\ IF Jumps
       THEN /\ supervise' = FALSE /\ handler' = "ignore"
            /\ stack' = [SubSeq(stack, 1, pjmpbuf) EXCEPT ![pjmpbuf].pc = "aborted"]
       ELSE UNCHANGED <<supervise, handler, stack>>
    /\ UNCHANGED pjmpbuf

Next ==
    \/ \E c \in Callers, t \in Timeouts : Call(c, t)
    \/ StartRefused \/ SetTimer \/ InstallHandler \/ StartReturns
    \/ Return \/ ReturnAborted
    \/ Tick \/ Alarm

Spec == Init /\ [][Next]_vars

\* The thread goes on and time passes; a user's function need not return.
Fairness ==
    /\ WF_vars(StartRefused) /\ WF_vars(SetTimer) /\ WF_vars(InstallHandler)
    /\ WF_vars(StartReturns) /\ WF_vars(ReturnAborted)
    /\ WF_vars(Tick) /\ WF_vars(Alarm)

FairSpec == Spec /\ Fairness

---------------------------------------------------------------------------
\* The stack, the static variables and the timer have their values.
TypeOK ==
    /\ stack \in Seq(Frames) /\ Top <= MaxDepth
    /\ supervise \in BOOLEAN
    /\ pjmpbuf \in 0..MaxDepth
    /\ timer \in Nat \cup {Disarmed}
    /\ handler \in {"default", "ignore", "jump"}
    /\ alive \in BOOLEAN

\* While the supervision runs, pjmpbuf points at a frame that is still on the
\* stack and is in the function it supervises: the jump of the handler never
\* goes into a frame that has returned.
JumpTargetLive ==
    supervise => /\ pjmpbuf \in 1..Top
                 /\ stack[pjmpbuf].started /\ stack[pjmpbuf].pc = "body"

\* A function is aborted by its own timeout only: however starts were refused
\* and supervisions ended in between, the frame jumped to has used up the time
\* it asked for.
AbortedByOwnTimeout ==
    \A i \in 1..Top :
        stack[i].pc = "aborted" => /\ stack[i].timeout > 0
                                   /\ stack[i].spent >= stack[i].timeout

\* "Using this mechanism, the duration of execution of a certain function is
\* limited" (ov_supervise.h:35): a function whose supervision was started stays
\* supervised until it returns, whatever it calls.
StaysSupervised ==
    \A i \in 1..Top : stack[i].started /\ stack[i].pc = "body" => supervise

\* A nested call never ends the supervision of a function block that goes on,
\* except the return of a task (see StaysSupervised): neither a refused start nor
\* a failed one, nor the return or the abort of a nested block.
EndedByOwnerOnly ==
    [][supervise /\ ~supervise'
        => \/ Len(stack') < pjmpbuf
           \/ stack'[pjmpbuf].pc = "aborted"
           \/ stack[Top].caller = "task"]_vars

Limited(i) ==
    /\ alive /\ i <= Top
    /\ stack[i].started /\ stack[i].timeout > 0 /\ stack[i].pc = "body"

\* "But if there is a time out, the function will be aborted" (ov_supervise.h:40):
\* a supervised function whose timer is running returns or is aborted, however
\* deep it has called further supervised functions.  (The timer of a function may
\* be spent before its supervision is on: ov_supervise_start arms it first.)
ArmedTimeoutAborts ==
    \A i \in 1..MaxDepth :
        Limited(i) /\ supervise /\ pjmpbuf = i /\ timer # Disarmed
            ~> ~Limited(i) \/ ~supervise
===========================================================================
