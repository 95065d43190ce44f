--------------------------- MODULE AsyncProofs ----------------------------
(***************************************************************************)
(* The two places where control comes from outside the server loop.  First *)
(* the signal: the safety of the jump out of a supervised function, for    *)
(* any nesting, any timeouts and both kinds of caller.  Then the other     *)
(* threads: the list between the main thread and the workers of the TCP    *)
(* binding, for any number of elements and channels.                       *)
(***************************************************************************)
EXTENDS Supervise, AresWorker, SequenceTheorems, TLAPS

\* ov_supervise_start has set the timer and not yet returned.
Starting == stack # <<>> /\ stack[Top].pc \in {"armed", "handled"}

\* All callers but the innermost one are in the functions they called, and only
\* supervised ones start the supervision.
StackInv ==
    /\ \A i \in 1..Top : i # Top => stack[i].pc = "body"
    /\ \A i \in 1..Top :
        stack[i].started \/ stack[i].pc \in {"start", "armed", "handled"}
            => stack[i].supervised

\* While a start is under way, pjmpbuf is set and the flag is not.
StartInv == Starting => pjmpbuf = Top /\ ~supervise

\* A running timer belongs to the frame that pjmpbuf points at: together with the
\* time that the frame has spent it makes up the timeout of that frame.
TimerInv ==
    timer # Disarmed =>
        /\ supervise \/ Starting
        /\ pjmpbuf \in 1..Top
        /\ stack[pjmpbuf].timeout > 0
        /\ timer + stack[pjmpbuf].spent >= stack[pjmpbuf].timeout

\* The inductive invariant.  JumpTargetLive needs StackInv, because the return of
\* the frame jumped to ends the supervision only if it was supervised, and StartInv
\* for the step that sets the flag; AbortedByOwnTimeout needs TimerInv.
SupInv ==
    TypeOK /\ StackInv /\ StartInv /\ TimerInv /\ JumpTargetLive /\ AbortedByOwnTimeout

---------------------------------------------------------------------------
(* The stack of frames.                                                    *)

\* Frames in the stack are frames.
LEMMA StackFrames ==
    ASSUME stack \in Seq(Frames)
    PROVE  /\ Top \in Nat /\ (stack # <<>> => Top \in 1..Top)
           /\ \A i \in 1..Top :
                /\ stack[i] \in Frames
                /\ stack[i].timeout \in Timeouts /\ stack[i].timeout \in Int
                /\ stack[i].spent \in Nat /\ stack[i].pc \in Places
                /\ stack[i].caller \in Callers
                /\ stack[i].started \in BOOLEAN /\ stack[i].supervised \in BOOLEAN
  <1>1. Top \in Nat /\ (stack # <<>> => Top \in Nat \ {0})
    BY EmptySeq, LenProperties DEF Top
  <1>2. \A i \in 1..Top : stack[i] \in Frames
    BY ElementOfSeq DEF Top
  <1>3. \A f \in Frames : /\ f.timeout \in Timeouts /\ f.spent \in Nat
                          /\ f.pc \in Places /\ f.caller \in Callers
                          /\ f.started \in BOOLEAN /\ f.supervised \in BOOLEAN
    BY DEF Frames
  <1>4. stack # <<>> => Top \in 1..Top
    BY <1>1
  <1>5. \A i \in 1..Top : stack[i].timeout \in Int
    BY <1>2, <1>3, TimeoutsAssumption
  <1> QED BY <1>1, <1>2, <1>3, <1>4, <1>5

\* A change of the innermost frame leaves the others alone.
LEMMA ChangeTop ==
    ASSUME stack \in Seq(Frames), stack # <<>>, NEW g \in Frames,
           stack' = [stack EXCEPT ![Top] = g]
    PROVE  /\ stack' \in Seq(Frames) /\ Top' = Top /\ stack' # <<>>
           /\ stack'[Top] = g
           /\ \A i \in 1..Top : i # Top => stack'[i] = stack[i]
  <1>1. Top \in 1..Len(stack) /\ Top = Len(stack)
    BY StackFrames DEF Top
  <1>2. /\ stack' \in Seq(Frames) /\ Len(stack') = Len(stack)
        /\ \A i \in 1..Len(stack) : stack'[i] = IF i = Top THEN g ELSE stack[i]
    BY <1>1, ExceptSeq
  <1>3. stack' # <<>>
    BY <1>1, <1>2, EmptySeq
  <1> QED BY <1>1, <1>2, <1>3 DEF Top

\* Goto changes the place of the innermost frame.
LEMMA GotoTop ==
    ASSUME stack \in Seq(Frames), stack # <<>>, NEW place \in Places, Goto(place)
    PROVE  /\ stack' \in Seq(Frames) /\ Top' = Top /\ stack' # <<>>
           /\ stack'[Top].pc = place
           /\ stack'[Top].caller = stack[Top].caller
           /\ stack'[Top].timeout = stack[Top].timeout
           /\ stack'[Top].spent = stack[Top].spent
           /\ stack'[Top].started = stack[Top].started
           /\ stack'[Top].supervised = stack[Top].supervised
           /\ \A i \in 1..Top : i # Top => stack'[i] = stack[i]
  <1> DEFINE g == [stack[Top] EXCEPT !.pc = place]
  <1>1. stack[Top] \in Frames
    BY StackFrames
  <1>2. /\ g \in Frames /\ g.pc = place /\ g.caller = stack[Top].caller
        /\ g.timeout = stack[Top].timeout /\ g.spent = stack[Top].spent
        /\ g.started = stack[Top].started /\ g.supervised = stack[Top].supervised
    BY <1>1 DEF Frames
  <1>3. stack' = [stack EXCEPT ![Top] = g]
    BY DEF Goto
  <1> HIDE DEF g
  <1>4. /\ stack' \in Seq(Frames) /\ Top' = Top /\ stack' # <<>>
        /\ stack'[Top] = g
        /\ \A i \in 1..Top : i # Top => stack'[i] = stack[i]
    BY <1>2, <1>3, ChangeTop
  <1> QED BY <1>2, <1>4

\* Popping leaves the frames below.
LEMMA Cut ==
    ASSUME stack \in Seq(Frames), NEW n \in 0..Top
    PROVE  /\ SubSeq(stack, 1, n) \in Seq(Frames) /\ Len(SubSeq(stack, 1, n)) = n
           /\ \A i \in 1..n : SubSeq(stack, 1, n)[i] = stack[i]
  <1>1. \A i \in 1..n : stack[i] \in Frames
    BY StackFrames
  <1>2. /\ SubSeq(stack, 1, n) \in Seq(Frames)
        /\ Len(SubSeq(stack, 1, n)) = IF 1 <= n THEN n - 1 + 1 ELSE 0
        /\ \A i \in 1..(n - 1 + 1) : SubSeq(stack, 1, n)[i] = stack[1 + i - 1]
    BY <1>1, SubSeqProperties
  <1>3. n \in Nat
    BY StackFrames
  <1> QED BY <1>2, <1>3

---------------------------------------------------------------------------
\* At the start of the process nothing is supervised.
LEMMA SupInit == Init => SupInv
  <1> SUFFICES ASSUME Init PROVE SupInv
    OBVIOUS
  <1>1. stack \in Seq(Frames) /\ Top = 0 /\ stack = <<>>
    BY EmptySeq DEF Init, Top
  <1>2. TypeOK
    <2>1. Top <= MaxDepth /\ pjmpbuf \in 0..MaxDepth
      BY <1>1, DepthAssumption DEF Init, NoFrame
    <2> QED BY <1>1, <2>1 DEF Init, TypeOK
  <1>3. StackInv /\ StartInv /\ JumpTargetLive /\ AbortedByOwnTimeout
    BY <1>1 DEF Init, StackInv, StartInv, Starting, JumpTargetLive, AbortedByOwnTimeout
  <1>4. TimerInv
    BY DEF Init, TimerInv
  <1> QED BY <1>2, <1>3, <1>4 DEF SupInv

---------------------------------------------------------------------------
\* A refused start changes only the place of the innermost frame.
LEMMA StartRefusedKeeps ==
    ASSUME SupInv, StartRefused
    PROVE  SupInv'
  <1>1. stack \in Seq(Frames) /\ stack # <<>> /\ "body" \in Places
    BY DEF SupInv, TypeOK, StartRefused, At, Places
  <1>2. /\ stack' \in Seq(Frames) /\ Top' = Top /\ stack' # <<>>
        /\ stack'[Top].pc = "body"
        /\ stack'[Top].caller = stack[Top].caller
        /\ stack'[Top].timeout = stack[Top].timeout
        /\ stack'[Top].spent = stack[Top].spent
        /\ stack'[Top].started = stack[Top].started
        /\ stack'[Top].supervised = stack[Top].supervised
        /\ \A i \in 1..Top : i # Top => stack'[i] = stack[i]
    BY <1>1, GotoTop DEF StartRefused
  <1>3. TypeOK'
    BY <1>2 DEF SupInv, TypeOK, StartRefused
  <1>4. StackInv' /\ StartInv'
    BY <1>2 DEF SupInv, StackInv, StartInv, Starting, StartRefused
  <1>5. TimerInv'
    BY <1>2 DEF SupInv, TimerInv, StartRefused
  <1>6. JumpTargetLive' /\ AbortedByOwnTimeout'
    BY <1>2 DEF SupInv, JumpTargetLive, AbortedByOwnTimeout, StartRefused
  <1> QED BY <1>3, <1>4, <1>5, <1>6 DEF SupInv

\* A function over an initial segment of the naturals is a sequence.
LEMMA SeqOfFunction ==
    ASSUME NEW S, NEW n \in Nat, NEW f \in [1..n -> S]
    PROVE  f \in Seq(S) /\ Len(f) = n
  OBVIOUS

\* A call pushes a frame that is not supervised yet.
LEMMA CallKeeps ==
    ASSUME SupInv, NEW c \in Callers, NEW d \in Timeouts, Call(c, d)
    PROVE  SupInv'
  <1>0. stack \in Seq(Frames) /\ Top \in Nat /\ Top < MaxDepth
    BY StackFrames DEF SupInv, TypeOK, Call
  <1>1. PICK s \in BOOLEAN :
            stack' = Append(stack, [caller |-> c, timeout |-> d, supervised |-> s,
                                    started |-> FALSE, spent |-> 0,
                                    pc |-> IF s THEN "start" ELSE "body"])
    <2>1. MaySupervise(c, d) \subseteq BOOLEAN
      <3>1. CASE d > 0
        <4>1. (d > 0) = TRUE
          BY <3>1
        <4> QED BY <4>1 DEF MaySupervise
      <3>2. CASE ~(d > 0)
        <4>1. (d > 0) = FALSE
          BY <3>2
        <4> QED BY <4>1 DEF MaySupervise
      <3> QED BY <3>1, <3>2
    <2> QED BY <2>1 DEF Call
  <1> DEFINE g == [caller |-> c, timeout |-> d, supervised |-> s, started |-> FALSE,
                   spent |-> 0, pc |-> IF s THEN "start" ELSE "body"]
  <1>2. /\ g \in Frames /\ g.pc \in {"start", "body"} /\ ~g.started
        /\ g.pc = "start" => g.supervised
    BY DEF Frames, Places
  <1>3. stack' = Append(stack, g)
    BY <1>1
  <1> HIDE DEF g
  <1>4. /\ stack' \in Seq(Frames) /\ Top' = Top + 1 /\ stack' # <<>>
        /\ stack'[Top + 1] = g /\ \A i \in 1..Top : stack'[i] = stack[i]
    BY <1>0, <1>2, <1>3, AppendProperties DEF Top
  <1>5. \A i \in 1..Top : stack[i].pc = "body"
    <2>1. CASE Top = 0
      BY <2>1
    <2>2. CASE stack # <<>> /\ stack[Top].pc = "body"
      BY <2>2 DEF SupInv, StackInv
    <2>3. stack = <<>> => Top = 0
      BY EmptySeq DEF Top
    <2> QED BY <2>1, <2>2, <2>3 DEF Call, At
  <1>6. ~Starting
    BY <1>0, <1>5, StackFrames DEF Starting
  <1>7. TypeOK'
    <2>1. Top' <= MaxDepth
      BY <1>0, <1>4, DepthAssumption
    <2> QED BY <1>4, <2>1 DEF SupInv, TypeOK, Call
  <1>8. StackInv'
    <2>1. \A i \in 1..(Top + 1) : i # Top + 1 => i \in 1..Top
      BY <1>0
    <2>2. \A i \in 1..(Top + 1) : i # Top + 1 => stack'[i].pc = "body"
      BY <2>1, <1>4, <1>5
    <2>3. \A i \in 1..(Top + 1) :
            stack'[i].started \/ stack'[i].pc \in {"start", "armed", "handled"}
                => stack'[i].supervised
      BY <2>1, <1>2, <1>4 DEF SupInv, StackInv
    <2> QED BY <2>2, <2>3, <1>4 DEF StackInv
  <1>9. StartInv'
    BY <1>0, <1>2, <1>4 DEF StartInv, Starting
  <1>10. \A i \in 1..Top : i \in 1..Top' /\ stack'[i] = stack[i]
    BY <1>0, <1>4
  <1>11. TimerInv'
    <2>1. timer' = timer /\ pjmpbuf' = pjmpbuf /\ supervise' = supervise
      BY DEF Call
    <2>2. SUFFICES ASSUME timer # Disarmed
                   PROVE  /\ supervise /\ pjmpbuf \in 1..Top'
                          /\ stack'[pjmpbuf].timeout > 0
                          /\ timer + stack'[pjmpbuf].spent >= stack'[pjmpbuf].timeout
      BY <2>1 DEF TimerInv
    <2> QED BY <2>2, <1>10, <1>6 DEF SupInv, TimerInv
  <1>12. JumpTargetLive'
    <2>1. pjmpbuf' = pjmpbuf /\ supervise' = supervise
      BY DEF Call
    <2> QED BY <2>1, <1>10 DEF SupInv, JumpTargetLive
  <1>13. AbortedByOwnTimeout'
    <2>1. \A i \in 1..Top' : i \in 1..Top \/ i = Top + 1
      BY <1>0, <1>4
    <2>2. g.pc # "aborted"
      BY <1>2
    <2> QED BY <2>1, <2>2, <1>4 DEF SupInv, AbortedByOwnTimeout
  <1> QED BY <1>7, <1>8, <1>9, <1>11, <1>12, <1>13 DEF SupInv

\* The frame becomes the target of the jump, and its timeout the timer.
LEMMA SetTimerKeeps ==
    ASSUME SupInv, SetTimer
    PROVE  SupInv'
  <1>0. /\ stack \in Seq(Frames) /\ stack # <<>> /\ ~supervise
        /\ stack[Top].pc = "start" /\ {"body", "armed"} \subseteq Places
        /\ Top \in 1..Top /\ Top <= MaxDepth
    BY StackFrames DEF SupInv, TypeOK, SetTimer, At, Places
  <1>1. PICK place \in {"body", "armed"} :
            Goto(place) /\ (place = "armed" <=> stack[Top].timeout >= 0)
    BY <1>0, StackFrames DEF SetTimer
  <1>2. /\ stack' \in Seq(Frames) /\ Top' = Top /\ stack' # <<>>
        /\ stack'[Top].pc = place
        /\ stack'[Top].timeout = stack[Top].timeout
        /\ stack'[Top].spent = stack[Top].spent
        /\ stack'[Top].started = stack[Top].started
        /\ stack'[Top].supervised = stack[Top].supervised
        /\ \A i \in 1..Top : i # Top => stack'[i] = stack[i]
    BY <1>0, <1>1, GotoTop
  <1>3. timer = Disarmed
    BY <1>0 DEF SupInv, TimerInv, Starting
  <1>4. /\ pjmpbuf' = Top /\ supervise' = supervise
        /\ timer' \in Nat \cup {Disarmed}
        /\ timer' # Disarmed => /\ place = "armed" /\ stack[Top].timeout > 0
                                /\ timer' = stack[Top].timeout
    BY <1>0, <1>1, <1>2, <1>3, StackFrames DEF SetTimer
  <1>5. TypeOK'
    <2>1. pjmpbuf' \in 0..MaxDepth
      BY <1>0, <1>4, DepthAssumption, StackFrames
    <2> QED BY <1>0, <1>2, <1>4, <2>1 DEF SupInv, TypeOK, SetTimer
  <1>6. StackInv' /\ StartInv'
    BY <1>0, <1>2, <1>4 DEF SupInv, StackInv, StartInv, Starting
  <1>7. TimerInv'
    <2>1. stack[Top].timeout \in Int /\ stack[Top].spent \in Nat
      BY <1>0, StackFrames
    <2> QED BY <2>1, <1>0, <1>2, <1>4 DEF TimerInv, Starting
  <1>8. JumpTargetLive' /\ AbortedByOwnTimeout'
    BY <1>0, <1>2, <1>4 DEF SupInv, JumpTargetLive, AbortedByOwnTimeout
  <1> QED BY <1>5, <1>6, <1>7, <1>8 DEF SupInv

\* The handler is installed while the start is under way.
LEMMA InstallHandlerKeeps ==
    ASSUME SupInv, InstallHandler
    PROVE  SupInv'
  <1>0. /\ stack \in Seq(Frames) /\ stack # <<>> /\ stack[Top].pc = "armed"
        /\ "handled" \in Places
    BY DEF SupInv, TypeOK, InstallHandler, At, Places
  <1>1. /\ stack' \in Seq(Frames) /\ Top' = Top /\ stack' # <<>>
        /\ stack'[Top].pc = "handled"
        /\ stack'[Top].timeout = stack[Top].timeout
        /\ stack'[Top].spent = stack[Top].spent
        /\ stack'[Top].started = stack[Top].started
        /\ stack'[Top].supervised = stack[Top].supervised
        /\ \A i \in 1..Top : i # Top => stack'[i] = stack[i]
    BY <1>0, GotoTop DEF InstallHandler
  <1>2. TypeOK'
    BY <1>1 DEF SupInv, TypeOK, InstallHandler
  <1>3. StackInv' /\ StartInv'
    BY <1>0, <1>1 DEF SupInv, StackInv, StartInv, Starting, InstallHandler
  <1>4. TimerInv'
    BY <1>0, <1>1 DEF SupInv, TimerInv, Starting, InstallHandler
  <1>5. JumpTargetLive' /\ AbortedByOwnTimeout'
    BY <1>0, <1>1 DEF SupInv, StartInv, Starting, JumpTargetLive, AbortedByOwnTimeout,
       InstallHandler
  <1> QED BY <1>2, <1>3, <1>4, <1>5 DEF SupInv
\* The flag goes up: the jump now leads into the frame that has set pjmpbuf.
LEMMA StartReturnsKeeps ==
    ASSUME SupInv, StartReturns
    PROVE  SupInv'
  <1> DEFINE g == [stack[Top] EXCEPT !.pc = "body", !.started = TRUE]
  <1>0. /\ stack \in Seq(Frames) /\ stack # <<>> /\ stack[Top].pc = "handled"
        /\ Top \in 1..Top /\ stack[Top] \in Frames
    BY StackFrames DEF SupInv, TypeOK, StartReturns, At
  <1>1. /\ g \in Frames /\ g.pc = "body" /\ g.started
        /\ g.timeout = stack[Top].timeout /\ g.spent = stack[Top].spent
        /\ g.supervised = stack[Top].supervised
    BY <1>0 DEF Frames, Places
  <1>2. stack' = [stack EXCEPT ![Top] = g]
    BY DEF StartReturns
  <1> HIDE DEF g
  <1>3. /\ stack' \in Seq(Frames) /\ Top' = Top /\ stack' # <<>>
        /\ stack'[Top] = g
        /\ \A i \in 1..Top : i # Top => stack'[i] = stack[i]
    BY <1>0, <1>1, <1>2, ChangeTop
  <1>4. pjmpbuf = Top /\ pjmpbuf' = Top /\ supervise'
    BY <1>0 DEF SupInv, StartInv, Starting, StartReturns
  <1>5. TypeOK'
    BY <1>3 DEF SupInv, TypeOK, StartReturns
  <1>6. StackInv'
    BY <1>0, <1>1, <1>3 DEF SupInv, StackInv
  <1>7. StartInv' /\ JumpTargetLive'
    BY <1>0, <1>1, <1>3, <1>4 DEF StartInv, Starting, JumpTargetLive
  <1>8. TimerInv'
    BY <1>0, <1>1, <1>3, <1>4 DEF SupInv, TimerInv, StartReturns
  <1>9. AbortedByOwnTimeout'
    BY <1>0, <1>1, <1>3 DEF SupInv, AbortedByOwnTimeout
  <1> QED BY <1>5, <1>6, <1>7, <1>8, <1>9 DEF SupInv

\* What a return leaves: the callers below, all of them in their functions.
LEMMA PopTop ==
    ASSUME stack \in Seq(Frames), stack # <<>>, StackInv, AbortedByOwnTimeout,
           stack' = SubSeq(stack, 1, Top - 1)
    PROVE  /\ stack' \in Seq(Frames) /\ Top' = Top - 1 /\ Top \in Nat \ {0}
           /\ \A i \in 1..(Top - 1) : stack'[i] = stack[i] /\ stack[i].pc = "body"
           /\ StackInv' /\ ~Starting' /\ AbortedByOwnTimeout'
  <1>1. Top \in Nat \ {0} /\ Top - 1 \in 0..Top
    BY StackFrames
  <1>2. /\ stack' \in Seq(Frames) /\ Top' = Top - 1
        /\ \A i \in 1..(Top - 1) : stack'[i] = stack[i]
    BY <1>1, Cut DEF Top
  <1>3. \A i \in 1..(Top - 1) : i \in 1..Top /\ i # Top
    BY <1>1
  <1>4. \A i \in 1..(Top - 1) : stack[i].pc = "body"
    BY <1>3 DEF StackInv
  <1>5. StackInv' /\ AbortedByOwnTimeout'
    BY <1>2, <1>3, <1>4 DEF StackInv, AbortedByOwnTimeout
  <1>6. ~Starting'
    <2>1. SUFFICES ASSUME stack' # <<>>
                   PROVE  Top' \in 1..(Top - 1)
      BY <1>2, <1>4 DEF Starting
    <2>2. Top' # 0
      BY <1>2, <2>1, EmptySeq DEF Top
    <2> QED BY <1>1, <1>2, <2>2
  <1> QED BY <1>1, <1>2, <1>4, <1>5, <1>6

\* The frame that pjmpbuf points at ends the supervision when it returns.
LEMMA ReturnKeeps ==
    ASSUME SupInv, Return
    PROVE  SupInv'
  <1>0. stack \in Seq(Frames) /\ stack # <<>> /\ stack[Top].pc = "body"
    BY DEF SupInv, TypeOK, Return, At
  <1>1. /\ stack' \in Seq(Frames) /\ Top' = Top - 1 /\ Top \in Nat \ {0}
        /\ \A i \in 1..(Top - 1) : stack'[i] = stack[i] /\ stack[i].pc = "body"
        /\ StackInv' /\ ~Starting' /\ AbortedByOwnTimeout'
    BY <1>0, PopTop DEF SupInv, Return
  <1>2. ~Starting
    BY <1>0 DEF Starting
  <1>3. pjmpbuf' = pjmpbuf /\ alive' = alive
    BY DEF Return
  <1>4. \/ ~supervise' /\ supervise' \in BOOLEAN /\ timer' = Disarmed
           /\ handler' \in {"default", "ignore", "jump"}
        \/ /\ supervise /\ UNCHANGED <<supervise, timer, handler>>
           /\ pjmpbuf \in 1..(Top - 1)
    <2>1. CASE ~supervise
      <3>1. timer = Disarmed
        BY <1>2, <2>1 DEF SupInv, TimerInv
      <3>2. UNCHANGED <<supervise, timer, handler>>
        BY <2>1 DEF Return, supervise_end
      <3> QED BY <2>1, <3>1, <3>2 DEF SupInv, TypeOK
    <2>2. CASE supervise /\ EndsSupervision(stack[Top])
      BY <2>2 DEF Return, supervise_end
    <2>3. CASE supervise /\ ~EndsSupervision(stack[Top])
      <3>1. UNCHANGED <<supervise, timer, handler>>
        BY <2>3 DEF Return
      <3>2. pjmpbuf \in 1..Top /\ stack[pjmpbuf].started /\ stack[pjmpbuf].supervised
        BY <2>3 DEF SupInv, JumpTargetLive, StackInv
      <3>3. pjmpbuf # Top
        BY <2>3, <3>2 DEF EndsSupervision
      <3>4. pjmpbuf \in 1..(Top - 1)
        BY <1>1, <3>2, <3>3
      <3> QED BY <2>3, <3>1, <3>4
    <2> QED BY <2>1, <2>2, <2>3
  <1>5. TypeOK'
    <2>1. Top' <= MaxDepth
      BY <1>1, DepthAssumption DEF SupInv, TypeOK
    <2>2. /\ supervise' \in BOOLEAN /\ timer' \in Nat \cup {Disarmed}
          /\ handler' \in {"default", "ignore", "jump"}
      BY <1>4 DEF SupInv, TypeOK
    <2> QED BY <1>1, <1>3, <2>1, <2>2 DEF SupInv, TypeOK
  <1>6. JumpTargetLive' /\ TimerInv'
    BY <1>1, <1>2, <1>3, <1>4 DEF SupInv, JumpTargetLive, TimerInv
  <1> QED BY <1>1, <1>5, <1>6 DEF SupInv, StartInv

\* An aborted frame is no longer the target of the jump.
LEMMA ReturnAbortedKeeps ==
    ASSUME SupInv, ReturnAborted
    PROVE  SupInv'
  <1>0. stack \in Seq(Frames) /\ stack # <<>> /\ stack[Top].pc = "aborted"
    BY DEF SupInv, TypeOK, ReturnAborted, At
  <1>1. /\ stack' \in Seq(Frames) /\ Top' = Top - 1 /\ Top \in Nat \ {0}
        /\ \A i \in 1..(Top - 1) : stack'[i] = stack[i] /\ stack[i].pc = "body"
        /\ StackInv' /\ ~Starting' /\ AbortedByOwnTimeout'
    BY <1>0, PopTop DEF SupInv, ReturnAborted
  <1>2. ~Starting
    BY <1>0 DEF Starting
  <1>3. UNCHANGED <<supervise, pjmpbuf, timer, handler, alive>>
    BY DEF ReturnAborted
  <1>4. supervise => pjmpbuf \in 1..Top /\ pjmpbuf # Top
    BY <1>0 DEF SupInv, JumpTargetLive
  <1>5. supervise => pjmpbuf \in 1..(Top - 1)
    BY <1>1, <1>4
  <1>6. TypeOK'
    <2>1. Top' <= MaxDepth
      BY <1>1, DepthAssumption DEF SupInv, TypeOK
    <2> QED BY <1>1, <1>3, <2>1 DEF SupInv, TypeOK
  <1>7. JumpTargetLive' /\ TimerInv'
    BY <1>1, <1>2, <1>3, <1>5 DEF SupInv, JumpTargetLive, TimerInv
  <1> QED BY <1>1, <1>6, <1>7 DEF SupInv, StartInv

\* Timer and function count the same ticks.
LEMMA TickKeeps ==
    ASSUME SupInv, Tick
    PROVE  SupInv'
  <1> DEFINE G(i) == [stack[i] EXCEPT !.spent =
                        IF @ < stack[i].timeout THEN @ + 1 ELSE @]
  <1>0. stack \in Seq(Frames) /\ stack # <<>> /\ Top \in Nat
    BY StackFrames DEF SupInv, TypeOK, Tick
  <1>1. \A i \in 1..Top :
            /\ G(i) \in Frames /\ G(i).pc = stack[i].pc
            /\ G(i).timeout = stack[i].timeout
            /\ G(i).started = stack[i].started
            /\ G(i).supervised = stack[i].supervised
            /\ G(i).spent = IF stack[i].spent < stack[i].timeout
                            THEN stack[i].spent + 1 ELSE stack[i].spent
    <2> SUFFICES ASSUME NEW i \in 1..Top
                 PROVE  /\ G(i) \in Frames /\ G(i).pc = stack[i].pc
                        /\ G(i).timeout = stack[i].timeout
                        /\ G(i).started = stack[i].started
                        /\ G(i).supervised = stack[i].supervised
                        /\ G(i).spent = IF stack[i].spent < stack[i].timeout
                                        THEN stack[i].spent + 1 ELSE stack[i].spent
      OBVIOUS
    <2>1. stack[i] \in Frames /\ stack[i].spent \in Nat
      BY <1>0, StackFrames
    <2> QED BY <2>1 DEF Frames
  <1>2. stack' = [i \in 1..Top |-> G(i)]
    BY DEF Tick
  <1> HIDE DEF G
  <1>3. stack' \in Seq(Frames) /\ Top' = Top
    <2>1. stack' \in [1..Top -> Frames]
      BY <1>1, <1>2
    <2> QED BY <1>0, <2>1, SeqOfFunction DEF Top
  <1>4. \A i \in 1..Top :
            /\ stack'[i].pc = stack[i].pc
            /\ stack'[i].timeout = stack[i].timeout
            /\ stack'[i].started = stack[i].started
            /\ stack'[i].supervised = stack[i].supervised
            /\ stack'[i].spent = IF stack[i].spent < stack[i].timeout
                                 THEN stack[i].spent + 1 ELSE stack[i].spent
    BY <1>1, <1>2
  <1>5. /\ UNCHANGED <<supervise, pjmpbuf, handler, alive>>
        /\ timer' = IF timer > 0 THEN timer - 1 ELSE timer
    BY DEF Tick
  <1>6. stack' # <<>> /\ Top \in 1..Top
    <2>1. Top \in 1..Top /\ Len(stack') = Top
      BY <1>0, <1>3, StackFrames DEF Top
    <2> QED BY <2>1, EmptySeq
  <1>7. Starting' <=> Starting
    BY <1>0, <1>3, <1>4, <1>6 DEF Starting
  <1>8. TypeOK'
    <2>1. timer' \in Nat \cup {Disarmed}
      BY <1>5 DEF SupInv, TypeOK, Disarmed
    <2> QED BY <1>3, <1>5, <2>1 DEF SupInv, TypeOK
  <1>9. StackInv' /\ JumpTargetLive'
    BY <1>3, <1>4, <1>5 DEF SupInv, StackInv, JumpTargetLive
  <1>10. StartInv'
    BY <1>3, <1>5, <1>7 DEF SupInv, StartInv
  <1>11. TimerInv'
    <2>1. SUFFICES ASSUME timer # Disarmed
                   PROVE  timer' + stack'[pjmpbuf].spent >= stack[pjmpbuf].timeout
      <3>1. timer' # Disarmed => timer # Disarmed
        BY <1>5 DEF SupInv, TypeOK, Disarmed
      <3> QED BY <2>1, <3>1, <1>3, <1>4, <1>5, <1>7 DEF SupInv, TimerInv
    <2>2. pjmpbuf \in 1..Top /\ timer + stack[pjmpbuf].spent >= stack[pjmpbuf].timeout
      BY <2>1 DEF SupInv, TimerInv
    <2>3. stack[pjmpbuf].timeout \in Int /\ stack[pjmpbuf].spent \in Nat
      BY <1>0, <2>2, StackFrames
    <2>4. timer \in Nat
      BY <2>1 DEF SupInv, TypeOK
    <2> QED BY <2>2, <2>3, <2>4, <1>4, <1>5
  <1>12. AbortedByOwnTimeout'
    <2>1. \A i \in 1..Top : stack[i].timeout \in Int /\ stack[i].spent \in Nat
      BY <1>0, StackFrames
    <2> QED BY <2>1, <1>3, <1>4 DEF SupInv, AbortedByOwnTimeout
  <1> QED BY <1>8, <1>9, <1>10, <1>11, <1>12 DEF SupInv

\* The jump cuts the stack at a frame that is there and whose time is up.
LEMMA AlarmKeeps ==
    ASSUME SupInv, Alarm
    PROVE  SupInv'
  <1>0. /\ stack \in Seq(Frames) /\ Top \in Nat /\ timer = 0
        /\ timer' = Disarmed /\ pjmpbuf' = pjmpbuf /\ alive' \in BOOLEAN
    BY StackFrames DEF SupInv, TypeOK, Alarm
  <1>1. CASE ~Jumps
    <2>1. UNCHANGED <<supervise, handler, stack>>
      BY <1>1 DEF Alarm
    <2>2. Top' = Top
      BY <2>1 DEF Top
    <2>3. TypeOK'
      BY <1>0, <2>1, <2>2 DEF SupInv, TypeOK
    <2>4. StackInv' /\ StartInv' /\ JumpTargetLive' /\ AbortedByOwnTimeout'
      BY <1>0, <2>1, <2>2 DEF SupInv, StackInv, StartInv, Starting, JumpTargetLive,
         AbortedByOwnTimeout
    <2>5. TimerInv'
      BY <1>0 DEF TimerInv, Disarmed
    <2> QED BY <2>3, <2>4, <2>5 DEF SupInv
  <1>2. CASE Jumps
    <2> DEFINE p == pjmpbuf
               low == SubSeq(stack, 1, p)
               g == [low[p] EXCEPT !.pc = "aborted"]
    <2>1. /\ p \in 1..Top /\ stack[p].started /\ stack[p].pc = "body"
      BY <1>2 DEF Jumps, SupInv, JumpTargetLive
    <2>2. /\ stack[p].timeout > 0 /\ stack[p].spent >= stack[p].timeout
      <3>1. /\ stack[p].timeout > 0 /\ 0 + stack[p].spent >= stack[p].timeout
        BY <1>0 DEF SupInv, TimerInv, Disarmed
      <3>2. stack[p].spent \in Nat
        BY <1>0, <2>1, StackFrames
      <3> QED BY <3>1, <3>2
    <2>3. /\ p \in 0..Top /\ p \in 1..p /\ p \in Nat
      BY <1>0, <2>1
    <2>4. /\ low \in Seq(Frames) /\ Len(low) = p
          /\ \A i \in 1..p : low[i] = stack[i]
      BY <1>0, <2>3, Cut
    <2>5. stack[p] \in Frames /\ low[p] = stack[p]
      BY <1>0, <2>1, <2>3, <2>4, StackFrames
    <2>6. /\ g \in Frames /\ g.pc = "aborted" /\ g.timeout = stack[p].timeout
          /\ g.spent = stack[p].spent /\ g.supervised = stack[p].supervised
          /\ g.started = stack[p].started
      BY <2>5 DEF Frames, Places
    <2>7. /\ stack' = [low EXCEPT ![p] = g] /\ supervise' = FALSE
          /\ handler' = "ignore"
      BY <1>2 DEF Alarm
    <2> HIDE DEF g, low
    <2>8. /\ stack' \in Seq(Frames) /\ Len(stack') = p
          /\ \A i \in 1..p : stack'[i] = IF i = p THEN g ELSE low[i]
      BY <2>3, <2>4, <2>6, <2>7, ExceptSeq
    <2>9. Top' = p /\ stack'[p] = g /\ \A i \in 1..p : i # p => stack'[i] = stack[i]
      BY <2>3, <2>4, <2>8 DEF Top
    <2>10. \A i \in 1..p : i \in 1..Top
      BY <1>0, <2>1
    <2>11. TypeOK'
      <3>1. Top' <= MaxDepth
        BY <1>0, <2>1, <2>9, DepthAssumption DEF SupInv, TypeOK
      <3> QED BY <1>0, <2>7, <2>8, <3>1 DEF SupInv, TypeOK
    <2>12. StackInv'
      <3>1. \A i \in 1..p : i # p => i # Top
        BY <1>0, <2>1
      <3>2. \A i \in 1..p : i # p => stack'[i].pc = "body"
        BY <3>1, <2>9, <2>10 DEF SupInv, StackInv
      <3>3. \A i \in 1..p :
                stack'[i].started \/ stack'[i].pc \in {"start", "armed", "handled"}
                    => stack'[i].supervised
        BY <2>1, <2>6, <2>9, <2>10 DEF SupInv, StackInv
      <3> QED BY <3>2, <3>3, <2>9 DEF StackInv
    <2>13. StartInv' /\ JumpTargetLive' /\ TimerInv'
      BY <1>0, <2>6, <2>7, <2>9 DEF StartInv, Starting, JumpTargetLive, TimerInv
    <2>14. AbortedByOwnTimeout'
      BY <2>2, <2>6, <2>9, <2>10 DEF SupInv, AbortedByOwnTimeout
    <2> QED BY <2>11, <2>12, <2>13, <2>14 DEF SupInv
  <1> QED BY <1>1, <1>2

---------------------------------------------------------------------------
\* Every step keeps the invariant.
LEMMA SupNext == SupInv /\ [Next]_vars => SupInv'
  <1> SUFFICES ASSUME SupInv, [Next]_vars PROVE SupInv'
    OBVIOUS
  <1>1. CASE UNCHANGED vars
    <2>1. Top' = Top /\ (Starting' <=> Starting)
      BY <1>1 DEF vars, Top, Starting
    <2> QED BY <1>1, <2>1 DEF vars, SupInv, TypeOK, StackInv, StartInv, TimerInv,
               JumpTargetLive, AbortedByOwnTimeout
  <1>2. ASSUME NEW c \in Callers, NEW d \in Timeouts, Call(c, d) PROVE SupInv'
    BY <1>2, CallKeeps
  <1>3. CASE StartRefused
    BY <1>3, StartRefusedKeeps
  <1>4. CASE SetTimer
    BY <1>4, SetTimerKeeps
  <1>5. CASE InstallHandler
    BY <1>5, InstallHandlerKeeps
  <1>6. CASE StartReturns
    BY <1>6, StartReturnsKeeps
  <1>7. CASE Return
    BY <1>7, ReturnKeeps
  <1>8. CASE ReturnAborted
    BY <1>8, ReturnAbortedKeeps
  <1>9. CASE Tick
    BY <1>9, TickKeeps
  <1>10. CASE Alarm
    BY <1>10, AlarmKeeps
  <1> QED
    BY <1>1, <1>2, <1>3, <1>4, <1>5, <1>6, <1>7, <1>8, <1>9, <1>10 DEF Next

\* The inductive invariant holds in every state, whatever the callers, their
\* timeouts and the depth of the nesting.
THEOREM SuperviseInvariant == Spec => []SupInv
  BY SupInit, SupNext, PTL DEF Spec

\* Types: the stack holds frames, the timer is never below "disarmed", and pjmpbuf
\* never points beyond the deepest frame.
THEOREM SuperviseTypeCorrect == Spec => []TypeOK
  <1>1. SupInv => TypeOK
    BY DEF SupInv
  <1> QED BY <1>1, SuperviseInvariant, PTL

\* ov_supervise_signalhandler never jumps into a frame that has returned: while the
\* supervision runs, pjmpbuf points at a frame that is on the stack and in its
\* function, through refused and failed starts, nested returns and aborts.
THEOREM SuperviseJumpTargetLive == Spec => []JumpTargetLive
  <1>1. SupInv => JumpTargetLive
    BY DEF SupInv
  <1> QED BY <1>1, SuperviseInvariant, PTL

\* A function is aborted by its own timeout only, although one timer and one
\* pjmpbuf serve all nested callers.
THEOREM SuperviseAbortedByOwnTimeout == Spec => []AbortedByOwnTimeout
  <1>1. SupInv => AbortedByOwnTimeout
    BY DEF SupInv
  <1> QED BY <1>1, SuperviseInvariant, PTL

---------------------------------------------------------------------------
\* Frames above the target of the jump have not started the supervision: theirs
\* were refused, or failed.
UpperInv ==
    supervise => \A i \in 1..Top : i > pjmpbuf => ~stack[i].started

\* Every step keeps it.
LEMMA UpperNext == SupInv /\ UpperInv /\ [Next]_vars => UpperInv'
  <1> SUFFICES ASSUME SupInv, UpperInv, [Next]_vars PROVE UpperInv'
    OBVIOUS
  <1>0. stack \in Seq(Frames) /\ Top \in Nat /\ StackInv /\ AbortedByOwnTimeout
    BY StackFrames DEF SupInv, TypeOK
  <1>1. CASE UNCHANGED vars
    BY <1>1 DEF vars, UpperInv, Top
  <1>2. ASSUME NEW c \in Callers, NEW d \in Timeouts, Call(c, d) PROVE UpperInv'
    <2>1. PICK s : stack' = Append(stack, [caller |-> c, timeout |-> d, supervised |-> s,
                                           started |-> FALSE, spent |-> 0,
                                           pc |-> IF s THEN "start" ELSE "body"])
      BY <1>2 DEF Call
    <2>2. /\ Top' = Top + 1 /\ stack'[Top + 1].started = FALSE
          /\ \A i \in 1..Top : stack'[i] = stack[i]
      BY <1>0, <2>1 DEF Top
    <2>3. \A i \in 1..Top' : i \in 1..Top \/ i = Top + 1
      BY <1>0, <2>2
    <2>4. supervise' = supervise /\ pjmpbuf' = pjmpbuf
      BY <1>2 DEF Call
    <2> QED BY <2>2, <2>3, <2>4 DEF UpperInv
  <1>3. CASE StartRefused
    <2>1. stack # <<>> /\ "body" \in Places
      BY <1>3 DEF StartRefused, At, Places
    <2>2. Top' = Top /\ \A i \in 1..Top : stack'[i].started = stack[i].started
      BY <1>0, <1>3, <2>1, GotoTop DEF StartRefused
    <2>3. supervise' = supervise /\ pjmpbuf' = pjmpbuf
      BY <1>3 DEF StartRefused
    <2> QED BY <2>2, <2>3 DEF UpperInv
  <1>4. CASE SetTimer \/ InstallHandler
    <2>1. ~supervise'
      BY <1>4 DEF SupInv, StartInv, Starting, SetTimer, InstallHandler, At
    <2> QED BY <2>1 DEF UpperInv
  <1>5. CASE StartReturns
    <2>1. pjmpbuf' = Top
      BY <1>5 DEF SupInv, StartInv, Starting, StartReturns, At
    <2>2. Top' = Top
      BY <1>0, <1>5 DEF StartReturns, Top
    <2> QED BY <1>0, <2>1, <2>2 DEF UpperInv
  <1>6. CASE Return \/ ReturnAborted
    <2>1. stack # <<>> /\ stack' = SubSeq(stack, 1, Top - 1)
      BY <1>6 DEF Return, ReturnAborted, At
    <2>2. /\ Top' = Top - 1 /\ Top \in Nat \ {0}
          /\ \A i \in 1..(Top - 1) : stack'[i] = stack[i]
      BY <1>0, <2>1, PopTop
    <2>3. \A i \in 1..Top' : i \in 1..Top /\ stack'[i] = stack[i]
      BY <2>2
    <2>4. pjmpbuf' = pjmpbuf /\ (supervise' => supervise)
      BY <1>6 DEF Return, ReturnAborted, supervise_end
    <2> QED BY <2>3, <2>4 DEF UpperInv
  <1>7. CASE Tick
    <2>1. stack' = [i \in 1..Top |-> [stack[i] EXCEPT !.spent =
                        IF @ < stack[i].timeout THEN @ + 1 ELSE @]]
      BY <1>7 DEF Tick
    <2>2. \A i \in 1..Top : stack[i] \in Frames
      BY <1>0, StackFrames
    <2>3. \A i \in 1..Top : stack'[i].started = stack[i].started
      BY <2>1, <2>2 DEF Frames
    <2>4. Top' = Top
      BY <1>0, <2>1 DEF Top
    <2>5. supervise' = supervise /\ pjmpbuf' = pjmpbuf
      BY <1>7 DEF Tick
    <2> QED BY <2>3, <2>4, <2>5 DEF UpperInv
  <1>8. CASE Alarm
    <2>1. CASE Jumps
      BY <1>8, <2>1 DEF Alarm, UpperInv
    <2>2. CASE ~Jumps
      BY <1>8, <2>2 DEF Alarm, UpperInv, Top
    <2> QED BY <2>1, <2>2
  <1> QED BY <1>1, <1>2, <1>3, <1>4, <1>5, <1>6, <1>7, <1>8 DEF Next

\* The steps that take the flag down.
LEMMA EndingStep ==
    ASSUME SupInv, UpperInv, Next, supervise, ~supervise'
    PROVE  \/ Len(stack') < pjmpbuf
           \/ stack'[pjmpbuf].pc = "aborted"
           \/ stack[Top].caller = "task"
  <1>0. /\ stack \in Seq(Frames) /\ StackInv /\ AbortedByOwnTimeout
        /\ pjmpbuf \in 1..Top /\ Top \in Nat
    BY StackFrames DEF SupInv, TypeOK, JumpTargetLive
  <1>1. Return \/ Alarm
    BY DEF Next, Call, StartRefused, SetTimer, InstallHandler, StartReturns,
       ReturnAborted, Tick
  <1>2. CASE Return
    <2>1. EndsSupervision(stack[Top])
      BY <1>2 DEF Return
    <2>2. stack # <<>> /\ stack' = SubSeq(stack, 1, Top - 1)
      BY <1>2 DEF Return, At
    <2>3. Len(stack') = Top - 1 /\ Top \in 1..Top
      BY <1>0, <2>2, PopTop DEF Top
    <2>4. CASE pjmpbuf = Top
      BY <1>0, <2>3, <2>4
    <2>5. CASE pjmpbuf # Top
      <3>1. ~stack[Top].started
        BY <1>0, <2>3, <2>5 DEF UpperInv
      <3>2. stack[Top].caller # "block" /\ stack[Top].caller \in Callers
        BY <1>0, <2>1, <2>3, <3>1, StackFrames DEF EndsSupervision
      <3> QED BY <3>2, CallersAssumption
    <2> QED BY <2>4, <2>5
  <1>3. CASE Alarm
    <2>1. stack' = [SubSeq(stack, 1, pjmpbuf) EXCEPT ![pjmpbuf].pc = "aborted"]
      BY <1>3 DEF Alarm
    <2>2. pjmpbuf \in 0..Top /\ pjmpbuf \in 1..pjmpbuf
      BY <1>0
    <2>3. /\ SubSeq(stack, 1, pjmpbuf) \in Seq(Frames)
          /\ Len(SubSeq(stack, 1, pjmpbuf)) = pjmpbuf
      BY <1>0, <2>2, Cut
    <2>4. SubSeq(stack, 1, pjmpbuf)[pjmpbuf] \in Frames
      BY <2>2, <2>3, ElementOfSeq
    <2> DEFINE low == SubSeq(stack, 1, pjmpbuf)
    <2>5. stack' = [low EXCEPT ![pjmpbuf] = [low[pjmpbuf] EXCEPT !.pc = "aborted"]]
      BY <2>1
    <2>6. [low[pjmpbuf] EXCEPT !.pc = "aborted"].pc = "aborted"
      BY <2>4 DEF Frames
    <2>7. pjmpbuf \in DOMAIN low
      BY <2>2, <2>3
    <2> HIDE DEF low
    <2> QED BY <2>5, <2>6, <2>7
  <1> QED BY <1>1, <1>2, <1>3

\* What a nested call does never takes the flag down, unless it is the return of a
\* task: the supervision ends with the return or the abort of the frame it serves.
THEOREM SuperviseEndedByOwnerOnly == Spec => EndedByOwnerOnly
  <1>1. Init => UpperInv
    BY DEF Init, UpperInv
  <1>2. SupInv /\ UpperInv /\ [Next]_vars
            => [supervise /\ ~supervise'
                => \/ Len(stack') < pjmpbuf
                   \/ stack'[pjmpbuf].pc = "aborted"
                   \/ stack[Top].caller = "task"]_vars
    BY EndingStep DEF vars
  <1> QED BY <1>1, <1>2, SuperviseInvariant, UpperNext, PTL DEF Spec, EndedByOwnerOnly

---------------------------------------------------------------------------
(* The worker threads of the TCP binding: the list that they and the main  *)
(* thread use without a lock.                                              *)

\* The element that a worker has unlinked and not yet freed: there is one at most.
Unlinking ==
    IF wpc["first"] = "unlink" THEN pCurrElem["first"]
    ELSE IF wpc["second"] = "unlink" THEN pCurrElem["second"] ELSE Null

\* The list is what no worker has unlinked, without the dummy of the first list; and
\* what comes before an element of it is seen from the successor of the element being
\* unlinked.
InList == inUse \ {Unlinking, forgotten}
Inserting == IF mpc = "link" THEN {pNewElem} ELSE {}
Before(d) ==
    IF Unlinking # Null /\ pNext[Unlinking] = d THEN pPrevious[Unlinking] ELSE pPrevious[d]

\* The list is there from the startup of the worker object to its shutdown, and the
\* threads walk only while it is there.  Until the last startup it has its dummy only.
FlagsInv ==
    /\ phase \in {"startup", "opened"} =>
        /\ mpc = "idle" /\ wpc["second"] = "none" /\ \A t \in Threads : wpc[t] # "unlink"
        /\ pNext = [e \in Elems |-> Null] /\ pPrevious = [e \in Elems |-> Null]
        /\ inUse = {pFirstElem} \ {Null} /\ inUse \subseteq delete /\ forgotten = Null
        /\ \A c \in Channels : v_addrInfoReq[c] = Null /\ v_ConnectionState[c] # "OPENING"
    /\ phase = "startup" => wpc["first"] = "none" /\ pFirstElem = Null
    /\ phase \in {"opened", "up"} =>
        runWorkerThread /\ (~workerThreadRunning => \A t \in Threads : wpc[t] = "none")
    /\ phase \in {"opened", "up", "join"} => pLastElem # Null
    /\ phase = "join" => mpc = "idle"
    /\ pLastElem = Null => mpc = "idle" /\ \A t \in Threads : wpc[t] \in {"none", "exited"}

\* The links forward and backward agree, but for the two stores of an insertion
\* and the two of an unlinking.
Successors ==
    \A e \in InList : pNext[e] # Null => pNext[e] \in InList /\ Before(pNext[e]) = e
Predecessors ==
    \A d \in InList :
        /\ Before(d) = Null => d = pFirstElem
        /\ Before(d) # Null =>
            /\ Before(d) \in InList
            /\ pNext[Before(d)] = d \/ (d \in Inserting /\ Before(d) = pLastElem)
Ends ==
    /\ pFirstElem \in InList /\ Before(pFirstElem) = Null
    /\ mpc # "last" => pLastElem \in InList /\ pNext[pLastElem] = Null

\* Every set that is closed under the links holds the whole list.
NoneLost ==
    \A S \in SUBSET Elems : ClosedUnderNext(S) => InList \ Inserting \subseteq S

\* The element being inserted is at the end, and nobody else knows it.
InsertInv ==
    /\ mpc \in {"link", "last"} =>
        /\ pNewElem \in InList \ delete /\ pNext[pNewElem] = Null
        /\ \A c \in Channels : v_addrInfoReq[c] # pNewElem
    /\ mpc = "link" => pPrevious[pNewElem] = pLastElem /\ pLastElem # pNewElem

\* Where a worker stands and where it goes next are elements in use, and what one
\* of them has unlinked, which is no other's, is known to no other.
WalkInv ==
    /\ \A t \in Threads :
        /\ InElement(t) =>
            pCurrElem[t] \in inUse /\ (wpc[t] # "unlink" => pCurrElem[t] # Unlinking)
        /\ wpc[t] \in {"claim", "resolve", "check", "unlink"} =>
            pNextElem[t] \in (InList \ {pCurrElem[t]}) \cup {Null}
    /\ \A t, u \in Threads : wpc[t] = "unlink" /\ wpc[u] = "unlink" => t = u
UnlinkInv ==
    Unlinking # Null =>
        /\ Unlinking \in inUse \cap delete /\ Unlinking # forgotten
        /\ pNext[Unlinking] \in InList /\ pPrevious[pNext[Unlinking]] = Unlinking
        /\ pPrevious[Unlinking] # Unlinking

\* The dummy of the first list has no successor and is never freed.
ForgottenInv ==
    forgotten # Null => forgotten \in inUse \cap delete /\ pNext[forgotten] = Null

\* The requests of the channels are in use and not marked for deletion, and no
\* two channels share one.
RequestsInv ==
    \A c \in Channels :
        /\ v_addrInfoReq[c] \in (inUse \ delete) \cup {Null}
        /\ v_ConnectionState[c] = "OPENING" => v_addrInfoReq[c] # Null
        /\ \A d \in Channels \ {c} :
            v_addrInfoReq[c] = v_addrInfoReq[d] => v_addrInfoReq[c] = Null

LinksInv == Successors /\ Predecessors /\ Ends /\ NoneLost
ThereInv == LinksInv /\ InsertInv /\ WalkInv /\ UnlinkInv /\ ForgottenInv /\ RequestsInv

\* The inductive invariant.  That a worker never stands on freed memory needs the
\* agreement of the links and that the list has no loop, which follows from NoneLost;
\* that a channel's request is not freed needs RequestsInv.
WorkerInv ==
    /\ WorkerTypeOK
    /\ phase # "undermined" => FlagsInv /\ (pLastElem # Null => ThereInv)

---------------------------------------------------------------------------
(* Facts about the list.                                                   *)

\* A worker that unlinks does it with the one element that is being unlinked.
LEMMA UnlinkingIs ==
    ASSUME WalkInv, NEW t \in Threads
    PROVE  /\ wpc[t] = "unlink" => Unlinking = pCurrElem[t]
           /\ (\A u \in Threads : wpc[u] # "unlink") => Unlinking = Null
  <1>1. "first" \in Threads /\ "second" \in Threads /\ t \in {"first", "second"}
    BY DEF Threads
  <1> QED BY <1>1 DEF WalkInv, Unlinking

\* The list has no element that is its own successor: it could not be reached.
LEMMA NoLoop ==
    ASSUME Null \notin Elems, WorkerTypeOK, LinksInv, InsertInv, NEW e \in InList
    PROVE  pNext[e] # e
  <1> SUFFICES ASSUME pNext[e] = e PROVE FALSE
    OBVIOUS
  <1> DEFINE S == InList \ {e}
  <1>0. inUse \subseteq Elems /\ InList \subseteq Elems /\ e \in Elems /\ e # Null
    BY DEF WorkerTypeOK, InList
  <1>1. Before(e) = e
    BY <1>0 DEF LinksInv, Successors
  <1>2. pFirstElem \in S
    BY <1>0, <1>1 DEF LinksInv, Ends
  <1>3. ASSUME NEW d \in S PROVE pNext[d] \in S \cup {Null}
    BY <1>1, <1>3 DEF LinksInv, Successors
  <1>4. S \in SUBSET Elems /\ ClosedUnderNext(S)
    BY <1>0, <1>2, <1>3 DEF ClosedUnderNext
  <1>5. InList \ Inserting \subseteq S
    BY <1>4 DEF LinksInv, NoneLost
  <1>6. e \notin Inserting
    BY <1>0 DEF InsertInv, Inserting
  <1> QED BY <1>5, <1>6

\* A step that touches no link and neither begins nor ends an insertion or an
\* unlinking leaves the list as it is.
LEMMA LinksKept ==
    ASSUME LinksInv, UNCHANGED <<inUse, pNext, pPrevious, pFirstElem, pLastElem, mpc, pNewElem,
                                 forgotten, Unlinking>>
    PROVE  LinksInv' /\ InList' = InList
  <1>1. InList' = InList /\ Inserting' = Inserting
    BY DEF InList, Inserting
  <1>2. \A d : Before(d)' = Before(d)
    BY DEF Before
  <1>3. Successors' /\ Predecessors'
    BY <1>1, <1>2 DEF LinksInv, Successors, Predecessors
  <1>4. Ends' /\ NoneLost'
    BY <1>1, <1>2 DEF LinksInv, Ends, NoneLost, ClosedUnderNext
  <1> QED BY <1>1, <1>3, <1>4 DEF LinksInv

\* A step of the main thread that touches neither the list nor the insertion.
LEMMA MainQuiet ==
    ASSUME ThereInv, UNCHANGED <<inUse, pNext, pPrevious, pFirstElem, pLastElem, mpc, pNewElem,
                                 pCurrElem, pNextElem, forgotten>>,
           \A t \in Threads :
              wpc'[t] = wpc[t] \/ (wpc[t] \in {"none", "exited"} /\ wpc'[t] = "top"),
           delete \subseteq delete', mpc = "idle", RequestsInv'
    PROVE  ThereInv'
  <1>0. UNCHANGED Unlinking
    BY DEF Unlinking, Threads
  <1>1. LinksInv' /\ InList' = InList
    BY <1>0, LinksKept DEF ThereInv
  <1>2. InsertInv' /\ ForgottenInv' /\ UnlinkInv'
    BY <1>0, <1>1 DEF InsertInv, ForgottenInv, UnlinkInv, ThereInv
  <1>3. WalkInv'
    <2>1. \A t \in Threads :
            /\ InElement(t)' => InElement(t) /\ wpc'[t] = wpc[t]
            /\ wpc'[t] \in {"claim", "resolve", "check", "unlink"} => wpc'[t] = wpc[t]
      BY DEF InElement
    <2> QED BY <2>1, <1>0, <1>1 DEF ThereInv, WalkInv
  <1> QED BY <1>1, <1>2, <1>3 DEF ThereInv

\* A step of a worker that does not touch the list.
LEMMA WorkerQuiet ==
    ASSUME ThereInv, UNCHANGED <<inUse, pNext, pPrevious, delete, pFirstElem, pLastElem, mpc,
                                 pNewElem, v_ConnectionState, v_addrInfoReq, forgotten, Unlinking>>,
           WalkInv'
    PROVE  ThereInv'
  <1>1. LinksInv' /\ InList' = InList
    BY LinksKept DEF ThereInv
  <1>2. InsertInv' /\ ForgottenInv' /\ UnlinkInv'
    BY <1>1 DEF InsertInv, ForgottenInv, UnlinkInv, ThereInv
  <1>3. RequestsInv'
    BY DEF RequestsInv, ThereInv
  <1> QED BY <1>1, <1>2, <1>3 DEF ThereInv

---------------------------------------------------------------------------
(* The steps of the main thread.                                           *)

\* The list begins with one element; a dummy of an earlier list is left.
LEMMA WorkerStartupStep ==
    ASSUME Null \notin Elems, WorkerInv, Startup
    PROVE  ThereInv'
  <1> PICK e \in Elems \ inUse :
        /\ inUse' = inUse \cup {e} /\ delete' = delete \cup {e}
        /\ pNext' = [pNext EXCEPT ![e] = Null] /\ pPrevious' = [pPrevious EXCEPT ![e] = Null]
        /\ pFirstElem' = e /\ pLastElem' = e
    BY DEF Startup
  <1>0. phase \in {"startup", "opened"} /\ WorkerTypeOK /\ FlagsInv
        /\ (phase = "opened" => ThereInv)
    BY DEF WorkerInv, FlagsInv, Startup
  <1>1. /\ mpc = "idle" /\ wpc["second"] = "none" /\ \A t \in Threads : wpc[t] # "unlink"
        /\ pNext = [x \in Elems |-> Null] /\ pPrevious = [x \in Elems |-> Null]
        /\ inUse = {pFirstElem} \ {Null} /\ inUse \subseteq delete /\ forgotten = Null
        /\ \A c \in Channels : v_addrInfoReq[c] = Null /\ v_ConnectionState[c] # "OPENING"
    BY <1>0 DEF FlagsInv
  <1>2. /\ mpc' = mpc /\ pNext' = pNext /\ pPrevious' = pPrevious /\ forgotten' = pFirstElem
        /\ v_addrInfoReq' = v_addrInfoReq /\ v_ConnectionState' = v_ConnectionState
        /\ UNCHANGED <<pCurrElem, pNextElem>>
    BY <1>1 DEF Startup, insert, channels
  <1>3. /\ \A t \in Threads : wpc'[t] # wpc[t] => wpc[t] = "none" /\ wpc'[t] = "top"
        /\ \A t \in Threads : wpc'[t] # "unlink"
    BY <1>0, <1>1 DEF Startup, CreateThread, FlagsInv, Threads, WorkerTypeOK
  <1>4. Unlinking = Null /\ Unlinking' = Null
    BY <1>1, <1>3 DEF Unlinking, Threads
  <1>5. InList' = {e} /\ Inserting' = {} /\ \A d : Before(d)' = pPrevious'[d]
    BY <1>0, <1>1, <1>2, <1>4 DEF InList, Inserting, Before, WorkerTypeOK
  <1>6. pNext'[e] = Null /\ pPrevious'[e] = Null
    BY <1>1, <1>2
  <1>7. Successors' /\ Predecessors' /\ Ends'
    BY <1>5, <1>6 DEF Successors, Predecessors, Ends
  <1>8. NoneLost'
    BY <1>5 DEF NoneLost, ClosedUnderNext
  <1>9. InsertInv' /\ RequestsInv' /\ UnlinkInv' /\ ForgottenInv'
    <2>1. InsertInv' /\ RequestsInv' /\ UnlinkInv'
      BY <1>1, <1>2, <1>4 DEF InsertInv, RequestsInv, UnlinkInv
    <2>2. pFirstElem # Null => pFirstElem \in Elems /\ pFirstElem \in inUse
      BY <1>1 DEF WorkerInv, WorkerTypeOK
    <2> QED BY <2>1, <2>2, <1>1, <1>2 DEF ForgottenInv
  <1>10. WalkInv'
    <2> SUFFICES ASSUME NEW t \in Threads
                 PROVE  /\ InElement(t)' => pCurrElem'[t] \in inUse' /\ pCurrElem'[t] # Null
                        /\ wpc'[t] \in {"claim", "resolve", "check", "unlink"} =>
                             pNextElem'[t] = Null
      BY <1>3, <1>4 DEF WalkInv
    <2>1. CASE phase = "startup"
      <3>1. wpc[t] = "none"
        BY <2>1, <1>0, <1>1 DEF FlagsInv, Threads
      <3> QED BY <3>1, <1>3 DEF InElement
    <2>2. CASE phase = "opened"
      <3>1. InElement(t) => pCurrElem[t] \in inUse
        BY <2>2, <1>0 DEF ThereInv, WalkInv
      <3>2. wpc[t] \in {"claim", "resolve", "check", "unlink"} =>
                pNextElem[t] \in (inUse \ {pCurrElem[t]}) \cup {Null}
        BY <2>2, <1>0 DEF ThereInv, WalkInv, InList
      <3>3. wpc[t] \in {"claim", "resolve", "check", "unlink"} => pNextElem[t] = Null
        BY <3>1, <3>2, <1>1 DEF InElement
      <3> QED BY <3>1, <3>3, <1>1, <1>2, <1>3 DEF InElement
    <2> QED BY <2>1, <2>2, <1>0
  <1> QED BY <1>7, <1>8, <1>9, <1>10 DEF ThereInv, LinksInv

\* A new element is prepared: the list the worker sees is the one before.
LEMMA WorkerOpenStep ==
    ASSUME Null \notin Elems, WorkerInv, NEW c \in Channels, NEW e \in Elems, Open(c, e)
    PROVE  ThereInv'
  <1>1. /\ WorkerTypeOK /\ ThereInv /\ mpc = "idle" /\ e \notin inUse /\ e # Null
        /\ pLastElem # Null
    BY DEF WorkerInv, Open, MainRuns
  <1>2. /\ inUse' = inUse \cup {e} /\ delete' = delete \ {e}
        /\ pNext' = [pNext EXCEPT ![e] = Null]
        /\ pPrevious' = [pPrevious EXCEPT ![e] = pLastElem]
        /\ mpc' = "link" /\ pNewElem' = e
        /\ UNCHANGED <<pFirstElem, pLastElem, wpc, pCurrElem, pNextElem, v_addrInfoReq,
                       forgotten, Unlinking>>
    BY DEF Open, worker, Unlinking
  <1>3. /\ inUse \subseteq Elems /\ pNext \in [Elems -> Pointers]
        /\ pPrevious \in [Elems -> Pointers]
    BY <1>1 DEF WorkerTypeOK
  <1>4. /\ \A d \in inUse : pNext'[d] = pNext[d] /\ pPrevious'[d] = pPrevious[d] /\ d # e
        /\ pNext'[e] = Null /\ pPrevious'[e] = pLastElem
    BY <1>1, <1>2, <1>3
  <1>5. /\ Unlinking # Null => Unlinking \in inUse /\ pNext[Unlinking] \in InList
        /\ forgotten # Null => forgotten \in inUse
    BY <1>1 DEF ThereInv, UnlinkInv, ForgottenInv
  <1>6. /\ InList' = InList \cup {e} /\ e \notin InList /\ InList \subseteq inUse
        /\ Inserting' = {e} /\ Inserting = {}
    BY <1>1, <1>2, <1>5 DEF InList, Inserting
  <1>7. (\A d \in InList : Before(d)' = Before(d)) /\ Before(e)' = pLastElem
    BY <1>2, <1>4, <1>5, <1>6 DEF Before
  <1>8. pLastElem \in InList /\ pNext[pLastElem] = Null /\ pFirstElem \in InList
    BY <1>1 DEF ThereInv, LinksInv, Ends
  <1>9. Successors'
    BY <1>1, <1>4, <1>6, <1>7 DEF ThereInv, LinksInv, Successors
  <1>10. Predecessors'
    <2> SUFFICES ASSUME NEW d \in InList'
                 PROVE  /\ Before(d)' = Null => d = pFirstElem'
                        /\ Before(d)' # Null =>
                            /\ Before(d)' \in InList'
                            /\ \/ pNext'[Before(d)'] = d
                               \/ d \in Inserting' /\ Before(d)' = pLastElem'
      BY DEF Predecessors
    <2>1. CASE d = e
      BY <2>1, <1>1, <1>2, <1>6, <1>7, <1>8
    <2>2. CASE d \in InList
      <3>1. /\ Before(d) = Null => d = pFirstElem
            /\ Before(d) # Null => Before(d) \in InList /\ pNext[Before(d)] = d
        BY <2>2, <1>1, <1>6 DEF ThereInv, LinksInv, Predecessors
      <3> QED BY <2>2, <3>1, <1>2, <1>4, <1>6, <1>7
    <2> QED BY <2>1, <2>2, <1>6
  <1>11. Ends'
    BY <1>1, <1>2, <1>4, <1>6, <1>7, <1>8 DEF ThereInv, LinksInv, Ends
  <1>12. NoneLost'
    <2> SUFFICES ASSUME NEW S \in SUBSET Elems, ClosedUnderNext(S)'
                 PROVE  InList \subseteq S
      BY <1>6 DEF NoneLost
    <2> DEFINE T == S \cap InList
    <2>1. ASSUME NEW d \in T PROVE pNext[d] \in T \cup {Null}
      BY <2>1, <1>4, <1>6, <1>1 DEF ThereInv, LinksInv, Successors, ClosedUnderNext
    <2>2. pFirstElem \in T
      BY <1>1, <1>2, <1>3, <1>6, <1>8 DEF ClosedUnderNext
    <2>3. T \in SUBSET Elems /\ ClosedUnderNext(T)
      BY <2>1, <2>2 DEF ClosedUnderNext
    <2> QED BY <2>3, <1>1, <1>6 DEF ThereInv, LinksInv, NoneLost
  <1>13. InsertInv'
    <2>1. \A d \in Channels : v_addrInfoReq[d] # e
      BY <1>1 DEF ThereInv, RequestsInv
    <2> QED BY <2>1, <1>1, <1>2, <1>4, <1>6, <1>8 DEF InsertInv
  <1>14. WalkInv' /\ UnlinkInv' /\ ForgottenInv'
    <2>1. WalkInv'
      BY <1>1, <1>2, <1>6 DEF ThereInv, WalkInv, InElement
    <2>2. UnlinkInv'
      BY <1>1, <1>2, <1>4, <1>5, <1>6 DEF ThereInv, UnlinkInv, InList
    <2>3. ForgottenInv'
      BY <1>1, <1>2, <1>4, <1>5 DEF ThereInv, ForgottenInv
    <2> QED BY <2>1, <2>2, <2>3
  <1>15. RequestsInv'
    <2>1. \A d \in Channels : v_ConnectionState'[d] = "OPENING" => v_ConnectionState[d] = "OPENING"
      BY <1>1 DEF Open, WorkerTypeOK
    <2> QED BY <2>1, <1>1, <1>2 DEF ThereInv, RequestsInv
  <1> QED BY <1>9, <1>10, <1>11, <1>12, <1>13, <1>14, <1>15 DEF ThereInv, LinksInv

\* The store that makes the new element visible to the worker: whoever reaches
\* the old end now reaches the new one.
LEMMA WorkerLinkStep ==
    ASSUME Null \notin Elems, WorkerInv, Link
    PROVE  ThereInv'
  <1>1. WorkerTypeOK /\ ThereInv /\ mpc = "link"
    BY DEF WorkerInv, FlagsInv, Link
  <1>2. /\ pNext' = [pNext EXCEPT ![pLastElem] = pNewElem] /\ mpc' = "last"
        /\ UNCHANGED <<inUse, pPrevious, delete, pFirstElem, pLastElem, wpc, pCurrElem,
                       pNextElem, pNewElem, v_ConnectionState, v_addrInfoReq, forgotten,
                       Unlinking>>
    BY DEF Link, worker, channels, Unlinking
  <1>3. inUse \subseteq Elems /\ pNext \in [Elems -> Pointers] /\ InList \subseteq inUse
    BY <1>1 DEF WorkerTypeOK, InList
  <1>4. /\ pLastElem \in InList /\ pNext[pLastElem] = Null /\ pFirstElem \in InList
        /\ pNewElem \in InList \ delete /\ pNext[pNewElem] = Null
        /\ pPrevious[pNewElem] = pLastElem /\ pLastElem # pNewElem
        /\ \A c \in Channels : v_addrInfoReq[c] # pNewElem
    BY <1>1 DEF ThereInv, LinksInv, Ends, InsertInv
  <1>5. /\ \A d \in inUse \ {pLastElem} : pNext'[d] = pNext[d]
        /\ pNext'[pLastElem] = pNewElem /\ pLastElem # Null /\ pNewElem # Null
    BY <1>2, <1>3, <1>4
  <1>6. /\ Unlinking # Null =>
            Unlinking \in inUse /\ Unlinking \notin InList /\ pNext[Unlinking] # pNewElem
        /\ forgotten # Null => forgotten \in inUse /\ forgotten \notin InList
    BY <1>1, <1>4 DEF ThereInv, UnlinkInv, ForgottenInv, InList
  <1>7. InList' = InList /\ Inserting' = {} /\ Inserting = {pNewElem}
    BY <1>1, <1>2 DEF InList, Inserting
  <1>8. (\A d : Before(d)' = Before(d)) /\ Before(pNewElem) = pLastElem
    BY <1>2, <1>4, <1>5, <1>6 DEF Before
  <1>9. Successors'
    BY <1>1, <1>3, <1>4, <1>5, <1>7, <1>8 DEF ThereInv, LinksInv, Successors
  <1>10. Predecessors'
    BY <1>1, <1>2, <1>3, <1>4, <1>5, <1>7, <1>8 DEF ThereInv, LinksInv, Predecessors
  <1>11. Ends'
    BY <1>1, <1>2, <1>7, <1>8 DEF ThereInv, LinksInv, Ends
  <1>12. NoneLost'
    <2> SUFFICES ASSUME NEW S \in SUBSET Elems, ClosedUnderNext(S)'
                 PROVE  InList \subseteq S
      BY <1>7 DEF NoneLost
    <2> DEFINE T == S \cap InList
    <2>1. ASSUME NEW d \in T PROVE pNext[d] \in T \cup {Null}
      BY <2>1, <1>3, <1>4, <1>5, <1>1 DEF ThereInv, LinksInv, Successors, ClosedUnderNext
    <2>2. pFirstElem \in T
      BY <1>2, <1>3, <1>4 DEF ClosedUnderNext
    <2>3. T \in SUBSET Elems /\ ClosedUnderNext(T)
      BY <2>1, <2>2 DEF ClosedUnderNext
    <2>4. InList \ {pNewElem} \subseteq S
      BY <2>3, <1>1, <1>7 DEF ThereInv, LinksInv, NoneLost
    <2>5. pLastElem \in S
      BY <2>4, <1>4
    <2>6. pNewElem \in S
      BY <2>5, <1>5 DEF ClosedUnderNext
    <2> QED BY <2>4, <2>6
  <1>13. InsertInv'
    BY <1>2, <1>3, <1>4, <1>5, <1>7 DEF InsertInv
  <1>14. WalkInv' /\ UnlinkInv' /\ ForgottenInv'
    <2>1. WalkInv'
      BY <1>1, <1>2, <1>7 DEF ThereInv, WalkInv, InElement
    <2>2. UnlinkInv' /\ ForgottenInv'
      BY <1>1, <1>2, <1>4, <1>5, <1>6, <1>7 DEF ThereInv, UnlinkInv, ForgottenInv
    <2> QED BY <2>1, <2>2
  <1>15. RequestsInv'
    BY <1>1, <1>2 DEF ThereInv, RequestsInv
  <1> QED BY <1>9, <1>10, <1>11, <1>12, <1>13, <1>14, <1>15 DEF ThereInv, LinksInv

\* The last store of an insertion, after which the channel knows its request.
LEMMA WorkerLinkedStep ==
    ASSUME Null \notin Elems, WorkerInv, Linked
    PROVE  ThereInv' /\ pLastElem' # Null
  <1>1. WorkerTypeOK /\ ThereInv /\ mpc = "last"
    BY DEF WorkerInv, FlagsInv, Linked
  <1>2. /\ pLastElem' = pNewElem /\ mpc' = "idle"
        /\ v_addrInfoReq' = [v_addrInfoReq EXCEPT ![caller] = pNewElem]
        /\ v_ConnectionState' = [v_ConnectionState EXCEPT ![caller] = "OPENING"]
        /\ UNCHANGED <<inUse, pNext, pPrevious, delete, pFirstElem, wpc, pCurrElem, pNextElem,
                       forgotten, Unlinking>>
    BY DEF Linked, worker, Unlinking
  <1>3. /\ pNewElem \in InList \ delete /\ pNext[pNewElem] = Null /\ pNewElem # Null
        /\ \A c \in Channels : v_addrInfoReq[c] # pNewElem
    BY <1>1 DEF ThereInv, InsertInv, WorkerTypeOK, InList
  <1>4. InList' = InList /\ Inserting' = {} /\ Inserting = {} /\ \A d : Before(d)' = Before(d)
    BY <1>1, <1>2 DEF InList, Inserting, Before
  <1>5. Successors' /\ Predecessors'
    BY <1>1, <1>2, <1>4 DEF ThereInv, LinksInv, Successors, Predecessors
  <1>6. Ends' /\ NoneLost'
    BY <1>1, <1>2, <1>3, <1>4 DEF ThereInv, LinksInv, Ends, NoneLost, ClosedUnderNext
  <1>7. InsertInv' /\ WalkInv' /\ UnlinkInv' /\ ForgottenInv'
    BY <1>1, <1>2, <1>4
       DEF InsertInv, ThereInv, WalkInv, UnlinkInv, ForgottenInv, InElement
  <1>8. RequestsInv'
    <2>1. /\ v_addrInfoReq \in [Channels -> Pointers]
          /\ DOMAIN v_ConnectionState = Channels /\ pNewElem \in inUse \ delete
      BY <1>1, <1>3 DEF WorkerTypeOK, InList
    <2>2. \A c \in Channels :
            /\ v_addrInfoReq'[c] = IF c = caller THEN pNewElem ELSE v_addrInfoReq[c]
            /\ v_ConnectionState'[c] = IF c = caller THEN "OPENING" ELSE v_ConnectionState[c]
      BY <1>2, <2>1
    <2> QED BY <1>1, <1>2, <1>3, <2>1, <2>2 DEF ThereInv, RequestsInv
  <1> QED BY <1>2, <1>3, <1>5, <1>6, <1>7, <1>8 DEF ThereInv, LinksInv

\* The other steps of the channels change no link.
LEMMA ChannelStep ==
    ASSUME Null \notin Elems, WorkerInv, ThereInv, NEW c \in Channels,
           \/ OpenFails(c) \/ NoAddress(c) \/ AfterAddrinfo(c) \/ Close(c)
           \/ ChannelShutdown(c) /\ v_addrInfoReq[c] = Null
    PROVE  ThereInv' /\ pLastElem' = pLastElem
  <1> DEFINE req == v_addrInfoReq[c]
  <1>1. WorkerTypeOK /\ mpc = "idle" /\ inUse \subseteq Elems
    BY DEF WorkerInv, WorkerTypeOK, OpenFails, NoAddress, AfterAddrinfo,
           Close, ChannelShutdown, MainRuns, Answered
  <1>f. Free({Null}) => UNCHANGED <<inUse, delete, pNext>>
    BY <1>1 DEF WorkerTypeOK, Free
  <1>2. /\ UNCHANGED <<inUse, pNext, pPrevious, pFirstElem, pLastElem, mpc, pNewElem, wpc,
                       pCurrElem, pNextElem, forgotten>>
    BY <1>1, <1>f
       DEF OpenFails, NoAddress, AfterAddrinfo, Close,
           ChannelShutdown, list, worker, insert
  <1>3. /\ delete' \in {delete, delete \cup {req}}
        /\ delete' # delete => v_addrInfoReq' = [v_addrInfoReq EXCEPT ![c] = Null]
    BY <1>f DEF OpenFails, NoAddress, AfterAddrinfo, Close,
           ChannelShutdown, list
  <1>4. /\ v_addrInfoReq' \in {v_addrInfoReq, [v_addrInfoReq EXCEPT ![c] = Null]}
        /\ \A d \in Channels \ {c} : v_ConnectionState'[d] = v_ConnectionState[d]
        /\ v_addrInfoReq' # v_addrInfoReq => v_ConnectionState'[c] # "OPENING"
        /\ v_ConnectionState'[c] = "OPENING" => v_ConnectionState[c] = "OPENING"
    BY <1>1
       DEF WorkerTypeOK, OpenFails, NoAddress, AfterAddrinfo,
           Close, ChannelShutdown, channels
  <1>5. \A d \in Channels :
            v_addrInfoReq'[d] = v_addrInfoReq[d] \/ (d = c /\ v_addrInfoReq'[d] = Null)
    BY <1>1, <1>4 DEF WorkerTypeOK
  <1>6. delete' # delete => v_addrInfoReq'[c] = Null
    BY <1>1, <1>3 DEF WorkerTypeOK
  <1>7. RequestsInv'
    <2> SUFFICES ASSUME NEW d \in Channels
                 PROVE  /\ v_addrInfoReq'[d] \in (inUse' \ delete') \cup {Null}
                        /\ v_ConnectionState'[d] = "OPENING" => v_addrInfoReq'[d] # Null
                        /\ \A x \in Channels \ {d} :
                            v_addrInfoReq'[d] = v_addrInfoReq'[x] => v_addrInfoReq'[d] = Null
      BY DEF RequestsInv
    <2>1. /\ v_addrInfoReq[d] \in (inUse \ delete) \cup {Null}
          /\ v_ConnectionState[d] = "OPENING" => v_addrInfoReq[d] # Null
          /\ \A x \in Channels \ {d} :
                v_addrInfoReq[d] = v_addrInfoReq[x] => v_addrInfoReq[d] = Null
      BY DEF ThereInv, RequestsInv
    <2>2. v_addrInfoReq'[d] \in (inUse' \ delete') \cup {Null}
      BY <2>1, <1>2, <1>3, <1>5, <1>6
    <2>3. v_ConnectionState'[d] = "OPENING" => v_addrInfoReq'[d] # Null
      BY <2>1, <1>4, <1>5
    <2> QED BY <2>1, <2>2, <2>3, <1>5
  <1> QED BY <1>1, <1>2, <1>3, <1>7, MainQuiet

---------------------------------------------------------------------------
(* The steps of a worker thread.                                           *)

\* The steps that only read the links.
LEMMA WorkerReads ==
    ASSUME Null \notin Elems, WorkerInv, ThereInv, NEW t \in Threads,
           \/ BeginWalk(t) \/ Exit(t) \/ Visit(t) \/ Claim(t) \/ Keep(t)
           \/ \E s \in Sockets \ {"none"} : Resolve(t, s)
    PROVE  ThereInv'
  <1>1. UNCHANGED <<inUse, pNext, pPrevious, delete, pFirstElem, pLastElem, mpc,
                    pNewElem, v_ConnectionState, v_addrInfoReq, forgotten>>
    BY DEF BeginWalk, Exit, Visit, Claim, Keep, Advance,
           Resolve, list, insert, channels
  <1>2. /\ inUse \subseteq Elems /\ InList \subseteq inUse /\ wpc \in [Threads -> WorkerPcs]
        /\ pCurrElem \in [Threads -> Pointers] /\ pNextElem \in [Threads -> Pointers]
    BY DEF InList, WorkerInv, WorkerTypeOK
  <1>3. /\ wpc[t] # "unlink" /\ wpc'[t] # "unlink"
        /\ \A u \in Threads \ {t} : /\ wpc'[u] = wpc[u] /\ pCurrElem'[u] = pCurrElem[u]
                                    /\ pNextElem'[u] = pNextElem[u]
    BY <1>2 DEF BeginWalk, Exit, Visit, Claim, Keep, Advance, Resolve, WorkerAt
  <1>4. Unlinking' = Unlinking /\ InList' = InList
    <2>1. Unlinking' = Unlinking
      BY <1>3 DEF Unlinking, Threads
    <2> QED BY <2>1, <1>1 DEF InList
  <1>5. /\ InElement(t) => pCurrElem[t] \in inUse /\ pCurrElem[t] # Unlinking
        /\ wpc[t] \in {"claim", "resolve", "check"} =>
            pNextElem[t] \in (InList \ {pCurrElem[t]}) \cup {Null}
    BY <1>3 DEF ThereInv, WalkInv
  <1>6. ASSUME NEW u \in Threads \ {t}
        PROVE  /\ InElement(u)' => pCurrElem'[u] \in inUse
                    /\ (wpc'[u] # "unlink" => pCurrElem'[u] # Unlinking)
               /\ wpc'[u] \in {"claim", "resolve", "check", "unlink"} =>
                    pNextElem'[u] \in (InList \ {pCurrElem'[u]}) \cup {Null}
    BY <1>3 DEF ThereInv, WalkInv, InElement
  <1>7. /\ InElement(t)' => pCurrElem'[t] \in inUse /\ pCurrElem'[t] # Unlinking
        /\ wpc'[t] \in {"claim", "resolve", "check"} =>
            pNextElem'[t] \in (InList \ {pCurrElem'[t]}) \cup {Null}
    <2>1. CASE BeginWalk(t)
      <3>1. pFirstElem \in InList
        BY DEF ThereInv, LinksInv, Ends
      <3> QED BY <2>1, <3>1, <1>2 DEF BeginWalk, InElement, InList
    <2>2. CASE Exit(t)
      BY <2>2, <1>2 DEF Exit, InElement
    <2>3. CASE Visit(t)
      <3>1. /\ pCurrElem'[t] = pCurrElem[t] /\ pNextElem'[t] = pNext[pCurrElem[t]]
            /\ pCurrElem[t] \in inUse /\ pCurrElem[t] # Unlinking
        BY <2>3, <1>2, <1>5 DEF Visit, WorkerAt, InElement
      <3>2. pNext[pCurrElem[t]] \in (InList \ {pCurrElem[t]}) \cup {Null}
        <4>1. CASE pCurrElem[t] = forgotten
          BY <4>1, <3>1, <1>2 DEF ThereInv, ForgottenInv
        <4>2. CASE pCurrElem[t] \in InList
          BY <4>2, NoLoop DEF ThereInv, LinksInv, Successors, WorkerInv
        <4> QED BY <3>1, <4>1, <4>2 DEF InList
      <3> QED BY <3>1, <3>2
    <2>4. CASE Claim(t) \/ \E s \in Sockets \ {"none"} : Resolve(t, s)
      <3>1. wpc[t] \in {"claim", "resolve"} /\ UNCHANGED <<pCurrElem, pNextElem>>
        BY <2>4 DEF Claim, Resolve, WorkerAt
      <3> QED BY <3>1, <1>5 DEF InElement
    <2>5. CASE Keep(t)
      <3>1. /\ wpc[t] = "check" /\ pCurrElem'[t] = pNextElem[t]
            /\ wpc'[t] = IF pNextElem[t] = Null THEN "top" ELSE "elem"
        BY <2>5, <1>2 DEF Keep, WorkerAt, Advance
      <3> QED BY <3>1, <1>2, <1>5 DEF InElement, InList
    <2> QED BY <2>1, <2>2, <2>3, <2>4, <2>5
  <1>8. WalkInv'
    <2>1. \A u, v \in Threads : wpc'[u] = "unlink" /\ wpc'[v] = "unlink" => u = v
      BY <1>3 DEF ThereInv, WalkInv
    <2> QED BY <2>1, <1>1, <1>3, <1>4, <1>6, <1>7 DEF WalkInv
  <1> QED BY <1>1, <1>4, <1>8, WorkerQuiet

\* The first store of an unlinking leads past the element: everything behind it
\* is still reached.
LEMMA UnlinkForwardStep ==
    ASSUME Null \notin Elems, WorkerInv, ThereInv, NEW t \in Threads, UnlinkForward(t),
           \A u \in Threads \ {t} : ~InElement(u)
    PROVE  ThereInv'
  <1> DEFINE cur == pCurrElem[t]
             nxt == pNext[pCurrElem[t]]
             prv == pPrevious[pCurrElem[t]]
             L == inUse \ {forgotten}
  <1>1. /\ wpc[t] = "check" /\ cur \in delete /\ nxt # Null
        /\ wpc' = [wpc EXCEPT ![t] = "unlink"]
        /\ UNCHANGED <<inUse, pPrevious, delete, pLastElem, pCurrElem, pNextElem, mpc, pNewElem,
                       v_ConnectionState, v_addrInfoReq, forgotten>>
        /\ prv # Null => pNext' = [pNext EXCEPT ![prv] = nxt] /\ pFirstElem' = pFirstElem
        /\ prv = Null => pNext' = pNext /\ pFirstElem' = nxt
    BY DEF UnlinkForward, WorkerAt, MayFree, insert, channels
  <1>a. /\ \A u \in Threads : wpc[u] # "unlink"
        /\ \A u \in Threads : (wpc'[u] = "unlink" \/ InElement(u)') <=> u = t
        /\ wpc'[t] = "unlink"
    BY <1>1 DEF InElement, WorkerInv, WorkerTypeOK
  <1>b. Unlinking = Null /\ Unlinking' = cur
    BY <1>1, <1>a DEF Unlinking, Threads
  <1>2. /\ InList = L /\ L \subseteq Elems /\ pNext \in [Elems -> Pointers]
        /\ InList' = L \ {cur} /\ cur \in L /\ Inserting' = Inserting
    <2>1. inUse \subseteq Elems /\ pNext \in [Elems -> Pointers] /\ cur \in inUse
      BY <1>1, <1>a DEF WorkerInv, WorkerTypeOK, ThereInv, WalkInv, InElement
    <2>2. cur # forgotten
      BY <2>1, <1>1 DEF ThereInv, ForgottenInv, WorkerInv, WorkerTypeOK
    <2> QED BY <2>1, <2>2, <1>1, <1>b DEF InList, Inserting
  <1>3. /\ \A d : Before(d) = pPrevious[d]
        /\ \A d : Before(d)' = IF d = pNext'[cur] THEN prv ELSE pPrevious[d]
    BY <1>1, <1>2, <1>b DEF Before
  <1>4. nxt \in L /\ pPrevious[nxt] = cur /\ nxt # cur
    BY <1>1, <1>2, <1>3, NoLoop DEF ThereInv, LinksInv, Successors, WorkerInv
  <1>5. cur \notin Inserting
    BY <1>1 DEF ThereInv, InsertInv, Inserting
  <1>6. /\ prv = Null => cur = pFirstElem
        /\ prv # Null => prv \in L /\ pNext[prv] = cur /\ prv # cur
    BY <1>2, <1>3, <1>4, <1>5 DEF ThereInv, LinksInv, Predecessors
  <1>7. /\ \A d \in L : d # prv => pNext'[d] = pNext[d]
        /\ prv # Null => pNext'[prv] = nxt
        /\ pNext'[cur] = nxt
    BY <1>1, <1>2, <1>6
  <1>8. \A d : Before(d)' = IF d = nxt THEN prv ELSE pPrevious[d]
    BY <1>3, <1>7
  <1>9. \A e : Before(pNext[e])' = IF pNext'[e] = nxt THEN prv ELSE pPrevious[pNext'[e]]
    BY <1>1, <1>2, <1>7, <1>b DEF Before
  <1>10. Before(pFirstElem)' = IF pFirstElem' = nxt THEN prv ELSE pPrevious[pFirstElem']
    BY <1>1, <1>2, <1>7, <1>b DEF Before
  <1> HIDE DEF cur, nxt, prv, L
  <1>11. \A e \in L : pNext[e] # Null => pNext[e] \in L /\ pPrevious[pNext[e]] = e
    BY <1>2, <1>3 DEF ThereInv, LinksInv, Successors
  <1>12. \A d \in L :
            /\ pPrevious[d] = Null => d = pFirstElem
            /\ pPrevious[d] # Null =>
                /\ pPrevious[d] \in L
                /\ pNext[pPrevious[d]] = d \/ (d \in Inserting /\ pPrevious[d] = pLastElem)
    BY <1>2, <1>3 DEF ThereInv, LinksInv, Predecessors
  <1>13. /\ pFirstElem \in L /\ pPrevious[pFirstElem] = Null
         /\ mpc # "last" => pLastElem \in L /\ pNext[pLastElem] = Null
    BY <1>2, <1>3 DEF ThereInv, LinksInv, Ends
  <1>14. pPrevious[cur] = prv /\ pNext[cur] = nxt /\ cur # Null /\ nxt # Null
    BY <1>1, <1>2 DEF cur, nxt, prv
  <1>15. /\ prv # Null => pFirstElem' = pFirstElem
         /\ prv = Null => pFirstElem' = nxt
         /\ pLastElem' = pLastElem /\ mpc' = mpc
    BY <1>1
  <1>16. Successors'
    <2> SUFFICES ASSUME NEW e \in L \ {cur}, pNext'[e] # Null
                 PROVE  pNext'[e] \in L \ {cur} /\ Before(pNext[e])' = e
      BY <1>2 DEF Successors
    <2>1. CASE e = prv
      BY <2>1, <1>2, <1>4, <1>6, <1>7, <1>9
    <2>2. CASE e # prv
      BY <2>2, <1>4, <1>7, <1>11, <1>14, <1>9
    <2> QED BY <2>1, <2>2
  <1>17. Predecessors'
    <2> SUFFICES ASSUME NEW d \in L \ {cur}
                 PROVE  /\ Before(d)' = Null => d = pFirstElem'
                        /\ Before(d)' # Null =>
                            /\ Before(d)' \in L \ {cur}
                            /\ \/ pNext'[Before(d)'] = d
                               \/ d \in Inserting /\ Before(d)' = pLastElem'
      BY <1>2 DEF Predecessors
    <2>1. CASE d = nxt
      BY <2>1, <1>6, <1>7, <1>8, <1>15
    <2>2. CASE d # nxt
      <3>1. Before(d)' = pPrevious[d]
        BY <2>2, <1>8
      <3>2. pPrevious[d] = Null => d = pFirstElem'
        BY <1>6, <1>12, <1>15
      <3>3. ASSUME pPrevious[d] # Null
            PROVE  /\ pPrevious[d] \in L \ {cur}
                   /\ pNext'[pPrevious[d]] = d \/ (d \in Inserting /\ pPrevious[d] = pLastElem')
        <4>1. pPrevious[d] \in L
          BY <3>3, <1>12
        <4>2. CASE pNext[pPrevious[d]] = d
          BY <3>3, <4>1, <4>2, <2>2, <1>6, <1>7, <1>14
        <4>3. CASE d \in Inserting /\ pPrevious[d] = pLastElem
          <5>1. mpc # "last"
            BY <4>3 DEF Inserting
          <5> QED BY <4>1, <4>3, <5>1, <1>13, <1>14, <1>15
        <4> QED BY <3>3, <4>2, <4>3, <1>12
      <3> QED BY <3>1, <3>2, <3>3
    <2> QED BY <2>1, <2>2
  <1>18. Ends'
    <2>1. pFirstElem' \in L \ {cur} /\ Before(pFirstElem)' = Null
      BY <1>4, <1>6, <1>13, <1>14, <1>15, <1>10
    <2>2. mpc # "last" => pLastElem \in L \ {cur} /\ pNext'[pLastElem] = Null
      BY <1>2, <1>6, <1>7, <1>13, <1>14
    <2> QED BY <2>1, <2>2, <1>2, <1>15 DEF Ends
  <1>19. NoneLost'
    <2> SUFFICES ASSUME NEW S \in SUBSET Elems, ClosedUnderNext(S)'
                 PROVE  (L \ {cur}) \ Inserting \subseteq S
      BY <1>2 DEF NoneLost
    <2>1. pFirstElem' \in S \cup {Null} /\ \A d \in S : pNext'[d] \in S \cup {Null}
      BY DEF ClosedUnderNext
    <2> DEFINE T == (S \cap L) \cup (IF prv # Null => prv \in S THEN {cur} ELSE {})
    <2>2. pFirstElem \in T
      BY <2>1, <1>2, <1>6, <1>13, <1>15
    <2>3. ASSUME NEW d \in T PROVE pNext[d] \in T \cup {Null}
      <3>1. CASE d = cur
        <4>1. nxt \in S
          BY <2>1, <2>3, <3>1, <1>2, <1>4, <1>7, <1>14, <1>15
        <4> QED BY <3>1, <4>1, <1>4, <1>14
      <3>2. CASE d # cur /\ d = prv
        BY <3>2, <1>2, <1>6, <2>3
      <3>3. CASE d # cur /\ d # prv
        BY <3>3, <2>1, <1>7, <1>11, <2>3
      <3> QED BY <3>1, <3>2, <3>3
    <2>4. T \in SUBSET Elems
      BY <1>2 DEF cur
    <2>5. ClosedUnderNext(T)
      BY <2>2, <2>3 DEF ClosedUnderNext
    <2>6. L \ Inserting \subseteq T
      BY <2>4, <2>5, <1>2 DEF ThereInv, LinksInv, NoneLost
    <2> QED BY <2>6
  <1>20. InsertInv'
    <2>1. mpc \in {"link", "last"} => pNewElem \in L \ delete /\ pNext[pNewElem] = Null
      BY <1>2 DEF ThereInv, InsertInv
    <2>2. mpc \in {"link", "last"} => pNext'[pNewElem] = Null
      BY <2>1, <1>2, <1>6, <1>7, <1>14
    <2>3. cur \in delete
      BY <1>1 DEF cur
    <2> QED BY <2>1, <2>2, <2>3, <1>1, <1>2 DEF InsertInv, ThereInv
  <1>21. WalkInv' /\ UnlinkInv' /\ ForgottenInv'
    <2>1. /\ pCurrElem' = pCurrElem /\ pCurrElem[t] = cur /\ cur \in inUse \cap delete
          /\ pPrevious'[cur] # cur /\ cur # forgotten' /\ pPrevious' = pPrevious
      BY <1>1, <1>2, <1>6, <1>14 DEF cur, L
    <2>2. pNext'[cur] \in InList' /\ pPrevious'[pNext'[cur]] = cur
      BY <2>1, <1>2, <1>4, <1>7
    <2>3. pNextElem'[t] \in (InList' \ {cur}) \cup {Null}
      <3>1. pNextElem[t] \in (L \ {cur}) \cup {Null}
        BY <1>1, <1>2 DEF ThereInv, WalkInv, cur
      <3> QED BY <3>1, <1>1, <1>2
    <2>4. WalkInv'
      BY <2>1, <2>3, <1>1, <1>a DEF WalkInv, InElement
    <2>5. UnlinkInv'
      BY <2>1, <2>2, <1>b, <1>1 DEF UnlinkInv
    <2>6. ForgottenInv'
      <3>1. forgotten # Null => forgotten \in inUse \cap delete /\ pNext[forgotten] = Null
        BY DEF ThereInv, ForgottenInv
      <3>2. prv # Null => prv # forgotten
        BY <1>6 DEF L
      <3>3. prv = Null => pNext' = pNext
        BY <1>1 DEF prv
      <3>4. prv # Null => pNext' = [pNext EXCEPT ![prv] = nxt]
        BY <1>1 DEF prv, nxt
      <3>5. forgotten # Null => pNext'[forgotten] = pNext[forgotten]
        BY <3>1, <3>2, <3>3, <3>4, <1>2 DEF WorkerInv, WorkerTypeOK
      <3> QED BY <3>1, <3>5, <1>1 DEF ForgottenInv
    <2> QED BY <2>4, <2>5, <2>6
  <1>22. RequestsInv'
    BY <1>1 DEF ThereInv, RequestsInv
  <1> QED BY <1>16, <1>17, <1>18, <1>19, <1>20, <1>21, <1>22 DEF ThereInv, LinksInv

\* The second store and the free: what the list was for the worker, it is now
\* for all threads.
LEMMA UnlinkBackStep ==
    ASSUME Null \notin Elems, WorkerInv, ThereInv, NEW t \in Threads, UnlinkBackAndFree(t)
    PROVE  ThereInv'
  <1> DEFINE cur == pCurrElem[t]
  <1>1. /\ wpc[t] = "unlink"
        /\ wpc' = [wpc EXCEPT ![t] = IF pNextElem[t] = Null THEN "top" ELSE "elem"]
        /\ pCurrElem' = [pCurrElem EXCEPT ![t] = pNextElem[t]]
        /\ pNextElem' = [pNextElem EXCEPT ![t] = Null]
        /\ pPrevious' = [pPrevious EXCEPT ![pNext[cur]] = pPrevious[cur], ![cur] = Null]
        /\ inUse' = inUse \ {cur} /\ delete' = delete \ {cur}
        /\ pNext' = [e \in Elems |-> IF e \in {cur} THEN Null ELSE pNext[e]]
        /\ UNCHANGED <<pFirstElem, pLastElem, mpc, pNewElem, v_ConnectionState,
                       v_addrInfoReq, forgotten>>
    BY DEF UnlinkBackAndFree, WorkerAt, Advance, Free, insert, channels
  <1>t. /\ wpc \in [Threads -> WorkerPcs] /\ pCurrElem \in [Threads -> Pointers]
        /\ pNextElem \in [Threads -> Pointers] /\ inUse \subseteq Elems
        /\ pNext \in [Elems -> Pointers] /\ pPrevious \in [Elems -> Pointers]
    BY DEF WorkerInv, WorkerTypeOK
  <1>a. /\ \A u \in Threads \ {t} : wpc[u] # "unlink" /\ wpc'[u] = wpc[u]
        /\ \A u \in Threads : wpc'[u] # "unlink"
    BY <1>1, <1>t DEF ThereInv, WalkInv
  <1>b. Unlinking = cur /\ Unlinking' = Null
    BY <1>1, <1>a DEF Unlinking, Threads
  <1>c. cur \in inUse /\ cur # Null
    BY <1>1, <1>t DEF ThereInv, WalkInv, InElement
  <1>2. /\ InList = inUse \ {cur, forgotten} /\ InList' = InList /\ InList \subseteq inUse'
        /\ Inserting' = Inserting
    BY <1>1, <1>b, <1>t DEF InList, Inserting
  <1>3. /\ cur \in delete /\ cur # forgotten /\ pNext[cur] \in InList
        /\ pPrevious[pNext[cur]] = cur
    BY <1>b, <1>c DEF ThereInv, UnlinkInv
  <1>4. \A d \in InList : pNext'[d] = pNext[d] /\ Before(d)' = Before(d)
    BY <1>1, <1>2, <1>3, <1>b, <1>c, <1>t DEF Before
  <1>5. Successors'
    BY <1>2, <1>4 DEF ThereInv, LinksInv, Successors
  <1>6. Predecessors'
    <2> SUFFICES ASSUME NEW d \in InList
                 PROVE  /\ Before(d)' = Null => d = pFirstElem'
                        /\ Before(d)' # Null =>
                            /\ Before(d)' \in InList
                            /\ \/ pNext'[Before(d)'] = d
                               \/ d \in Inserting /\ Before(d)' = pLastElem'
      BY <1>2 DEF Predecessors
    <2> QED BY <1>1, <1>2, <1>4 DEF ThereInv, LinksInv, Predecessors
  <1>7. Ends'
    BY <1>1, <1>2, <1>4 DEF ThereInv, LinksInv, Ends
  <1>8. NoneLost'
    <2> SUFFICES ASSUME NEW S \in SUBSET Elems, ClosedUnderNext(S)'
                 PROVE  InList \ Inserting \subseteq S
      BY <1>2 DEF NoneLost
    <2> DEFINE T == S \cap InList
    <2>1. ASSUME NEW d \in T PROVE pNext[d] \in T \cup {Null}
      BY <2>1, <1>4 DEF ThereInv, LinksInv, Successors, ClosedUnderNext
    <2>2. pFirstElem \in T
      BY <1>1, <1>2, <1>t DEF ClosedUnderNext, ThereInv, LinksInv, Ends
    <2>3. T \in SUBSET Elems /\ ClosedUnderNext(T)
      BY <2>1, <2>2 DEF ClosedUnderNext
    <2> QED BY <2>3 DEF ThereInv, LinksInv, NoneLost
  <1>9. InsertInv'
    <2>1. mpc \in {"link", "last"} => pNewElem \in InList
      BY DEF ThereInv, InsertInv
    <2>2. mpc = "link" => pPrevious'[pNewElem] = pLastElem
      <3>1. mpc = "link" =>
                pNewElem \in InList /\ pPrevious[pNewElem] = pLastElem /\ pLastElem \in InList
        BY DEF ThereInv, LinksInv, Ends, InsertInv
      <3>2. mpc = "link" => pNewElem # pNext[cur] /\ pNewElem # cur
        BY <3>1, <1>2, <1>3
      <3> QED BY <3>1, <3>2, <1>1, <1>2, <1>t
    <2> QED BY <2>1, <2>2, <1>1, <1>2, <1>4 DEF ThereInv, InsertInv
  <1>10. WalkInv' /\ UnlinkInv' /\ ForgottenInv'
    <2>1. ASSUME NEW u \in Threads \ {t}
          PROVE  /\ InElement(u)' => pCurrElem'[u] \in inUse' /\ pCurrElem'[u] # Null
                 /\ wpc'[u] \in {"claim", "resolve", "check", "unlink"} =>
                      pNextElem'[u] \in (InList' \ {pCurrElem'[u]}) \cup {Null}
      BY <1>1, <1>2, <1>a, <1>b, <1>t DEF ThereInv, WalkInv, InElement
    <2>2. /\ InElement(t)' => pCurrElem'[t] \in inUse' /\ pCurrElem'[t] # Null
          /\ wpc'[t] \notin {"claim", "resolve", "check", "unlink"}
      <3>1. pNextElem[t] \in InList \cup {Null}
        BY <1>1 DEF ThereInv, WalkInv
      <3>2. /\ wpc'[t] = IF pNextElem[t] = Null THEN "top" ELSE "elem"
            /\ pCurrElem'[t] = pNextElem[t]
        BY <1>1, <1>t
      <3> QED BY <3>1, <3>2, <1>2 DEF InElement
    <2>3. WalkInv'
      BY <2>1, <2>2, <1>a, <1>b DEF WalkInv
    <2>4. UnlinkInv'
      BY <1>b DEF UnlinkInv
    <2>5. ForgottenInv'
      BY <1>1, <1>3, <1>t DEF ThereInv, ForgottenInv
    <2> QED BY <2>3, <2>4, <2>5
  <1>11. RequestsInv'
    <2>1. \A c \in Channels : v_addrInfoReq[c] # cur \/ v_addrInfoReq[c] = Null
      BY <1>3 DEF ThereInv, RequestsInv
    <2> QED BY <2>1, <1>1 DEF ThereInv, RequestsInv
  <1> QED BY <1>5, <1>6, <1>7, <1>8, <1>9, <1>10, <1>11 DEF ThereInv, LinksInv

---------------------------------------------------------------------------
(* All steps, and the theorems.                                            *)

\* Once the memory is undermined, the model ends.
LEMMA StepsWhileDefined ==
    ASSUME WorkerNext
    PROVE  phase # "undermined"
  BY DEF WorkerNext, MainStep, WorkerStep, Startup, RestartThread, Shutdown, ShutdownFrees,
         Joined, Link, Linked, OpenFails, Open, MainRuns, NoAddress, AfterAddrinfo, Answered,
         Close, ChannelShutdown, BeginWalk, Exit, Visit, Claim, Resolve, Keep, UnlinkForward,
         UnlinkBackAndFree, WorkerAt

\* Freeing cells keeps the types.
LEMMA FreeTyped ==
    ASSUME WorkerTypeOK, NEW cells, Free(cells)
    PROVE  /\ inUse' \subseteq Elems /\ delete' \subseteq Elems
           /\ pNext' \in [Elems -> Pointers]
           /\ status' \in [Elems -> {"waiting", "working", "done"}]
           /\ socket' \in [Elems -> Sockets]
  BY DEF WorkerTypeOK, Free, Pointers, Sockets

\* Every step keeps the types: pointers that are followed are not null.
LEMMA WorkerTyped ==
    ASSUME WorkerInv, WorkerNext
    PROVE  WorkerTypeOK'
  <1>a. WorkerTypeOK /\ FlagsInv /\ (pLastElem # Null => ThereInv)
    BY StepsWhileDefined DEF WorkerInv
  <1>b. \A t \in Threads : InElement(t) => pCurrElem[t] \in Elems
    BY <1>a DEF FlagsInv, ThereInv, WalkInv, InElement, WorkerTypeOK
  <1>c. \A c \in Channels : Answered(c) => v_addrInfoReq[c] \in Elems
    BY <1>a DEF FlagsInv, ThereInv, RequestsInv, Answered, WorkerTypeOK
  <1>d. "first" \in Threads /\ "second" \in Threads
    BY DEF Threads
  <1> USE <1>a DEF WorkerTypeOK, Pointers, list, answers, worker,
              threads, flags, insert, channels
  <1>1. ASSUME NEW t \in Threads, NEW ok \in BOOLEAN, CreateThread(t, ok)
        PROVE  /\ wpc' \in [Threads -> WorkerPcs] /\ v_threadHandle' \in Threads
               /\ workerThreadRunning' \in BOOLEAN
    <2>1. CASE ok
      <3>1. wpc' = [wpc EXCEPT ![t] = "top"] /\ v_threadHandle' = t
        BY <1>1, <2>1 DEF CreateThread
      <3>2. workerThreadRunning' = TRUE
        BY <1>1, <2>1 DEF CreateThread
      <3> QED BY <3>1, <3>2 DEF WorkerPcs
    <2>2. CASE ~ok
      <3>1. wpc' = wpc /\ v_threadHandle' = v_threadHandle
        BY <1>1, <2>2 DEF CreateThread
      <3>2. workerThreadRunning' = workerThreadRunning
        BY ZenonT(40), <1>1, <2>2 DEF CreateThread
      <3> QED BY <3>1, <3>2
    <2> QED BY <2>1, <2>2
  <1>2. CASE Startup
    <2>1. PICK ok \in BOOLEAN :
            /\ CreateThread(IF phase = "startup" THEN "first" ELSE "second", ok)
            /\ v_handleValid' = ok
      BY <1>2 DEF Startup
    <2>2. /\ wpc' \in [Threads -> WorkerPcs] /\ v_threadHandle' \in Threads
          /\ workerThreadRunning' \in BOOLEAN
      BY <2>1, <1>1, <1>d
    <2>3. v_handleValid' \in BOOLEAN
      BY ZenonT(40), <2>1
    <2>4. /\ inUse' \subseteq Elems /\ delete' \subseteq Elems
          /\ pNext' \in [Elems -> Pointers] /\ pPrevious' \in [Elems -> Pointers]
          /\ pFirstElem' \in Pointers /\ pLastElem' \in Pointers /\ forgotten' \in Pointers
          /\ phase' \in {"startup", "opened", "up", "join", "down", "undermined"}
      BY <1>2 DEF Startup
    <2>5. runWorkerThread' \in BOOLEAN
      BY <1>2 DEF Startup
    <2> QED BY <1>2, <2>2, <2>3, <2>4, <2>5 DEF Startup
  <1>3. CASE RestartThread
    <2>1. PICK ok \in BOOLEAN :
            CreateThread("first", ok) /\ v_handleValid' = (ok /\ v_handleValid)
      BY <1>3 DEF RestartThread
    <2>2. /\ wpc' \in [Threads -> WorkerPcs] /\ v_threadHandle' \in Threads
          /\ workerThreadRunning' \in BOOLEAN
      BY <2>1, <1>1, <1>d
    <2>3. v_handleValid' \in BOOLEAN
      BY ZenonT(40), <2>1
    <2>4. runWorkerThread' \in BOOLEAN
      BY <1>3 DEF RestartThread
    <2> QED BY <1>3, <2>2, <2>3, <2>4 DEF RestartThread
  <1>4. CASE Shutdown
    BY <1>4 DEF Shutdown
  <1>5. CASE ShutdownFrees
    <2>1. Free({e \in Reached : pNext[e] # Null})
      BY <1>5 DEF ShutdownFrees
    <2>2. v_handleValid' \in BOOLEAN
      BY <1>5 DEF ShutdownFrees
    <2> QED BY <1>5, <2>1, <2>2, FreeTyped DEF ShutdownFrees
  <1>6. CASE Link
    <2>1. pNext' \in [Elems -> Pointers] /\ mpc' \in {"idle", "link", "last"}
      BY <1>6 DEF Link
    <2> QED BY <1>6, <2>1 DEF Link
  <1>7. CASE Linked
    <2>1. /\ v_addrInfoReq' \in [Channels -> Pointers]
          /\ v_actimode' \in [Channels -> {0, 1}]
          /\ v_ConnectionState' \in [Channels -> {"CLOSED", "OPENING", "OPEN", "COULDNOTOPEN"}]
      BY <1>7 DEF Linked
    <2> QED BY <1>7, <2>1 DEF Linked
  <1>8. ASSUME NEW c \in Channels, OpenFails(c) \/ NoAddress(c) \/ Close(c)
        PROVE  WorkerTypeOK'
    BY <1>8 DEF OpenFails, NoAddress, Close, Answered
  <1>9. ASSUME NEW c \in Channels, AfterAddrinfo(c)
        PROVE  WorkerTypeOK'
    <2>1. /\ v_addrInfoReq' \in [Channels -> Pointers]
          /\ v_actimode' \in [Channels -> {0, 1}]
          /\ v_ConnectionState' \in [Channels -> {"CLOSED", "OPENING", "OPEN", "COULDNOTOPEN"}]
      BY <1>9 DEF AfterAddrinfo, Answered
    <2>2. inUse' = inUse /\ delete' = delete \cup {v_addrInfoReq[c]}
      BY <1>9 DEF AfterAddrinfo
    <2>3. v_addrInfoReq[c] \in Elems
      BY <1>9, <1>c DEF AfterAddrinfo
    <2> QED BY <1>9, <2>1, <2>2, <2>3 DEF AfterAddrinfo
  <1>10. ASSUME NEW c \in Channels, ChannelShutdown(c)
         PROVE  WorkerTypeOK'
    <2>1. /\ v_addrInfoReq' \in [Channels -> Pointers]
          /\ v_actimode' \in [Channels -> {0, 1}]
          /\ v_ConnectionState' \in [Channels -> {"CLOSED", "OPENING", "OPEN", "COULDNOTOPEN"}]
      BY <1>10 DEF ChannelShutdown
    <2>2. Free({v_addrInfoReq[c]})
      BY <1>10 DEF ChannelShutdown
    <2> QED BY <1>10, <2>1, <2>2, FreeTyped DEF ChannelShutdown
  <1>11. ASSUME NEW c \in Channels, NEW e \in Elems, Open(c, e)
        PROVE  WorkerTypeOK'
    <2>1. /\ pNext' \in [Elems -> Pointers] /\ pPrevious' \in [Elems -> Pointers]
          /\ status' \in [Elems -> {"waiting", "working", "done"}]
      BY <1>11 DEF Open
    <2>2. /\ socket' \in [Elems -> Sockets]
          /\ v_ConnectionState' \in [Channels -> {"CLOSED", "OPENING", "OPEN", "COULDNOTOPEN"}]
      BY <1>11 DEF Open, Sockets
    <2> QED BY <1>11, <2>1, <2>2 DEF Open
  <1>12. ASSUME NEW t \in Threads, BeginWalk(t) \/ Exit(t) \/ Keep(t)
         PROVE  WorkerTypeOK'
    <2>1. CASE BeginWalk(t)
      <3>1. wpc' \in [Threads -> WorkerPcs] /\ pCurrElem' \in [Threads -> Pointers]
        BY <2>1 DEF BeginWalk, WorkerPcs
      <3> QED BY <2>1, <3>1 DEF BeginWalk
    <2>2. CASE Exit(t)
      <3>1. wpc' \in [Threads -> WorkerPcs]
        BY <2>2 DEF Exit, WorkerPcs
      <3>2. workerThreadRunning' \in BOOLEAN
        BY <2>2 DEF Exit
      <3> QED BY <2>2, <3>1, <3>2 DEF Exit
    <2>3. CASE Keep(t)
      <3>1. /\ wpc' \in [Threads -> WorkerPcs] /\ pCurrElem' \in [Threads -> Pointers]
            /\ pNextElem' \in [Threads -> Pointers]
        BY <2>3 DEF Keep, Advance, WorkerPcs
      <3> QED BY <2>3, <3>1 DEF Keep
    <2> QED BY <1>12, <2>1, <2>2, <2>3
  <1>13. ASSUME NEW t \in Threads, Visit(t) \/ Claim(t)
         PROVE  WorkerTypeOK'
    <2>1. CASE Visit(t)
      <3>1. pCurrElem[t] \in Elems
        BY <2>1, <1>b DEF Visit, WorkerAt, InElement
      <3>2. wpc' \in [Threads -> WorkerPcs] /\ pNextElem' \in [Threads -> Pointers]
        BY <2>1, <3>1 DEF Visit, WorkerPcs
      <3> QED BY <2>1, <3>2 DEF Visit
    <2>2. CASE Claim(t)
      <3>1. /\ wpc' \in [Threads -> WorkerPcs]
            /\ status' \in [Elems -> {"waiting", "working", "done"}]
        BY <2>2 DEF Claim, WorkerPcs
      <3> QED BY <2>2, <3>1 DEF Claim
    <2> QED BY <1>13, <2>1, <2>2
  <1>14. ASSUME NEW t \in Threads, NEW s \in Sockets \ {"none"}, Resolve(t, s)
         PROVE  WorkerTypeOK'
    <2>1. /\ socket' \in [Elems -> Sockets] /\ wpc' \in [Threads -> WorkerPcs]
          /\ status' \in [Elems -> {"waiting", "working", "done"}]
      BY <1>14 DEF Resolve, WorkerPcs
    <2> QED BY <1>14, <2>1 DEF Resolve
  <1>15. ASSUME NEW t \in Threads, UnlinkForward(t)
         PROVE  WorkerTypeOK'
    <2>1. pNext[pCurrElem[t]] \in Pointers
      BY <1>15, <1>b DEF UnlinkForward, WorkerAt, InElement
    <2>2. pNext' \in [Elems -> Pointers] /\ pFirstElem' \in Pointers
      BY <1>15, <2>1 DEF UnlinkForward
    <2>3. wpc' \in [Threads -> WorkerPcs]
      BY <1>15 DEF UnlinkForward, WorkerPcs
    <2>4. phase' \in {"startup", "opened", "up", "join", "down", "undermined"}
      BY <1>15 DEF UnlinkForward
    <2> QED BY <1>15, <2>2, <2>3, <2>4 DEF UnlinkForward
  <1>16. ASSUME NEW t \in Threads, UnlinkBackAndFree(t)
         PROVE  WorkerTypeOK'
    <2>1. pPrevious[pCurrElem[t]] \in Pointers
      BY <1>16, <1>b DEF UnlinkBackAndFree, WorkerAt, InElement
    <2>2. pPrevious' \in [Elems -> Pointers]
      BY <1>16, <2>1 DEF UnlinkBackAndFree
    <2>3. Free({pCurrElem[t]})
      BY <1>16 DEF UnlinkBackAndFree
    <2>4. /\ wpc' \in [Threads -> WorkerPcs] /\ pCurrElem' \in [Threads -> Pointers]
          /\ pNextElem' \in [Threads -> Pointers]
      BY <1>16 DEF UnlinkBackAndFree, Advance, WorkerPcs
    <2> QED BY <1>16, <2>2, <2>3, <2>4, FreeTyped DEF UnlinkBackAndFree
  <1> QED BY <1>2, <1>3, <1>4, <1>5, <1>6, <1>7, <1>8, <1>9, <1>10, <1>11, <1>12, <1>13,
             <1>14, <1>15, <1>16 DEF WorkerNext, MainStep, WorkerStep

\* Every step of the main thread keeps the phases of the worker object and its threads.
LEMMA FlagsKeptByMain ==
    ASSUME Null \notin Elems, WorkerInv, MainStep, phase # "undermined",
           phase' # "undermined"
    PROVE  FlagsInv'
  <1>a. WorkerTypeOK /\ FlagsInv /\ "first" \in Threads /\ "second" \in Threads
    BY DEF WorkerInv, Threads
  <1> USE <1>a DEF list, worker, threads, flags, insert, channels
  <1>1. CASE Startup
    <2> PICK e \in Elems \ inUse :
            /\ inUse' = inUse \cup {e} /\ delete' = delete \cup {e}
            /\ pNext' = [pNext EXCEPT ![e] = Null] /\ pPrevious' = [pPrevious EXCEPT ![e] = Null]
            /\ pFirstElem' = e /\ pLastElem' = e
      BY <1>1 DEF Startup
    <2>1. PICK ok \in BOOLEAN : CreateThread(IF phase = "startup" THEN "first" ELSE "second", ok)
      BY <1>1 DEF Startup
    <2>2. CASE phase = "startup"
      <3>1. /\ wpc["first"] = "none" /\ wpc["second"] = "none" /\ pFirstElem = Null
            /\ inUse = {} /\ pNext' = pNext /\ pPrevious' = pPrevious
            /\ pNext = [x \in Elems |-> Null] /\ pPrevious = [x \in Elems |-> Null]
        BY <2>2 DEF FlagsInv
      <3>2. /\ wpc'["second"] = "none" /\ \A t \in Threads : wpc'[t] # "unlink"
            /\ ~workerThreadRunning' => \A t \in Threads : wpc'[t] = "none"
        BY <2>1, <2>2, <3>1 DEF CreateThread, Threads, WorkerTypeOK
      <3>3. runWorkerThread' /\ phase' \in {"opened", "up"} /\ pLastElem' # Null
        BY <1>1, <2>2 DEF Startup
      <3>4. inUse' = {pFirstElem'} \ {Null} /\ inUse' \subseteq delete' /\ forgotten' = Null
        BY <1>1, <3>1 DEF Startup
      <3>5. UNCHANGED <<mpc, v_addrInfoReq, v_ConnectionState>>
        BY <1>1 DEF Startup
      <3> QED BY <2>2, <3>1, <3>2, <3>3, <3>4, <3>5 DEF FlagsInv
    <2>3. CASE phase = "opened"
      <3>1. ~workerThreadRunning' => \A t \in Threads : wpc'[t] = "none"
        BY <2>1, <2>3 DEF CreateThread, FlagsInv
      <3>2. runWorkerThread' /\ phase' = "up" /\ pLastElem' # Null
        BY <1>1, <2>3 DEF Startup
      <3> QED BY <3>1, <3>2 DEF FlagsInv
    <2> QED BY <1>1, <2>2, <2>3 DEF Startup
  <1>2. CASE RestartThread
    <2>1. PICK ok \in BOOLEAN : CreateThread("first", ok)
      BY <1>2 DEF RestartThread
    <2>2. ~workerThreadRunning' => \A t \in Threads : wpc'[t] = "none"
      BY <2>1, <1>2 DEF CreateThread, RestartThread, FlagsInv
    <2>3. runWorkerThread' /\ phase' = "up" /\ pLastElem' # Null
      BY <1>2 DEF RestartThread, FlagsInv
    <2> QED BY <2>2, <2>3 DEF FlagsInv
  <1>3. CASE Shutdown
    BY <1>3 DEF Shutdown, FlagsInv
  <1>4. CASE ShutdownFrees
    <2>1. phase' = "down" /\ \A t \in Threads : wpc'[t] \in {"none", "exited"}
      BY <1>4 DEF ShutdownFrees
    <2>2. mpc' = "idle"
      BY <1>4 DEF ShutdownFrees, Joined, FlagsInv
    <2> QED BY <2>1, <2>2 DEF FlagsInv
  <1>5. CASE Link
    BY <1>5 DEF Link, FlagsInv
  <1>6. CASE Linked
    <2>1. pLastElem' # Null
      BY <1>6, WorkerLinkedStep
    <2> QED BY <1>6, <2>1 DEF Linked, FlagsInv
  <1>7. ASSUME NEW c \in Channels,
               \/ OpenFails(c) \/ Close(c)
               \/ \E e \in Elems : Open(c, e)
        PROVE  FlagsInv'
    BY <1>7 DEF OpenFails, Close, Open, MainRuns, FlagsInv
  <1>8. ASSUME NEW c \in Channels, ChannelShutdown(c)
        PROVE  FlagsInv'
    BY <1>8 DEF ChannelShutdown, MainRuns, FlagsInv
  <1>9. ASSUME NEW c \in Channels, NoAddress(c) \/ AfterAddrinfo(c)
        PROVE  FlagsInv'
    BY <1>9 DEF NoAddress, AfterAddrinfo, Answered, FlagsInv
  <1> QED BY <1>1, <1>2, <1>3, <1>4, <1>5, <1>6, <1>7, <1>8, <1>9 DEF MainStep

\* Every step of a worker thread keeps them too.
LEMMA FlagsKeptByWorker ==
    ASSUME Null \notin Elems, WorkerInv, NEW t \in Threads, WorkerStep(t),
           phase # "undermined", phase' # "undermined"
    PROVE  FlagsInv'
  <1>a. WorkerTypeOK /\ FlagsInv /\ (pLastElem # Null => ThereInv)
    BY DEF WorkerInv
  <1>1. UNCHANGED <<mpc, pLastElem, forgotten, v_addrInfoReq, v_ConnectionState, runWorkerThread>>
        /\ phase' = phase
    BY DEF WorkerStep, BeginWalk, Exit, Visit, Claim, Resolve, Keep, UnlinkForward,
           UnlinkBackAndFree, Free, list, threads, flags, insert, channels
  <1>2. /\ wpc[t] \notin {"none", "exited"}
        /\ \A u \in Threads \ {t} : wpc'[u] = wpc[u]
    BY <1>a DEF WorkerStep, BeginWalk, Exit, Visit, Claim, Resolve, Keep, UnlinkForward,
                UnlinkBackAndFree, Advance, WorkerAt, WorkerTypeOK
  <1>3. pLastElem # Null /\ ThereInv
    BY <1>a, <1>2 DEF FlagsInv
  <1>4. phase \in {"opened", "up"} => UNCHANGED workerThreadRunning /\ workerThreadRunning
    <2>1. phase \in {"opened", "up"} => workerThreadRunning /\ runWorkerThread
      BY <1>a, <1>2 DEF FlagsInv
    <2>2. ~Exit(t) => UNCHANGED workerThreadRunning
      BY DEF WorkerStep, BeginWalk, Visit, Claim, Resolve, Keep, UnlinkForward,
             UnlinkBackAndFree, threads, flags
    <2> QED BY <2>1, <2>2 DEF Exit
  <1>5. phase \in {"startup", "opened"} =>
            /\ wpc'["second"] = "none" /\ \A u \in Threads : wpc'[u] # "unlink"
            /\ UNCHANGED <<inUse, delete, pNext, pPrevious, pFirstElem>>
            /\ phase # "startup"
    <2> SUFFICES ASSUME phase \in {"startup", "opened"}
                 PROVE  /\ wpc'["second"] = "none" /\ \A u \in Threads : wpc'[u] # "unlink"
                        /\ UNCHANGED <<inUse, delete, pNext, pPrevious, pFirstElem>>
                        /\ phase # "startup"
      OBVIOUS
    <2>1. /\ wpc["second"] = "none" /\ \A u \in Threads : wpc[u] # "unlink"
          /\ pNext = [e \in Elems |-> Null] /\ t # "second"
          /\ phase = "startup" => wpc["first"] = "none"
      BY <1>a, <1>2 DEF FlagsInv
    <2>2. phase # "startup"
      BY <2>1, <1>2 DEF Threads
    <2>3. InElement(t) => pCurrElem[t] \in Elems
      BY <1>3, <1>a DEF ThereInv, WalkInv, WorkerTypeOK
    <2>4. ~UnlinkForward(t) /\ ~UnlinkBackAndFree(t)
      BY <2>1, <2>3 DEF UnlinkForward, UnlinkBackAndFree, MayFree, WorkerAt, InElement
    <2>5. /\ UNCHANGED <<inUse, delete, pNext, pPrevious, pFirstElem>>
          /\ wpc'[t] # "unlink"
      BY <2>4, <1>a
         DEF WorkerStep, BeginWalk, Exit, Visit, Claim, Resolve, Keep, Advance, list, WorkerTypeOK
    <2> QED BY <2>1, <2>2, <2>5, <1>2 DEF Threads
  <1> QED BY <1>a, <1>1, <1>3, <1>4, <1>5 DEF FlagsInv

\* Every step of any thread keeps the list, unless it undermines it.
LEMMA WorkerInvKept ==
    ASSUME Null \notin Elems, WorkerInv, WorkerNext
    PROVE  WorkerInv'
  <1>1. WorkerTypeOK' /\ phase # "undermined" /\ WorkerTypeOK /\ FlagsInv
    BY WorkerTyped, StepsWhileDefined DEF WorkerInv
  <1> SUFFICES ASSUME phase' # "undermined" PROVE FlagsInv' /\ (pLastElem' # Null => ThereInv')
    BY <1>1 DEF WorkerInv
  <1>2. FlagsInv'
    BY <1>1, FlagsKeptByMain, FlagsKeptByWorker DEF WorkerNext
  <1> SUFFICES ASSUME pLastElem' # Null PROVE ThereInv'
    BY <1>2
  <1>3. CASE Startup
    BY <1>3, WorkerStartupStep
  <1>4. CASE RestartThread \/ Shutdown
    <2>1. /\ UNCHANGED <<inUse, pNext, pPrevious, pFirstElem, pLastElem, mpc, pNewElem,
                         pCurrElem, pNextElem, delete, v_ConnectionState, v_addrInfoReq, forgotten>>
          /\ mpc = "idle"
      BY <1>4 DEF RestartThread, Shutdown, list, insert, channels, worker
    <2>2. \A t \in Threads :
            wpc'[t] = wpc[t] \/ (wpc[t] \in {"none", "exited"} /\ wpc'[t] = "top")
      <3>1. CASE RestartThread
        BY <3>1, <1>1 DEF RestartThread, CreateThread, FlagsInv, WorkerTypeOK
      <3>2. CASE Shutdown
        BY <3>2 DEF Shutdown, worker
      <3> QED BY <1>4, <3>1, <3>2
    <2>3. ThereInv
      BY <2>1, <1>1 DEF WorkerInv
    <2>4. RequestsInv'
      BY <2>1, <2>3 DEF ThereInv, RequestsInv
    <2> QED BY <2>1, <2>2, <2>3, <2>4, MainQuiet
  <1>5. CASE ShutdownFrees
    BY <1>5 DEF ShutdownFrees
  <1>6. CASE Link \/ Linked
    BY <1>6, WorkerLinkStep, WorkerLinkedStep
  <1>7. ASSUME NEW c \in Channels, NEW e \in Elems, Open(c, e) PROVE ThereInv'
    BY <1>7, WorkerOpenStep
  <1>8. ASSUME NEW c \in Channels,
               \/ OpenFails(c) \/ NoAddress(c) \/ AfterAddrinfo(c)
               \/ Close(c) \/ ChannelShutdown(c)
        PROVE  ThereInv'
    <2>1. pLastElem' = pLastElem
      BY <1>8 DEF OpenFails, NoAddress, AfterAddrinfo, Close,
                  ChannelShutdown, list
    <2>2. ThereInv
      BY <2>1, <1>1 DEF WorkerInv
    <2>3. ChannelShutdown(c) => v_addrInfoReq[c] = Null
      BY DEF ChannelShutdown
    <2> QED BY <1>8, <2>2, <2>3, ChannelStep
  <1>9. ASSUME NEW t \in Threads, WorkerStep(t) PROVE ThereInv'
    <2>1. pLastElem' = pLastElem
      BY <1>9 DEF WorkerStep, BeginWalk, Exit, Visit, Claim, Resolve,
                  Keep, UnlinkForward, UnlinkBackAndFree, list
    <2>2. ThereInv
      BY <2>1, <1>1 DEF WorkerInv
    <2>3. UnlinkForward(t) => \A u \in Threads \ {t} : ~InElement(u)
      BY DEF UnlinkForward
    <2> QED BY <1>9, <2>2, <2>3, WorkerReads, UnlinkForwardStep, UnlinkBackStep DEF WorkerStep
  <1> QED BY <1>3, <1>4, <1>5, <1>6, <1>7, <1>8, <1>9 DEF WorkerNext, MainStep

\* What the invariant says for the threads.
LEMMA WorkerInvImplies ==
    ASSUME Null \notin Elems, WorkerInv
    PROVE  ListSound /\ LastElementKept
  <1>1. /\ WorkerTypeOK /\ InList \subseteq inUse
        /\ phase # "undermined" => FlagsInv /\ (pLastElem # Null => ThereInv)
    BY DEF WorkerInv, InList
  <1>2. ASSUME phase # "undermined" PROVE PointersValid
    <2>1. CASE pLastElem = Null
      <3>1. \A t \in Threads : ~InElement(t) /\
                wpc[t] \notin {"claim", "resolve", "check", "unlink"}
        BY <1>1, <1>2, <2>1 DEF FlagsInv, InElement
      <3>2. mpc = "idle" /\ phase # "up"
        BY <1>1, <1>2, <2>1 DEF FlagsInv
      <3> QED BY <3>1, <3>2 DEF PointersValid
    <2>2. CASE pLastElem # Null
      <3>1. ThereInv
        BY <1>1, <1>2, <2>2
      <3>2. \A t \in Threads :
                /\ InElement(t) => pCurrElem[t] \in inUse
                /\ wpc[t] \in {"claim", "resolve", "check", "unlink"} =>
                    pNextElem[t] \in inUse \cup {Null}
        BY <3>1, <1>1 DEF ThereInv, WalkInv
      <3>3. mpc = "link" => pLastElem \in inUse
        BY <3>1, <1>1 DEF ThereInv, LinksInv, Ends
      <3> QED BY <3>1, <3>2, <3>3 DEF ThereInv, RequestsInv, PointersValid
    <2> QED BY <2>1, <2>2
  <1>3. NothingLost
    <2> SUFFICES ASSUME phase = "up", NEW e \in inUse, e \notin Inserting, e # forgotten,
                        \A t \in Threads : wpc[t] = "unlink" => pCurrElem[t] # e
                 PROVE  e \in Reached
      BY DEF NothingLost, Inserting
    <2>1. ThereInv /\ e \in Elems /\ e # Null
      BY <1>1, ElemsAssumption DEF FlagsInv, WorkerTypeOK
    <2>2. e # Unlinking
      BY <2>1 DEF Unlinking, Threads
    <2>3. NoneLost /\ e \in InList \ Inserting
      BY <2>1, <2>2 DEF ThereInv, LinksInv, InList
    <2> QED BY <2>1, <2>3 DEF NoneLost, Reached
  <1>4. LastElementKept
    BY <1>1 DEF FlagsInv, ThereInv, LinksInv, Ends, LastElementKept, LastElementValid
  <1> QED BY <1>1, <1>2, <1>3, <1>4 DEF ListSound

\* The invariant of the workers.
THEOREM WorkerInvariance == WorkerSpec => []WorkerInv
  <1>1. WorkerInit => WorkerInv
    <2> SUFFICES ASSUME WorkerInit PROVE WorkerInv
      OBVIOUS
    <2>1. WorkerTypeOK
      BY DEF WorkerInit, WorkerTypeOK, Pointers, Sockets, WorkerPcs, Threads
    <2>2. FlagsInv /\ pLastElem = Null
      BY DEF WorkerInit, FlagsInv, Threads
    <2> QED BY <2>1, <2>2 DEF WorkerInv
  <1>2. WorkerInv /\ [WorkerNext]_workerVars => WorkerInv'
    <2> SUFFICES ASSUME WorkerInv, [WorkerNext]_workerVars PROVE WorkerInv'
      OBVIOUS
    <2>1. CASE WorkerNext
      BY <2>1, WorkerInvKept, ElemsAssumption
    <2>2. CASE UNCHANGED workerVars
      <3>1. /\ UNCHANGED <<inUse, pNext, pPrevious, delete, pFirstElem, pLastElem, status, socket,
                           wpc, pCurrElem, pNextElem, runWorkerThread, workerThreadRunning,
                           v_handleValid, v_threadHandle, phase, forgotten>>
            /\ UNCHANGED <<mpc, pNewElem, caller, v_ConnectionState, v_addrInfoReq, v_actimode>>
        BY <2>2 DEF workerVars, list, answers, worker, threads, flags,
                    insert, channels
      <3>2. WorkerTypeOK'
        BY <3>1 DEF WorkerInv, WorkerTypeOK
      <3>3. FlagsInv => FlagsInv'
        BY <3>1 DEF FlagsInv
      <3>4. ThereInv => ThereInv'
        <4> SUFFICES ASSUME ThereInv PROVE ThereInv'
          OBVIOUS
        <4>1. UNCHANGED Unlinking /\ \A t : InElement(t)' <=> InElement(t)
          BY <3>1 DEF Unlinking, InElement
        <4>2. LinksInv' /\ InList' = InList
          BY <3>1, <4>1, LinksKept DEF ThereInv
        <4>3. InsertInv' /\ RequestsInv' /\ UnlinkInv' /\ ForgottenInv'
          BY <3>1, <4>1, <4>2 DEF ThereInv, InsertInv, RequestsInv, UnlinkInv, ForgottenInv
        <4>4. WalkInv'
          BY <3>1, <4>1, <4>2 DEF ThereInv, WalkInv
        <4> QED BY <4>2, <4>3, <4>4 DEF ThereInv
      <3> QED BY <3>1, <3>2, <3>3, <3>4 DEF WorkerInv
    <2> QED BY <2>1, <2>2
  <1> QED BY <1>1, <1>2, PTL DEF WorkerSpec

\* The list that the main thread and the worker threads (aresWorker.c), one or two,
\* share without a lock is sound at every access of any: no pointer that a thread
\* follows is to freed memory, and no request gets lost, for any number of elements
\* and channels, until memory is freed that another thread may be using.
THEOREM WorkerListSound == WorkerSpec => []ListSound
  <1>1. WorkerInv => ListSound
    BY WorkerInvImplies, ElemsAssumption
  <1> QED BY <1>1, WorkerInvariance, PTL

\* "last element is never deleted, so the pointer is always valid"
\* (aresWorker.c:74), up to the same step.
THEOREM WorkerLastElementKept == WorkerSpec => []LastElementKept
  <1>1. WorkerInv => LastElementKept
    BY WorkerInvImplies, ElemsAssumption
  <1> QED BY <1>1, WorkerInvariance, PTL
===========================================================================
