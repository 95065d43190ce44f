-------------------------- MODULE TaskChartProofs --------------------------
(***************************************************************************)
(* The two kinds of active objects that execute others below them.  First  *)
(* the invariants of a sequential state chart, for any steps, transitions, *)
(* commands and names of the init and end steps; then those of the tasks   *)
(* of tasklib, for any tasks, task lists, settings and bounds.             *)
(***************************************************************************)
EXTENDS Ssc, TaskLib, EventQueueProofs

---------------------------------------------------------------------------
(* Sequential state charts.                                                *)

\* The list of the active step, and the two places that hold a pointer to it.
LinkInv ==
    /\ active = <<>> \/ \E s \in Steps : active = <<s>>
    /\ pc = "machine" =>
          active = IF pActiveStep = NoStep THEN <<>> ELSE <<pActiveStep>>
    /\ pc = "step" => step \in Steps /\ active = <<step>>

\* The active step is switched on only behind the START part of the machine, and
\* executed only in START, or in STOP for its exit actions.
ModeInv ==
    /\ pc = "machine" => \A s \in Steps : s = pActiveStep => ~on[s]
    /\ pc = "steps" =>
          \A s \in Steps : active = <<s>> => (on[s] <=> workingState = "START")
    /\ pc = "step" => \/ caller = "walk" /\ workingState = "START"
                      \/ caller = "stop" /\ workingState = "STOP"
    /\ pc = "stopped" => workingState \in {"STOP", "TERMINATE"}

\* Where the flag of a step may be set.
FlagInv ==
    \A s \in Steps :
        /\ X[s] => active = <<s>>
        /\ pc \in {"idle", "steps"} /\ X[s] => workingState \in {"START", "TERMINATE"}
        /\ pc = "idle" /\ workingState = "START" /\ active = <<s>> => X[s]

\* The qualifier remembers whether the entry actions have been executed, and does
\* so only for the active step.
EntryInv ==
    \A s \in Steps :
        /\ qualifier[s] = "do" <=> s \in entered
        /\ qualifier[s] = "do" => active = <<s>>

\* The inductive invariant.  That the active step is alone needs that the step
\* being executed is the linked one; the flag needs, besides, the mode with which
\* each working state enters the walk.
SscInv == TypeOK /\ LinkInv /\ ModeInv /\ FlagInv /\ EntryInv

---------------------------------------------------------------------------
(* Lists of one and two steps.                                             *)

\* Unlinking the first step of a list of one or two leaves the rest.
LEMMA UnlinkFirst ==
    ASSUME NEW s, NEW t, s # t
    PROVE  /\ RemoveFirst(<<s>>, s) = <<>>
           /\ RemoveFirst(Append(<<s>>, t), s) = <<t>>
  <1> DEFINE two == Append(<<s>>, t)
             First(list) == {k \in 1..Len(list) : list[k] = s}
  <1>1. <<s>> \in Seq({s, t}) /\ <<t>> \in Seq({s, t}) /\ Len(<<t>>) = 1
        /\ Len(<<s>>) = 1 /\ <<s>>[1] = s /\ <<t>>[1] = t
    OBVIOUS
  <1>2. two \in Seq({s, t}) /\ Len(two) = 2 /\ two[1] = s /\ two[2] = t
    BY <1>1, AppendProperties
  <1> HIDE DEF two
  <1>3. First(<<s>>) = {1} /\ First(two) = {1}
    BY <1>1, <1>2
  <1>4. Min({1}) = 1
    BY DEF Min
  <1>5. /\ SelectInSeq(<<s>>, LAMBDA v : v = s) = 1
        /\ SelectInSeq(two, LAMBDA v : v = s) = 1
    <2>1. SelectInSeq(<<s>>, LAMBDA v : v = s)
            = IF First(<<s>>) # {} THEN Min(First(<<s>>)) ELSE 0
      BY DEF SelectInSeq
    <2>2. SelectInSeq(two, LAMBDA v : v = s)
            = IF First(two) # {} THEN Min(First(two)) ELSE 0
      BY DEF SelectInSeq
    <2> QED BY <2>1, <2>2, <1>3, <1>4
  <1>6. RemoveAt(<<s>>, 1) = <<>>
    <2>1. SubSeq(<<s>>, 1, 0) = <<>> /\ SubSeq(<<s>>, 2, 1) = <<>>
      BY SubSeqEmpty
    <2>2. <<>> \o <<>> = <<>>
      BY ConcatEmptySeq, EmptySeq
    <2> QED BY <2>1, <2>2, <1>1 DEF RemoveAt
  <1>7. RemoveAt(two, 1) = <<t>>
    <2> DEFINE r == SubSeq(two, 2, 2)
    <2>1. r \in Seq({s, t}) /\ Len(r) = 1 /\ r[1] = two[2]
      <3>1. \A k \in 2..2 : two[k] \in {s, t}
        BY <1>2
      <3>2. /\ r \in Seq({s, t}) /\ Len(r) = IF 2 <= 2 THEN 2 - 2 + 1 ELSE 0
            /\ \A k \in 1..(2 - 2 + 1) : r[k] = two[2 + k - 1]
        BY <3>1, SubSeqProperties
      <3> QED BY <3>2
    <2>2. RemoveAt(two, 1) = SubSeq(two, 1, 0) \o r
      <3>1. 1 - 1 = 0 /\ 1 + 1 = 2
        OBVIOUS
      <3> QED BY <3>1, <1>2 DEF RemoveAt
    <2> HIDE DEF r
    <2>3. r = <<t>>
      <3>1. Len(r) = Len(<<t>>) /\ \A k \in 1..Len(r) : r[k] = <<t>>[k]
        BY <2>1, <1>1, <1>2
      <3> QED BY <3>1, <2>1, <1>1, SeqEqual
    <2>4. SubSeq(two, 1, 0) = <<>>
      BY SubSeqEmpty
    <2>5. <<>> \o <<t>> = <<t>>
      BY <1>1, ConcatEmptySeq
    <2> QED BY <2>2, <2>3, <2>4, <2>5
  <1>8. /\ \E k \in 1..Len(<<s>>) : <<s>>[k] = s
        /\ \E k \in 1..Len(two) : two[k] = s
    BY <1>1, <1>2
  <1> QED BY <1>5, <1>6, <1>7, <1>8 DEF RemoveFirst, two

\* Lists of one step are equal when their steps are, and are not empty.
LEMMA OneStepLists ==
    ASSUME NEW s, NEW t
    PROVE  /\ <<s>> # <<>> /\ Head(<<s>>) = s /\ ToSet(<<s>>) = {s}
           /\ <<s>> = <<t>> => s = t
  <1>1. <<s>>[1] = s /\ <<t>>[1] = t /\ Len(<<s>>) = 1 /\ Len(<<>>) = 0
    OBVIOUS
  <1>2. ToSet(<<s>>) = {s}
    BY DEF ToSet
  <1>3. Head(<<s>>) = s
    OBVIOUS
  <1> QED BY <1>1, <1>2, <1>3

---------------------------------------------------------------------------
\* The constructors establish the invariant.
LEMMA SscInit == Init => SscInv
  <1> SUFFICES ASSUME Init PROVE SscInv
    OBVIOUS
  <1>1. TypeOK
    BY StepsAssumption, EmptySeq DEF Init, TypeOK, AllCommands
  <1>2. LinkInv /\ ModeInv
    BY DEF Init, LinkInv, ModeInv
  <1>3. FlagInv /\ EntryInv
    BY DEF Init, FlagInv, EntryInv
  <1> QED BY <1>1, <1>2, <1>3 DEF SscInv

---------------------------------------------------------------------------
(* Clients.                                                                *)

\* A command changes nothing that the invariant speaks of.
LEMMA SetENKeeps ==
    ASSUME SscInv, NEW value \in Commands, SetEN(value)
    PROVE  SscInv'
  <1>1. TypeOK'
    BY CommandsAssumption
    DEF SscInv, TypeOK, SetEN, working, steps, control, history
  <1>2. LinkInv' /\ ModeInv' /\ FlagInv' /\ EntryInv'
    BY DEF SscInv, LinkInv, ModeInv, FlagInv, EntryInv, SetEN, working, steps,
           control, history
  <1> QED BY <1>1, <1>2 DEF SscInv

\* A new init step: roles and modes change only while no step is executed.
LEMMA SetInitStepNameKeeps ==
    ASSUME SscInv, NEW s \in Steps, SetInitStepName(s)
    PROVE  SscInv'
  <1>1. TypeOK'
    BY DEF SscInv, TypeOK, SetInitStepName, command, working, control, history
  <1>2. LinkInv' /\ ModeInv' /\ FlagInv' /\ EntryInv'
    BY DEF SscInv, LinkInv, ModeInv, FlagInv, EntryInv, SetInitStepName, command,
           working, control, history
  <1> QED BY <1>1, <1>2 DEF SscInv

\* A new end step: only roles change.
LEMMA SetEndStepNameKeeps ==
    ASSUME SscInv, NEW s \in Steps, SetEndStepName(s)
    PROVE  SscInv'
  <1>1. TypeOK'
    BY DEF SscInv, TypeOK, SetEndStepName, command, working, steps, control, history
  <1>2. LinkInv' /\ ModeInv' /\ FlagInv' /\ EntryInv'
    BY DEF SscInv, LinkInv, ModeInv, FlagInv, EntryInv, SetEndStepName, command,
           working, steps, control, history
  <1> QED BY <1>1, <1>2 DEF SscInv

---------------------------------------------------------------------------
(* The working states.                                                     *)

\* The cycle starts with a pointer to the linked step, which is switched off.
LEMMA BeginCycleKeeps ==
    ASSUME SscInv, BeginCycle
    PROVE  SscInv'
  <1>1. TypeOK'
    <2>1. pActiveStep' \in Steps \cup {NoStep}
      BY OneStepLists DEF SscInv, LinkInv, BeginCycle
    <2>2. on' \in [Steps -> BOOLEAN]
      BY DEF BeginCycle
    <2> QED BY <2>1, <2>2 DEF SscInv, TypeOK, BeginCycle, command, working, history
  <1>2. LinkInv'
    BY StepsAssumption, OneStepLists
    DEF SscInv, LinkInv, BeginCycle, command, working, history
  <1>3. ModeInv'
    BY DEF SscInv, TypeOK, ModeInv, BeginCycle, command, working, history
  <1>4. FlagInv' /\ EntryInv'
    BY DEF SscInv, FlagInv, EntryInv, BeginCycle, command, working, history
  <1> QED BY <1>1, <1>2, <1>3, <1>4 DEF SscInv

\* A reset leaves no step but the init step linked, and none on, flagged or entered.
LEMMA ResetKeeps ==
    ASSUME SscInv, resetSsc \/ resetSscFails
    PROVE  /\ active' \in Seq(Steps)
           /\ active' = <<>> \/ \E s \in Steps : active' = <<s>>
           /\ \A s \in Steps : ~on'[s] /\ ~X'[s] /\ qualifier'[s] = "entry"
           /\ entered' = {} /\ noexit' = noexit
  <1>1. active' = <<>> \/ \E s \in Steps : active' = <<s>>
    <2>1. CASE resetSsc
      <3>1. (CHOOSE s \in InitSteps : TRUE) \in InitSteps
        BY <2>1 DEF resetSsc
      <3> QED BY <2>1, <3>1 DEF resetSsc, InitSteps
    <2>2. CASE resetSscFails
      BY <2>2 DEF resetSscFails
    <2> QED BY <2>1, <2>2
  <1>2. active' \in Seq(Steps)
    <2>1. \A s \in Steps : <<s>> \in Seq(Steps)
      OBVIOUS
    <2>2. <<>> \in Seq(Steps)
      BY EmptySeq
    <2> QED BY <1>1, <2>1, <2>2
  <1>3. resetStep
    BY DEF resetSsc, resetSscFails
  <1> QED BY <1>1, <1>2, <1>3 DEF resetStep

\* ... and its variables keep their types.
LEMMA ResetTypes ==
    ASSUME resetSsc \/ resetSscFails
    PROVE  /\ on' \in [Steps -> BOOLEAN] /\ X' \in [Steps -> BOOLEAN]
           /\ phase' \in [Steps -> {"entrydo", "exittrans"}]
           /\ qualifier' \in [Steps -> {"entry", "do"}]
           /\ exitmode' \in [Steps -> {"on", "off", "once"}]
  <1>1. resetStep
    BY DEF resetSsc, resetSscFails
  <1> QED BY <1>1 DEF resetStep

\* The do part of INIT and STOP: everything is reset, the chart does not run.
LEMMA ResetAndStayKeeps ==
    ASSUME SscInv, ResetAndStay, workingState # "START"
    PROVE  SscInv'
  <1>0. resetSsc \/ resetSscFails
    BY DEF ResetAndStay
  <1>1. TypeOK'
    BY <1>0, ResetKeeps, ResetTypes DEF SscInv, TypeOK, ResetAndStay, command
  <1>2. LinkInv' /\ ModeInv' /\ FlagInv' /\ EntryInv'
    BY <1>0, ResetKeeps
    DEF SscInv, LinkInv, ModeInv, FlagInv, EntryInv, ResetAndStay, command
  <1> QED BY <1>1, <1>2 DEF SscInv

\* A change of the working state within the machine.
LEMMA GoToKeeps ==
    ASSUME SscInv, NEW state \in {"INIT", "START", "BREAK", "STOP", "TERMINATE"},
           pc = "machine", GoTo(state)
    PROVE  SscInv'
  <1>1. TypeOK'
    BY DEF SscInv, TypeOK, GoTo, command, steps, control, history
  <1>2. LinkInv' /\ ModeInv' /\ FlagInv' /\ EntryInv'
    BY DEF SscInv, LinkInv, ModeInv, FlagInv, EntryInv, GoTo, command, steps, control,
           history
  <1> QED BY <1>1, <1>2 DEF SscInv

\* The linked step is switched on for the walk.
LEMMA StartEntryDoKeeps ==
    ASSUME SscInv, StartEntryDo
    PROVE  SscInv'
  <1>1. TypeOK'
    BY DEF SscInv, TypeOK, StartEntryDo, In, command, history
  <1>2. LinkInv'
    BY DEF SscInv, LinkInv, StartEntryDo, In, command, history
  <1>3. ModeInv'
    BY OneStepLists DEF SscInv, LinkInv, ModeInv, StartEntryDo, In, command, history
  <1>4. FlagInv' /\ EntryInv'
    BY DEF SscInv, FlagInv, EntryInv, StartEntryDo, In, command, history
  <1> QED BY <1>1, <1>2, <1>3, <1>4 DEF SscInv

\* The linked step is switched off and loses its flag, and no other has one.
LEMMA BreakEntryDoKeeps ==
    ASSUME SscInv, BreakEntryDo
    PROVE  SscInv'
  <1>1. TypeOK'
    BY DEF SscInv, TypeOK, BreakEntryDo, In, command, history
  <1>2. LinkInv'
    BY DEF SscInv, LinkInv, BreakEntryDo, In, command, history
  <1>3. ModeInv'
    BY OneStepLists DEF SscInv, LinkInv, ModeInv, BreakEntryDo, In, command, history
  <1>4. FlagInv'
    BY OneStepLists DEF SscInv, LinkInv, FlagInv, BreakEntryDo, In, command, history
  <1>5. EntryInv'
    BY DEF SscInv, EntryInv, BreakEntryDo, In, command, history
  <1> QED BY <1>1, <1>2, <1>3, <1>4, <1>5 DEF SscInv

\* The linked step is executed for its exit actions.
LEMMA StopEntryKeeps ==
    ASSUME SscInv, StopEntry
    PROVE  SscInv'
  <1>1. TypeOK'
    BY DEF SscInv, TypeOK, StopEntry, In, command, working, steps, history
  <1>2. LinkInv' /\ ModeInv' /\ FlagInv' /\ EntryInv'
    BY DEF SscInv, TypeOK, LinkInv, ModeInv, FlagInv, EntryInv, StopEntry, In, command,
           working, steps, history
  <1> QED BY <1>1, <1>2 DEF SscInv

\* A terminated chart is reset, or keeps its linked step switched off.
LEMMA TerminatedKeeps ==
    ASSUME SscInv, Terminated
    PROVE  SscInv'
  <1>1. CASE resetSsc \/ resetSscFails
    <2>1. TypeOK'
      BY <1>1, ResetKeeps, ResetTypes
      DEF SscInv, TypeOK, Terminated, command, AllCommands
    <2>2. LinkInv' /\ ModeInv' /\ FlagInv' /\ EntryInv'
      BY <1>1, ResetKeeps
      DEF SscInv, LinkInv, ModeInv, FlagInv, EntryInv, Terminated, command
    <2> QED BY <2>1, <2>2 DEF SscInv
  <1>2. CASE /\ pc = "machine" /\ workingState = "TERMINATE" /\ pc' = "steps"
             /\ UNCHANGED <<command, working, steps, error, history>>
    <2>1. TypeOK'
      BY <1>2 DEF SscInv, TypeOK, Terminated, command, working, steps, history
    <2>2. LinkInv' /\ ModeInv' /\ FlagInv' /\ EntryInv'
      BY <1>2, OneStepLists
      DEF SscInv, LinkInv, ModeInv, FlagInv, EntryInv, Terminated, command, working,
          steps, history
    <2> QED BY <2>1, <2>2 DEF SscInv
  <1> QED BY <1>1, <1>2 DEF Terminated, command, working

---------------------------------------------------------------------------
(* The execution of the active step.                                       *)

\* The walk finds the linked step, which is on only in START.
LEMMA ExecuteActiveKeeps ==
    ASSUME SscInv, ExecuteActive
    PROVE  SscInv'
  <1>0. PICK s \in Steps : active = <<s>> /\ on[s]
    BY OneStepLists DEF SscInv, LinkInv, ExecuteActive, ActiveIsOn
  <1>1. step' = s
    BY <1>0, OneStepLists DEF ExecuteActive
  <1>2. TypeOK'
    BY <1>1 DEF SscInv, TypeOK, ExecuteActive, command, working, steps, history
  <1>3. LinkInv' /\ ModeInv' /\ FlagInv' /\ EntryInv'
    BY <1>0, <1>1 DEF SscInv, LinkInv, ModeInv, FlagInv, EntryInv, ExecuteActive,
       command, working, steps, history
  <1> QED BY <1>2, <1>3 DEF SscInv

\* The walk finds nothing: the chart is not in START, or has no linked step.
LEMMA EndCycleKeeps ==
    ASSUME SscInv, EndCycle
    PROVE  SscInv'
  <1>0. \A s \in Steps : active = <<s>> => ~on[s]
    BY OneStepLists DEF EndCycle, ActiveIsOn
  <1>1. TypeOK'
    BY DEF SscInv, TypeOK, EndCycle, command, working, steps, history
  <1>2. LinkInv' /\ ModeInv' /\ FlagInv' /\ EntryInv'
    BY <1>0 DEF SscInv, LinkInv, ModeInv, FlagInv, EntryInv, EndCycle,
       command, working, steps, history
  <1> QED BY <1>1, <1>2 DEF SscInv

\* The linked step gets its flag; only it is entered.
LEMMA StepEntryDoKeeps ==
    ASSUME SscInv, StepEntryDo
    PROVE  SscInv'
  <1>0. step \in Steps /\ active = <<step>>
    BY DEF SscInv, LinkInv, StepEntryDo
  <1>1. TypeOK'
    BY <1>0 DEF SscInv, TypeOK, StepEntryDo, StepReturns, command
  <1>2. LinkInv' /\ ModeInv'
    BY <1>0 DEF SscInv, LinkInv, ModeInv, StepEntryDo, StepReturns, command
  <1>3. FlagInv'
    BY <1>0, OneStepLists
    DEF SscInv, TypeOK, ModeInv, FlagInv, StepEntryDo, StepReturns, command
  <1>4. EntryInv'
    BY <1>0 DEF SscInv, TypeOK, EntryInv, StepEntryDo, StepReturns, command
  <1> QED BY <1>1, <1>2, <1>3, <1>4 DEF SscInv

\* Only the phase changes.
LEMMA StepStaysKeeps ==
    ASSUME SscInv, StepStays
    PROVE  SscInv'
  <1>0. step \in Steps
    BY DEF SscInv, LinkInv, StepStays
  <1>1. TypeOK'
    BY <1>0 DEF SscInv, TypeOK, StepStays, command, working, control, history
  <1>2. LinkInv' /\ ModeInv' /\ FlagInv' /\ EntryInv'
    BY DEF SscInv, LinkInv, ModeInv, FlagInv, EntryInv, StepStays, command, working,
       control, history
  <1> QED BY <1>1, <1>2 DEF SscInv

\* Whatever its exit task does, a step that is left has no flag and is not entered.
LEMMA LeaveKeeps ==
    ASSUME TypeOK, NEW s \in Steps, NEW state, Leave(s, state)
    PROVE  /\ X' \in [Steps -> BOOLEAN] /\ ~X'[s]
           /\ \A t \in Steps : X'[t] => X[t]
           /\ exitmode' \in [Steps -> {"on", "off", "once"}]
           /\ entered' = entered \ {s} /\ noexit' \subseteq Steps
  BY DEF TypeOK, Leave

\* The step stops with its chart, and the list is empty.
LEMMA StepStopsKeeps ==
    ASSUME SscInv, StepStops
    PROVE  SscInv'
  <1>0. step \in Steps /\ active = <<step>> /\ caller = "stop" /\ workingState = "STOP"
    BY DEF SscInv, LinkInv, ModeInv, StepStops
  <1>1. active' = <<>> /\ active' \in Seq(Steps)
    <2>1. NoStep # step
      BY <1>0, StepsAssumption
    <2>2. active' = RemoveFirst(<<step>>, step)
      BY <1>0 DEF StepStops
    <2>3. RemoveFirst(<<step>>, step) = <<>>
      BY <2>1, UnlinkFirst
    <2> QED BY <2>2, <2>3, EmptySeq
  <1>2. /\ X' \in [Steps -> BOOLEAN] /\ ~X'[step]
        /\ \A t \in Steps : X'[t] => X[t]
        /\ exitmode' \in [Steps -> {"on", "off", "once"}]
        /\ entered' = entered \ {step} /\ noexit' \subseteq Steps
    BY <1>0, LeaveKeeps DEF SscInv, StepStops
  <1>3. TypeOK'
    BY <1>0, <1>1, <1>2 DEF SscInv, TypeOK, StepStops, StepReturns, command, working
  <1>4. LinkInv' /\ ModeInv'
    BY <1>0, <1>1 DEF SscInv, LinkInv, ModeInv, StepStops, StepReturns, command, working
  <1>5. FlagInv'
    BY <1>0, <1>1, <1>2, OneStepLists
    DEF SscInv, FlagInv, StepStops, StepReturns, command, working
  <1>6. EntryInv'
    BY <1>0, <1>1, <1>2, OneStepLists
    DEF SscInv, TypeOK, EntryInv, StepStops, StepReturns, command, working
  <1> QED BY <1>3, <1>4, <1>5, <1>6 DEF SscInv

\* A transition without a next step: the list is empty and the chart stops.
LEMMA StepGivesUpKeeps ==
    ASSUME SscInv, NEW t \in Transitions, StepGivesUp(t)
    PROVE  SscInv'
  <1>0. step \in Steps /\ active = <<step>> /\ caller \in {"walk", "stop"}
    BY DEF SscInv, LinkInv, ModeInv, StepGivesUp
  <1>1. active' = <<>> /\ active' \in Seq(Steps)
    <2>1. NoStep # step
      BY <1>0, StepsAssumption
    <2>2. active' = RemoveFirst(<<step>>, step)
      BY <1>0 DEF StepGivesUp
    <2>3. RemoveFirst(<<step>>, step) = <<>>
      BY <2>1, UnlinkFirst
    <2> QED BY <2>2, <2>3, EmptySeq
  <1>2. /\ X' \in [Steps -> BOOLEAN] /\ ~X'[step]
        /\ \A u \in Steps : X'[u] => X[u]
        /\ exitmode' \in [Steps -> {"on", "off", "once"}]
        /\ entered' = entered \ {step} /\ noexit' \subseteq Steps
    BY <1>0, LeaveKeeps DEF SscInv, StepGivesUp
  <1>3. TypeOK'
    BY <1>0, <1>1, <1>2 DEF SscInv, TypeOK, StepGivesUp, StepReturns, command
  <1>4. LinkInv' /\ ModeInv'
    BY <1>0, <1>1 DEF SscInv, LinkInv, ModeInv, StepGivesUp, StepReturns, command
  <1>5. FlagInv'
    BY <1>0, <1>1, <1>2, OneStepLists
    DEF SscInv, FlagInv, StepGivesUp, StepReturns, command
  <1>6. EntryInv'
    BY <1>0, <1>1, <1>2, OneStepLists
    DEF SscInv, TypeOK, EntryInv, StepGivesUp, StepReturns, command
  <1> QED BY <1>3, <1>4, <1>5, <1>6 DEF SscInv

\* A transition: the next step replaces the step in the list, and linking it cannot
\* fail.
LEMMA StepFiresKeeps ==
    ASSUME SscInv, NEW t \in Transitions, StepFires(t)
    PROVE  SscInv'
  <1>0. step \in Steps /\ active = <<step>>
    BY DEF SscInv, LinkInv, StepFires
  <1>1. t[2] \in Steps /\ step # t[2]
    BY TransitionsAssumption DEF nextTransitions_link, StepFires
  <1>2. active' = <<t[2]>> /\ workingState' = workingState
    <2>1. ~Linked(t[2])
      BY <1>0, <1>1, OneStepLists DEF Linked
    <2> QED BY <2>1, <1>0, <1>1, UnlinkFirst DEF StepFires
  <1>3. <<t[2]>> \in Seq(Steps)
    BY <1>1
  <1>4. /\ X' \in [Steps -> BOOLEAN] /\ ~X'[step]
        /\ \A u \in Steps : X'[u] => X[u]
        /\ exitmode' \in [Steps -> {"on", "off", "once"}]
        /\ entered' = entered \ {step} /\ noexit' \subseteq Steps
    BY <1>0, LeaveKeeps DEF SscInv, StepFires
  <1>5. TypeOK'
    <2>1. active' \in Seq(Steps) /\ workingState' = workingState
      BY <1>2, <1>3
    <2> QED BY ZenonT(40), <1>0, <1>1, <1>4, <2>1 DEF SscInv, TypeOK, StepFires, command
  <1>6. LinkInv' /\ ModeInv'
    BY <1>0, <1>1, <1>2 DEF SscInv, LinkInv, ModeInv, StepFires, command
  <1>7. FlagInv'
    BY <1>0, <1>1, <1>2, <1>4, OneStepLists DEF SscInv, FlagInv, StepFires, command
  <1>8. EntryInv'
    BY <1>0, <1>1, <1>2, <1>4, OneStepLists
    DEF SscInv, TypeOK, EntryInv, StepFires, command
  <1> QED BY <1>5, <1>6, <1>7, <1>8 DEF SscInv

---------------------------------------------------------------------------
\* Every step of the chart and of its clients keeps the invariant.
LEMMA SscNext == SscInv /\ [Next]_vars => SscInv'
  <1> SUFFICES ASSUME SscInv, [Next]_vars PROVE SscInv'
    OBVIOUS
  <1>1. CASE ClientStep
    BY <1>1, SetENKeeps, SetInitStepNameKeeps, SetEndStepNameKeeps DEF ClientStep
  <1>2. CASE BeginCycle
    BY <1>2, BeginCycleKeeps
  <1>3. CASE InitEntryDo
    BY <1>3, ResetAndStayKeeps DEF InitEntryDo, In
  <1>4. CASE InitExitTrans
    BY <1>4, GoToKeeps DEF InitExitTrans, In
  <1>5. CASE StartEntryDo
    BY <1>5, StartEntryDoKeeps
  <1>6. CASE StartExitTrans
    BY <1>6, GoToKeeps DEF StartExitTrans, In
  <1>7. CASE BreakEntryDo
    BY <1>7, BreakEntryDoKeeps
  <1>8. CASE BreakExitTrans
    BY <1>8, GoToKeeps DEF BreakExitTrans, In
  <1>9. CASE StopEntry
    BY <1>9, StopEntryKeeps
  <1>10. CASE StopDo
    <2>1. workingState # "START"
      BY <1>10 DEF StopDo, In, SscInv, ModeInv
    <2> QED BY <2>1, <1>10, ResetAndStayKeeps DEF StopDo
  <1>11. CASE StopExitTrans
    BY <1>11, GoToKeeps DEF StopExitTrans, In
  <1>12. CASE Terminated
    BY <1>12, TerminatedKeeps
  <1>13. CASE ExecuteActive \/ EndCycle
    BY <1>13, ExecuteActiveKeeps, EndCycleKeeps
  <1>14. CASE StepEntryDo \/ StepStays \/ StepStops
    BY <1>14, StepEntryDoKeeps, StepStaysKeeps, StepStopsKeeps
  <1>15. CASE \E t \in Transitions : StepFires(t) \/ StepGivesUp(t)
    BY <1>15, StepFiresKeeps, StepGivesUpKeeps
  <1>16. CASE UNCHANGED vars
    <2>1. TypeOK'
      BY <1>16 DEF SscInv, TypeOK, vars, command, working, steps, control, history
    <2>2. LinkInv' /\ ModeInv' /\ FlagInv' /\ EntryInv'
      BY <1>16 DEF SscInv, LinkInv, ModeInv, FlagInv, EntryInv, vars, command, working,
         steps, control, history
    <2> QED BY <2>1, <2>2 DEF SscInv
  <1> QED BY <1>1, <1>2, <1>3, <1>4, <1>5, <1>6, <1>7, <1>8, <1>9, <1>10, <1>11, <1>12,
             <1>13, <1>14, <1>15, <1>16 DEF Next, ChartStep

\* The inductive invariant holds in every behaviour of the chart.
THEOREM SscInvariant == Spec => []SscInv
  BY SscInit, SscNext, PTL DEF Spec

\* Every variable of the chart and of its steps keeps its type.
THEOREM SscTypeCorrect == Spec => []TypeOK
  <1>1. SscInv => TypeOK
    BY DEF SscInv
  <1> QED BY <1>1, SscInvariant, PTL

\* taskActiveStep holds one step at most, whatever the transitions of the chart are.
THEOREM SscOneActiveStep == Spec => []OneActiveStep
  <1>1. SscInv => OneActiveStep
    <2> SUFFICES ASSUME SscInv PROVE Len(active) <= 1
      BY DEF OneActiveStep
    <2>1. CASE active = <<>>
      BY <2>1
    <2>2. ASSUME NEW s \in Steps, active = <<s>> PROVE Len(active) <= 1
      BY <2>2
    <2> QED BY <2>1, <2>2 DEF SscInv, LinkInv
  <1> QED BY <1>1, SscInvariant, PTL

\* Between two cycles the step flags tell which step a running chart is in.
THEOREM SscFlagOfActiveStep == Spec => []FlagOfActiveStep
  <1>1. SscInv => FlagOfActiveStep
    BY DEF SscInv, FlagInv, FlagOfActiveStep
  <1> QED BY <1>1, SscInvariant, PTL

\* Each activation of a step executes its entry actions once, through breaks, stops
\* and resets.
THEOREM SscEntryOncePerActivation == Spec => []EntryOncePerActivation
  <1>1. SscInv => EntryOncePerActivation
    BY DEF SscInv, TypeOK, LinkInv, EntryInv, EntryOncePerActivation
  <1> QED BY <1>1, SscInvariant, PTL

---------------------------------------------------------------------------
(* The tasks of tasklib: their events, modes and executions.               *)

\* The scheduler tasks whose startup has run, and the phase.
StartedInv ==
    /\ dbPhase # "up" => stack = <<>>
    /\ dbPhase = "up" => started = SchedulerTasks
    /\ dbPhase = "down" => started = {}

\* What the list holds of a task: an event if it is on, and, unless one may be
\* left behind, at most one, none if it is off, and none but for the alarm while
\* it waits for that.
EventOK(t) ==
    /\ t \in started /\ actimode[t] > 0 => Queued(queue, t)
    /\ t \notin LeftBehind =>
        /\ Single(queue, t)
        /\ Queued(queue, t) => t \in started /\ actimode[t] > 0
        /\ actimode[t] \in {3, 4} => \A e \in Range(queue) : e.obj = t => e.time = alarmtime[t]
TaskEventsInv == \A t \in SchedulerTasks : EventOK(t)

\* A task that waits for its alarm is due for its parent at that time, too.
AlarmInv == \A t \in Tasks : actimode[t] \in {3, 4} => proctime[t] = alarmtime[t]

\* Every frame but the first is of a task that another one executes, and has
\* begun in the past.
FramesOK(s) ==
    /\ s \in Seq(Frames)
    /\ \A i \in 1..Len(s) :
        /\ s[i].acttime <= now
        /\ i > 1 => s[i].task \in Nested \cup (Tasks \ SchedulerTasks)
JumpInv == FramesOK(stack) /\ (jump # 0 => stack[jump].guarded)

\* The inductive invariant.  EventIffOn needs StartedInv, because the tasks start
\* one after the other, JumpInv, which says that the tasks a parent switches are
\* not those that only the scheduler executes, and the guards of actimode_set;
\* ExecutedInTime needs the two conjuncts on alarms.
TaskIInv ==
    TaskTypeOK /\ StartedInv /\ TaskEventsInv /\ AlarmInv /\ ErrorIsOff /\ JumpInv

---------------------------------------------------------------------------
(* Facts about modes, frames and lists.                                    *)

\* The settings of a task are times and flags.
LEMMA TaskSettings ==
    ASSUME TaskTypeOK, NEW t \in Tasks
    PROVE  /\ cycletime[t] \in Nat /\ alarmtime[t] \in Nat /\ proctime[t] \in Nat
           /\ actimode[t] \in Modes /\ now \in Nat
           /\ supervised[t] \in BOOLEAN
  <1>1. cycletime[t] \in CycleTimes[t] /\ alarmtime[t] \in AlarmTimes[t]
    BY DEF TaskTypeOK, Written
  <1>2. CycleTimes[t] \subseteq Nat /\ AlarmTimes[t] \subseteq Nat /\ MaxTime \in Nat
    BY BoundsAssumption
  <1> QED BY <1>1, <1>2 DEF TaskTypeOK

\* An execution never makes a task wait for an alarm, and never switches one on.
LEMMA ModeAfterOK ==
    ASSUME NEW mode \in Modes, NEW a \in Nat, NEW b \in Nat
    PROVE  /\ ModeAfter(mode, a, b) \in {0, 1, 2}
           /\ mode = 0 => ModeAfter(mode, a, b) = 0
  <1>1. mode \in {0, 1, 2, 3, 4}
    BY DEF Modes
  <1>2. CASE mode = 2 /\ a <= b
    BY <1>2 DEF ModeAfter
  <1>3. CASE mode = 2 /\ ~(a <= b)
    BY <1>3 DEF ModeAfter
  <1>4. CASE mode # 2
    BY <1>1, <1>4 DEF ModeAfter
  <1> QED BY <1>2, <1>3, <1>4

\* The next time of a task that was executed is a time.
LEMMA ProctimeAfterOK ==
    ASSUME TaskTypeOK, NEW t \in Tasks, NEW mode, NEW b \in Nat
    PROVE  ProctimeAfter(mode, t, b) \in Nat
  BY TaskSettings DEF ProctimeAfter

\* activate sets the next time of a task that shall wait to its alarm.
LEMMA ActivatedProctimeOK ==
    ASSUME TaskTypeOK, NEW t \in Tasks, NEW mode \in Modes
    PROVE  /\ ActivatedProctime(t, mode) \in Nat
           /\ mode \in {3, 4} => ActivatedProctime(t, mode) = alarmtime[t]
  <1>1. mode \in {0, 1, 2, 3, 4}
    BY DEF Modes
  <1>2. mode = 0 => ActivatedProctime(t, mode) = proctime[t]
    BY DEF ActivatedProctime
  <1>3. mode \in {1, 2} => ActivatedProctime(t, mode) = now + cycletime[t]
    BY DEF ActivatedProctime
  <1>4. mode \in {3, 4} => ActivatedProctime(t, mode) = alarmtime[t]
    BY DEF ActivatedProctime
  <1> QED BY <1>1, <1>2, <1>3, <1>4, TaskSettings

\* What activate does to the list of the scheduler.
LEMMA ActivatedQueueOK ==
    ASSUME TaskTypeOK, NEW t \in SchedulerTasks, NEW mode \in Modes
    PROVE  /\ ActivatedQueue(t, mode) \in Seq(Events(SchedulerTasks))
           /\ Touches(queue, ActivatedQueue(t, mode), t)
           /\ mode = 0 /\ Single(queue, t) => ~Queued(ActivatedQueue(t, mode), t)
           /\ mode > 0 => Queued(ActivatedQueue(t, mode), t)
           /\ mode > 0 /\ ~Queued(queue, t) =>
                /\ Single(ActivatedQueue(t, mode), t)
                /\ mode \in {3, 4} =>
                    \A e \in Range(ActivatedQueue(t, mode)) : e.obj = t => e.time = alarmtime[t]
  <1> DEFINE at == IF mode \in {1, 2} THEN now + cycletime[t] ELSE alarmtime[t]
             q == register(queue, t, now)
             r == setabseventtime(q, t, at)
  <1>0. /\ queue \in Seq(Events(SchedulerTasks)) /\ t \in Tasks /\ mode \in {0, 1, 2, 3, 4}
        /\ now \in Nat
    BY TasksAssumption, TaskSettings DEF TaskTypeOK, Modes
  <1>1. at \in Nat
    BY <1>0, TaskSettings
  <1> HIDE DEF at
  <1>2. CASE mode = 0
    <2>1. ActivatedQueue(t, mode) = unregister(queue, t)
      BY <1>2 DEF ActivatedQueue
    <2> QED BY <2>1, <1>0, <1>2, UnregisterTouches
  <1>3. CASE mode # 0
    <2>1. ActivatedQueue(t, mode) = r
      <3>1. mode \in {1, 2} => ActivatedQueue(t, mode) = r
        BY DEF ActivatedQueue, at
      <3>2. mode \in {3, 4} => ActivatedQueue(t, mode) = r
        BY DEF ActivatedQueue, at
      <3> QED BY <1>0, <1>3, <3>1, <3>2
    <2>2. /\ q \in Seq(Events(SchedulerTasks)) /\ Touches(queue, q, t) /\ Queued(q, t)
          /\ ~Queued(queue, t) => Single(q, t)
      BY <1>0, RegisterTouches
    <2> HIDE DEF q
    <2>3. /\ r \in Seq(Events(SchedulerTasks)) /\ Touches(q, r, t) /\ Queued(r, t)
          /\ Single(q, t) => Single(r, t) /\ \A e \in Range(r) : e.obj = t => e.time = at
      BY <1>1, <2>2, SetAbsEventTimeTouches
    <2> HIDE DEF r
    <2>4. Touches(queue, r, t)
      BY <2>2, <2>3, TouchesTwice
    <2>5. mode \in {3, 4} => at = alarmtime[t]
      BY DEF at
    <2> QED BY <1>0, <1>3, <2>1, <2>2, <2>3, <2>4, <2>5
  <1> QED BY <1>2, <1>3

\* What the switch of execute does to the list.
LEMMA ExecutedQueueOK ==
    ASSUME TaskTypeOK, NEW t \in SchedulerTasks, NEW q \in Seq(Events(SchedulerTasks))
    PROVE  /\ ExecutedQueue(q, t) \in Seq(Events(SchedulerTasks))
           /\ Touches(q, ExecutedQueue(q, t), t)
           /\ Single(q, t) =>
                /\ Single(ExecutedQueue(q, t), t)
                /\ ModeAfter(actimode[t], alarmtime[t], now) = 0 =>
                    ~Queued(ExecutedQueue(q, t), t)
           /\ ModeAfter(actimode[t], alarmtime[t], now) # 0 =>
                (Queued(ExecutedQueue(q, t), t) <=> Queued(q, t))
  <1>0. t \in Tasks /\ now + cycletime[t] \in Nat
    BY TasksAssumption, TaskSettings
  <1>1. CASE ModeAfter(actimode[t], alarmtime[t], now) = 0
    <2>1. ExecutedQueue(q, t) = unregister(q, t)
      BY <1>1 DEF ExecutedQueue
    <2>2. /\ unregister(q, t) \in Seq(Events(SchedulerTasks)) /\ Touches(q, unregister(q, t), t)
          /\ Single(q, t) => ~Queued(unregister(q, t), t)
      BY UnregisterTouches
    <2>3. ~Queued(unregister(q, t), t) => Single(unregister(q, t), t)
      BY DEF Queued, Single
    <2> QED BY <1>1, <2>1, <2>2, <2>3
  <1>2. CASE ModeAfter(actimode[t], alarmtime[t], now) # 0
    <2>1. ExecutedQueue(q, t) = setabseventtime(q, t, now + cycletime[t])
      BY <1>2 DEF ExecutedQueue
    <2> DEFINE at == now + cycletime[t]
               r == setabseventtime(q, t, at)
    <2>2. at \in Nat
      BY <1>0
    <2> HIDE DEF at
    <2>3. /\ r \in Seq(Events(SchedulerTasks)) /\ Touches(q, r, t)
          /\ Queued(r, t) <=> Queued(q, t)
          /\ Single(q, t) => Single(r, t)
      BY <2>2, SetAbsEventTimeTouches
    <2>4. ExecutedQueue(q, t) = r
      BY <2>1 DEF at
    <2> HIDE DEF r
    <2> QED BY <1>2, <2>3, <2>4
  <1> QED BY <1>1, <1>2

\* The fields of a frame.
LEMMA FrameFields ==
    ASSUME NEW s \in Seq(Frames)
    PROVE  /\ Len(s) \in Nat
           /\ \A i \in 1..Len(s) :
                /\ s[i] \in Frames /\ s[i].task \in Tasks /\ s[i].acttime \in Nat
                /\ s[i].next \in Nat \ {0} /\ s[i].guarded \in BOOLEAN
  <1>1. Len(s) \in Nat /\ \A i \in 1..Len(s) : s[i] \in Frames
    BY LenProperties, ElementOfSeq
  <1>2. \A f \in Frames : /\ f.task \in Tasks /\ f.acttime \in Nat
                          /\ f.next \in Nat \ {0} /\ f.guarded \in BOOLEAN
    BY DEF Frames
  <1> QED BY <1>1, <1>2

\* What is below a frame of the stack is a stack.
LEMMA FramesBelow ==
    ASSUME NEW s, FramesOK(s), NEW k \in 0..Len(s)
    PROVE  /\ FramesOK(SubSeq(s, 1, k)) /\ Len(SubSeq(s, 1, k)) = k
           /\ \A i \in 1..k : SubSeq(s, 1, k)[i] = s[i]
  <1> DEFINE r == SubSeq(s, 1, k)
  <1>1. s \in Seq(Frames) /\ Len(s) \in Nat /\ \A i \in 1..Len(s) : s[i] \in Frames
    BY FrameFields DEF FramesOK
  <1>2. \A i \in 1..k : s[i] \in Frames
    BY <1>1
  <1>3. /\ r \in Seq(Frames) /\ Len(r) = IF 1 <= k THEN k - 1 + 1 ELSE 0
        /\ \A i \in 1..(k - 1 + 1) : r[i] = s[1 + i - 1]
    BY <1>1, <1>2, SubSeqProperties
  <1>4. Len(r) = k /\ \A i \in 1..k : r[i] = s[i]
    BY <1>1, <1>3
  <1> HIDE DEF r
  <1>5. FramesOK(r)
    BY <1>1, <1>3, <1>4 DEF FramesOK
  <1> QED BY <1>4, <1>5 DEF r

\* The step of a loop to the next child.
NextChildOf(s) == [s EXCEPT ![Len(s)].next = @ + 1]

\* It keeps the stack and who is supervised.
LEMMA FramesNext ==
    ASSUME NEW s, FramesOK(s), Len(s) # 0
    PROVE  /\ FramesOK(NextChildOf(s)) /\ Len(NextChildOf(s)) = Len(s)
           /\ \A i \in 1..Len(s) : NextChildOf(s)[i].guarded = s[i].guarded
  <1> DEFINE d == Len(s)
             f == [s[d] EXCEPT !.next = @ + 1]
             r == [s EXCEPT ![d] = f]
  <1>1. s \in Seq(Frames) /\ d \in Nat /\ d \in 1..d
    BY FrameFields DEF FramesOK
  <1>2. s[d] \in Frames /\ s[d].next \in Nat \ {0}
    BY <1>1, FrameFields
  <1>3. /\ f \in Frames /\ f.acttime = s[d].acttime /\ f.task = s[d].task
        /\ f.guarded = s[d].guarded
    <2>1. s[d].next + 1 \in Nat \ {0}
      BY <1>2
    <2> QED BY <1>2, <2>1 DEF Frames
  <1> HIDE DEF f
  <1>4. r \in Seq(Frames) /\ Len(r) = d /\ \A j \in 1..d : r[j] = IF j = d THEN f ELSE s[j]
    BY <1>1, <1>3, ExceptSeq
  <1>5. NextChildOf(s) = r
    BY DEF NextChildOf, f
  <1> HIDE DEF r
  <1>6. \A i \in 1..d : /\ r[i].acttime = s[i].acttime /\ r[i].task = s[i].task
                        /\ r[i].guarded = s[i].guarded
    BY <1>3, <1>4
  <1> QED BY <1>4, <1>5, <1>6 DEF FramesOK

\* A method is called: by the scheduler, or by a parent for one of its children.
LEMMA FramesEnter ==
    ASSUME TaskTypeOK, JumpInv, NEW t \in Tasks, Enter(t), now' = now,
           stack # <<>> => t \in Nested \cup (Tasks \ SchedulerTasks)
    PROVE  JumpInv' /\ stack' \in Seq(Frames) /\ Len(stack') = Top + 1 /\ jump' \in 0..Len(stack')
           /\ stack'[Top + 1].task = t
  <1> DEFINE g == supervised[t] /\ t \notin UserTasks
             f == Frame(t, now, g, IF cycletime[t] = 0 THEN Never ELSE now + cycletime[t])
  <1>1. /\ f \in Frames /\ f.task = t /\ f.acttime = now /\ f.guarded = g /\ now \in Nat
    <2>1. (IF cycletime[t] = 0 THEN Never ELSE now + cycletime[t]) \in Nat
      BY TaskSettings, BoundsAssumption DEF Never
    <2>2. g \in BOOLEAN /\ now \in Nat
      BY TaskSettings
    <2> QED BY <2>1, <2>2 DEF Frame, Frames
  <1>2. /\ stack' = Append(stack, f)
        /\ jump' = IF g /\ jump = 0 THEN Top + 1 ELSE jump
    BY DEF Enter
  <1> HIDE DEF g, f
  <1>3. stack \in Seq(Frames) /\ Top \in Nat /\ Top = Len(stack) /\ (Top > 0 => stack # <<>>)
    BY FrameFields, EmptySeq DEF JumpInv, FramesOK, Top
  <1>4. /\ stack' \in Seq(Frames) /\ Len(stack') = Top + 1
        /\ \A i \in 1..Top : stack'[i] = stack[i]
        /\ stack'[Top + 1] = f
    BY <1>1, <1>2, <1>3, AppendProperties
  <1>5. \A i \in 1..(Top + 1) : i \in 1..Top \/ i = Top + 1
    BY <1>3
  <1>6. FramesOK(stack)'
    <2> SUFFICES ASSUME NEW i \in 1..(Top + 1)
                 PROVE  /\ stack'[i].acttime <= now
                        /\ i > 1 => stack'[i].task \in Nested \cup (Tasks \ SchedulerTasks)
      BY <1>4 DEF FramesOK
    <2>1. CASE i \in 1..Top
      BY <2>1, <1>3, <1>4 DEF JumpInv, FramesOK
    <2>2. CASE i = Top + 1
      BY <2>2, <1>1, <1>3, <1>4
    <2> QED BY <2>1, <2>2, <1>5
  <1>7. jump \in 0..Top
    BY DEF TaskTypeOK
  <1>8. jump' \in 0..(Top + 1) /\ (jump' # 0 => stack'[jump'].guarded)
    <2>1. CASE g /\ jump = 0
      <3>1. jump' = Top + 1 /\ Top + 1 \in 0..(Top + 1)
        BY <2>1, <1>2, <1>3
      <3>2. f.guarded
        BY <2>1, <1>1
      <3> QED BY <3>1, <3>2, <1>4
    <2>2. CASE ~(g /\ jump = 0)
      BY <2>2, <1>2, <1>3, <1>4, <1>7 DEF JumpInv
    <2> QED BY <2>1, <2>2
  <1> QED BY <1>1, <1>4, <1>6, <1>8 DEF JumpInv

\* A step that leaves the list alone.
LEMMA EventKept ==
    ASSUME NEW t \in SchedulerTasks, EventOK(t), queue' = queue,
           t \in started' <=> t \in started, aborted \subseteq aborted',
           t \notin LeftBehind' => actimode'[t] = actimode[t],
           actimode'[t] > 0 => actimode[t] > 0,
           actimode'[t] \in {3, 4} => alarmtime'[t] = alarmtime[t]
    PROVE  EventOK(t)'
  <1>1. t \notin LeftBehind' => t \notin LeftBehind
    BY DEF LeftBehind
  <1> QED BY <1>1 DEF EventOK, Queued, Single

\* A step that touches the events of another task.
LEMMA EventOfOther ==
    ASSUME TaskTypeOK, NEW t \in SchedulerTasks, EventOK(t), NEW x, x # t,
           queue' \in Seq(Events(SchedulerTasks)), Touches(queue, queue', x),
           t \in started' <=> t \in started, aborted' = aborted,
           actimode'[t] = actimode[t], alarmtime'[t] = alarmtime[t]
    PROVE  EventOK(t)'
  <1>1. /\ Queued(queue', t) <=> Queued(queue, t)
        /\ Single(queue, t) => Single(queue', t)
        /\ \A e \in Range(queue') : e.obj = t => e \in Range(queue)
    BY TouchesOthers DEF TaskTypeOK
  <1>2. LeftBehind' = LeftBehind
    BY DEF LeftBehind
  <1>3. t \in started' /\ actimode'[t] > 0 => Queued(queue', t)
    BY <1>1 DEF EventOK
  <1>4. ASSUME t \notin LeftBehind'
        PROVE  /\ Single(queue', t) /\ (Queued(queue', t) => t \in started' /\ actimode'[t] > 0)
               /\ actimode'[t] \in {3, 4} =>
                    \A e \in Range(queue') : e.obj = t => e.time = alarmtime'[t]
    BY <1>1, <1>2, <1>4 DEF EventOK
  <1> QED BY <1>3, <1>4 DEF EventOK

---------------------------------------------------------------------------
(* The steps.                                                              *)

\* The parts that steps outside executions leave alone.
LEMMA FramesKept ==
    ASSUME TaskTypeOK, JumpInv, stack' = stack, jump' = jump, now' \in Nat, now <= now'
    PROVE  JumpInv'
  <1>1. now \in Nat
    BY BoundsAssumption DEF TaskTypeOK
  <1>2. \A i \in 1..Len(stack) : stack[i].acttime \in Nat /\ stack[i].acttime <= now
    BY FrameFields DEF JumpInv, FramesOK
  <1> QED BY <1>1, <1>2 DEF JumpInv, FramesOK

\* The startup method of a scheduler task.
LEMMA StartupStep ==
    ASSUME TaskIInv, NEW t \in Tasks, Startup(t)
    PROVE  TaskIInv'
  <1>0. /\ TaskTypeOK /\ StartedInv /\ TaskEventsInv /\ AlarmInv /\ ErrorIsOff /\ JumpInv
        /\ t \in SchedulerTasks /\ t \notin started /\ dbPhase = "startup"
    BY DEF TaskIInv, Startup
  <1> DEFINE mode == actimode[t]
  <1>1. /\ queue' = ActivatedQueue(t, mode) /\ started' = started \cup {t}
        /\ proctime' = [proctime EXCEPT ![t] = ActivatedProctime(t, mode)]
        /\ dbPhase' = IF started' = SchedulerTasks THEN "up" ELSE "startup"
        /\ UNCHANGED <<aborted, now, actimode, ErrState, cycletime, alarmtime, supervised, stack,
                       jump>>
    BY DEF Startup, settings
  <1>2. mode \in Modes /\ actimode' = actimode
    BY <1>0, <1>1 DEF TaskTypeOK
  <1>3. ActivatedProctime(t, mode) \in Nat
        /\ (mode \in {3, 4} => ActivatedProctime(t, mode) = alarmtime[t])
    BY <1>0, <1>2, ActivatedProctimeOK
  <1>4. /\ queue' \in Seq(Events(SchedulerTasks)) /\ Touches(queue, queue', t)
        /\ mode > 0 => Queued(queue', t)
        /\ mode = 0 /\ Single(queue, t) => ~Queued(queue', t)
        /\ mode > 0 /\ ~Queued(queue, t) =>
             /\ Single(queue', t)
             /\ mode \in {3, 4} => \A e \in Range(queue') : e.obj = t => e.time = alarmtime[t]
    BY <1>0, <1>1, <1>2, ActivatedQueueOK
  <1>5. TaskTypeOK'
    <2>1. proctime' \in [Tasks -> Nat]
      BY <1>0, <1>1, <1>3 DEF TaskTypeOK
    <2>2. stack' \in Seq(Frames) /\ jump' \in 0..Len(stack')
      BY <1>0, <1>1 DEF TaskTypeOK, Top
    <2> QED BY <1>0, <1>1, <1>4, <2>1, <2>2 DEF TaskTypeOK, Top
  <1>6. StartedInv'
    BY <1>0, <1>1 DEF StartedInv
  <1>7. TaskEventsInv'
    <2> SUFFICES ASSUME NEW x \in SchedulerTasks PROVE EventOK(x)'
      BY DEF TaskEventsInv
    <2>0. EventOK(x)
      BY <1>0 DEF TaskEventsInv
    <2>1. CASE x # t
      BY <2>0, <2>1, <1>0, <1>1, <1>4, EventOfOther
    <2>2. CASE x = t
      <3>1. t \notin LeftBehind => Single(queue, t) /\ ~Queued(queue, t)
        BY <2>0, <2>2, <1>0 DEF EventOK
      <3>2. LeftBehind' = LeftBehind
        BY <1>1 DEF LeftBehind
      <3>3. mode \in Nat /\ (~(mode > 0) => mode = 0) /\ (mode = 0 => mode \notin {3, 4})
        BY <1>2 DEF Modes
      <3>4. ~Queued(queue', t) => Single(queue', t)
        BY DEF Queued, Single
      <3> QED BY <2>2, <3>1, <3>2, <3>3, <3>4, <1>1, <1>4 DEF EventOK
    <2> QED BY <2>1, <2>2
  <1>8. AlarmInv'
    BY <1>0, <1>1, <1>3 DEF AlarmInv, TaskTypeOK
  <1>9. ErrorIsOff' /\ JumpInv'
    <2>1. now' \in Nat /\ now <= now'
      BY <1>0, <1>1, BoundsAssumption DEF TaskTypeOK
    <2> QED BY <2>1, <1>0, <1>1, FramesKept DEF ErrorIsOff
  <1> QED BY <1>5, <1>6, <1>7, <1>8, <1>9 DEF TaskIInv

\* actimode_set, by a client or by the code of a user's task.
LEMMA SetActimodeStep ==
    ASSUME TaskIInv, NEW t \in Tasks, NEW value \in ClientModes[t], SetActimode(t, value)
    PROVE  TaskIInv'
  <1>0. /\ TaskTypeOK /\ StartedInv /\ TaskEventsInv /\ AlarmInv /\ ErrorIsOff /\ JumpInv
        /\ dbPhase = "up" /\ started = SchedulerTasks
    BY DEF TaskIInv, SetActimode, ClientRuns, StartedInv
  <1>1. /\ actimode' = [actimode EXCEPT ![t] = value]
        /\ ErrState' = [ErrState EXCEPT ![t] = IF value > 0 THEN FALSE ELSE @]
        /\ queue' = ActivatedQueue(t, value)
        /\ proctime' = [proctime EXCEPT ![t] = ActivatedProctime(t, value)]
        /\ UNCHANGED <<aborted, dbPhase, started, now, cycletime, alarmtime, supervised, stack,
                       jump>>
        /\ (actimode[t] = 0 /\ value > 0) \/ (actimode[t] > 0 /\ value = 0)
    BY DEF SetActimode, settings
  <1>2. value \in Modes /\ actimode[t] \in Modes
    BY <1>0, BoundsAssumption DEF TaskTypeOK, Modes
  <1>3. ActivatedProctime(t, value) \in Nat
        /\ (value \in {3, 4} => ActivatedProctime(t, value) = alarmtime[t])
    BY <1>0, <1>2, ActivatedProctimeOK
  <1>4. t \notin SchedulerTasks => queue' = queue
    BY <1>1 DEF ActivatedQueue
  <1>5. t \in SchedulerTasks =>
        /\ queue' \in Seq(Events(SchedulerTasks)) /\ Touches(queue, queue', t)
        /\ value > 0 => Queued(queue', t)
        /\ value = 0 /\ Single(queue, t) => ~Queued(queue', t)
        /\ value > 0 /\ ~Queued(queue, t) =>
             /\ Single(queue', t)
             /\ value \in {3, 4} => \A e \in Range(queue') : e.obj = t => e.time = alarmtime[t]
    BY <1>0, <1>1, <1>2, ActivatedQueueOK
  <1>6. /\ actimode' \in [Tasks -> Modes]
        /\ \A x \in Tasks : actimode'[x] = IF x = t THEN value ELSE actimode[x]
    BY <1>0, <1>1, <1>2 DEF TaskTypeOK
  <1>7. TaskTypeOK'
    <2>1. proctime' \in [Tasks -> Nat]
      BY <1>0, <1>1, <1>3 DEF TaskTypeOK
    <2>2. stack' \in Seq(Frames) /\ jump' \in 0..Len(stack')
      BY <1>0, <1>1 DEF TaskTypeOK, Top
    <2>3. ErrState' \in [Tasks -> BOOLEAN]
      BY <1>0, <1>1 DEF TaskTypeOK
    <2>4. queue' \in Seq(Events(SchedulerTasks))
      BY <1>0, <1>4, <1>5 DEF TaskTypeOK
    <2> QED BY <1>0, <1>1, <1>6, <2>1, <2>2, <2>3, <2>4 DEF TaskTypeOK, Top
  <1>8. StartedInv'
    BY <1>0, <1>1 DEF StartedInv
  <1>9. TaskEventsInv'
    <2> SUFFICES ASSUME NEW x \in SchedulerTasks PROVE EventOK(x)'
      BY DEF TaskEventsInv
    <2>0. EventOK(x) /\ x \in Tasks
      BY <1>0, TasksAssumption DEF TaskEventsInv
    <2>1. CASE x # t /\ t \in SchedulerTasks
      <3>1. actimode'[x] = actimode[x] /\ alarmtime'[x] = alarmtime[x]
        BY <2>0, <2>1, <1>1, <1>6
      <3> QED BY <2>0, <2>1, <3>1, <1>0, <1>1, <1>5, EventOfOther
    <2>2. CASE x # t /\ t \notin SchedulerTasks
      <3>1. actimode'[x] = actimode[x] /\ alarmtime'[x] = alarmtime[x]
        BY <2>0, <2>2, <1>1, <1>6
      <3> QED BY <2>0, <2>2, <3>1, <1>1, <1>4, EventKept
    <2>3. CASE x = t
      <3>1. t \notin LeftBehind =>
              Single(queue, t) /\ (Queued(queue, t) => actimode[t] > 0)
        BY <2>0, <2>3, <1>0 DEF EventOK
      <3>2. LeftBehind' = LeftBehind
        BY <1>1 DEF LeftBehind
      <3>3. /\ value > 0 => actimode[t] = 0 /\ ~(actimode[t] > 0)
            /\ ~(value > 0) => value = 0
            /\ value \in {3, 4} => value > 0
        BY <1>1, <1>2 DEF Modes
      <3>4. ~Queued(queue', t) => Single(queue', t)
        BY DEF Queued, Single
      <3>5. /\ t \in started' /\ t \in SchedulerTasks /\ actimode'[t] = value
            /\ alarmtime'[t] = alarmtime[t]
        BY <2>0, <2>3, <1>0, <1>1, <1>6
      <3>6. t \notin LeftBehind =>
              /\ Single(queue', t) /\ (Queued(queue', t) => value > 0)
              /\ value \in {3, 4} => \A e \in Range(queue') : e.obj = t => e.time = alarmtime[t]
        BY <3>1, <3>3, <3>4, <3>5, <1>5
      <3> QED BY <2>3, <3>2, <3>5, <3>6, <1>5 DEF EventOK
    <2> QED BY <2>1, <2>2, <2>3
  <1>10. AlarmInv'
    BY <1>0, <1>1, <1>3, <1>6 DEF AlarmInv, TaskTypeOK
  <1>11. ErrorIsOff'
    <2>1. \A x \in Tasks : ErrState'[x] => ErrState[x] /\ (x = t => ~(value > 0))
      BY <1>0, <1>1 DEF TaskTypeOK
    <2>2. ~(value > 0) => value = 0
      BY <1>2 DEF Modes
    <2> QED BY <2>1, <2>2, <1>0, <1>6 DEF ErrorIsOff
  <1>12. JumpInv'
    <2>1. now' \in Nat /\ now <= now'
      BY <1>0, <1>1, BoundsAssumption DEF TaskTypeOK
    <2> QED BY <2>1, <1>0, <1>1, FramesKept
  <1> QED BY <1>7, <1>8, <1>9, <1>10, <1>11, <1>12 DEF TaskIInv

\* The accessors of the other variables write only while the task is off.
LEMMA SettingStep ==
    ASSUME TaskIInv, NEW t \in Tasks, actimode[t] = 0,
           cycletime' \in Written(CycleTimes), alarmtime' \in Written(AlarmTimes),
           supervised' \in [Tasks -> BOOLEAN],
           \A x \in Tasks : x # t => alarmtime'[x] = alarmtime[x],
           UNCHANGED <<aborted, dbPhase, started, now, queue, actimode, proctime, ErrState, stack,
                       jump>>
    PROVE  TaskIInv'
  <1>0. /\ TaskTypeOK /\ StartedInv /\ TaskEventsInv /\ AlarmInv /\ ErrorIsOff /\ JumpInv
    BY DEF TaskIInv
  <1>1. TaskTypeOK'
    BY <1>0 DEF TaskTypeOK, Top
  <1>2. \A x \in Tasks : actimode'[x] \in {3, 4} => alarmtime'[x] = alarmtime[x]
    OBVIOUS
  <1>3. TaskEventsInv'
    <2> SUFFICES ASSUME NEW x \in SchedulerTasks PROVE EventOK(x)'
      BY DEF TaskEventsInv
    <2>1. EventOK(x) /\ x \in Tasks
      BY <1>0, TasksAssumption DEF TaskEventsInv
    <2> QED BY <2>1, <1>2, EventKept
  <1>4. AlarmInv' /\ StartedInv' /\ ErrorIsOff'
    BY <1>0, <1>2 DEF AlarmInv, StartedInv, ErrorIsOff
  <1>5. JumpInv'
    <2>1. now' \in Nat /\ now <= now'
      BY <1>0, BoundsAssumption DEF TaskTypeOK
    <2> QED BY <2>1, <1>0, FramesKept
  <1> QED BY <1>1, <1>3, <1>4, <1>5 DEF TaskIInv

\* A client may write what it may write to one of the tasks.
LEMMA WrittenOnce ==
    ASSUME NEW values, NEW f \in Written(values), NEW t \in Tasks, NEW v \in values[t]
    PROVE  [f EXCEPT ![t] = v] \in Written(values)
  <1> DEFINE V == UNION {values[x] : x \in Tasks}
  <1>1. f \in [Tasks -> V] /\ (\A x \in Tasks : f[x] \in values[x]) /\ v \in V
    BY DEF Written
  <1> HIDE DEF V
  <1>2. [f EXCEPT ![t] = v] \in [Tasks -> V]
    BY <1>1
  <1>3. \A x \in Tasks : [f EXCEPT ![t] = v][x] \in values[x]
    BY <1>1
  <1> QED BY <1>2, <1>3 DEF Written, V

\* cycletime_set, alarmtime_set and supervised_set.
LEMMA SetSettingsStep ==
    ASSUME TaskIInv, NEW t \in Tasks,
           \/ \E v \in CycleTimes[t] : SetCycletime(t, v)
           \/ \E v \in AlarmTimes[t] : SetAlarmtime(t, v)
           \/ \E v \in SupervisedValues[t] : SetSupervised(t, v)
    PROVE  TaskIInv'
  <1>0. /\ cycletime \in Written(CycleTimes) /\ alarmtime \in Written(AlarmTimes)
        /\ supervised \in [Tasks -> BOOLEAN]
        /\ alarmtime \in [Tasks -> UNION {AlarmTimes[x] : x \in Tasks}]
    BY DEF TaskIInv, TaskTypeOK, Written
  <1>1. ASSUME NEW v \in CycleTimes[t], SetCycletime(t, v) PROVE TaskIInv'
    <2>1. cycletime' \in Written(CycleTimes)
      BY <1>0, <1>1, WrittenOnce DEF SetCycletime
    <2> QED BY <2>1, <1>0, <1>1, SettingStep DEF SetCycletime
  <1>2. ASSUME NEW v \in AlarmTimes[t], SetAlarmtime(t, v) PROVE TaskIInv'
    <2>1. alarmtime' \in Written(AlarmTimes)
      BY <1>0, <1>2, WrittenOnce DEF SetAlarmtime
    <2>2. \A x \in Tasks : x # t => alarmtime'[x] = alarmtime[x]
      BY <1>0, <1>2 DEF SetAlarmtime
    <2> QED BY <2>1, <2>2, <1>0, <1>2, SettingStep DEF SetAlarmtime
  <1>3. ASSUME NEW v \in SupervisedValues[t], SetSupervised(t, v) PROVE TaskIInv'
    <2>1. v \in BOOLEAN
      BY BoundsAssumption
    <2>2. supervised' \in [Tasks -> BOOLEAN]
      BY <2>1, <1>0, <1>3 DEF SetSupervised
    <2> QED BY <2>2, <1>0, <1>3, SettingStep DEF SetSupervised
  <1> QED BY <1>1, <1>2, <1>3

\* The clock advances.
LEMMA TaskTickStep ==
    ASSUME TaskIInv, Tick
    PROVE  TaskIInv'
  <1>0. /\ TaskTypeOK /\ StartedInv /\ TaskEventsInv /\ AlarmInv /\ ErrorIsOff /\ JumpInv
    BY DEF TaskIInv
  <1>1. /\ now' = now + 1 /\ now < MaxTime
        /\ UNCHANGED <<aborted, dbPhase, started, queue, actimode, proctime, ErrState, cycletime,
                       alarmtime, supervised, stack, jump>>
    BY DEF Tick, settings
  <1>2. now' \in 0..MaxTime /\ now' \in Nat /\ now <= now'
    BY <1>0, <1>1, BoundsAssumption DEF TaskTypeOK
  <1>3. TaskTypeOK'
    BY <1>0, <1>1, <1>2 DEF TaskTypeOK, Top
  <1>4. TaskEventsInv'
    <2> SUFFICES ASSUME NEW x \in SchedulerTasks PROVE EventOK(x)'
      BY DEF TaskEventsInv
    <2>1. EventOK(x)
      BY <1>0 DEF TaskEventsInv
    <2> QED BY <2>1, <1>1, EventKept
  <1>5. AlarmInv' /\ StartedInv' /\ ErrorIsOff' /\ JumpInv'
    BY <1>0, <1>1, <1>2, FramesKept DEF AlarmInv, StartedInv, ErrorIsOff
  <1> QED BY <1>3, <1>4, <1>5 DEF TaskIInv

\* The shutdown method of a scheduler task.
LEMMA TaskShutdownStep ==
    ASSUME TaskIInv, NEW t \in Tasks, Shutdown(t)
    PROVE  TaskIInv'
  <1>0. /\ TaskTypeOK /\ StartedInv /\ TaskEventsInv /\ AlarmInv /\ ErrorIsOff /\ JumpInv
        /\ stack = <<>> /\ t \in started /\ t \in SchedulerTasks
    BY DEF TaskIInv, Shutdown, TaskTypeOK
  <1>1. /\ queue' = unregister(queue, t) /\ started' = started \ {t}
        /\ dbPhase' = IF started' = {} THEN "down" ELSE "shutdown"
        /\ UNCHANGED <<aborted, now, actimode, proctime, ErrState, cycletime, alarmtime,
                       supervised, stack, jump>>
    BY DEF Shutdown, settings
  <1>2. /\ queue' \in Seq(Events(SchedulerTasks)) /\ Touches(queue, queue', t)
        /\ Single(queue, t) => ~Queued(queue', t)
    BY <1>0, <1>1, UnregisterTouches DEF TaskTypeOK
  <1>3. TaskTypeOK'
    BY <1>0, <1>1, <1>2 DEF TaskTypeOK, Top
  <1>4. StartedInv'
    BY <1>0, <1>1 DEF StartedInv
  <1>5. TaskEventsInv'
    <2> SUFFICES ASSUME NEW x \in SchedulerTasks PROVE EventOK(x)'
      BY DEF TaskEventsInv
    <2>0. EventOK(x)
      BY <1>0 DEF TaskEventsInv
    <2>1. CASE x # t
      BY <2>0, <2>1, <1>0, <1>1, <1>2, EventOfOther
    <2>2. CASE x = t
      <3>1. LeftBehind' = LeftBehind
        BY <1>1 DEF LeftBehind
      <3>2. t \notin LeftBehind => ~Queued(queue', t)
        BY <2>0, <2>2, <1>2 DEF EventOK
      <3>3. ~Queued(queue', t) => Single(queue', t) /\ \A e \in Range(queue') : e.obj # t
        <4>1. ~Queued(queue', t) => Single(queue', t)
          BY DEF Queued, Single
        <4>2. Queued(queue', t) <=> \E e \in Range(queue') : e.obj = t
          BY <1>2, QueuedRange
        <4> QED BY <4>1, <4>2
      <3> QED BY <2>2, <3>1, <3>2, <3>3, <1>1 DEF EventOK
    <2> QED BY <2>1, <2>2
  <1>6. AlarmInv' /\ ErrorIsOff'
    BY <1>0, <1>1 DEF AlarmInv, ErrorIsOff
  <1>7. JumpInv'
    <2>1. now' \in Nat /\ now <= now'
      BY <1>0, <1>1, BoundsAssumption DEF TaskTypeOK
    <2> QED BY <2>1, <1>0, <1>1, FramesKept
  <1> QED BY <1>3, <1>4, <1>5, <1>6, <1>7 DEF TaskIInv

\* The execute method of a scheduler task begins, for the list q that it finds.
LEMMA EnterSchedulerStep ==
    ASSUME TaskIInv, dbPhase = "up", NEW t \in SchedulerTasks,
           NEW q \in Seq(Events(SchedulerTasks)), Touches(queue, q, t),
           Queued(queue, t) => Queued(q, t), Single(queue, t) => Single(q, t),
           EnterScheduler(q, t),
           UNCHANGED <<aborted, dbPhase, started, now, ErrState, settings>>,
           stack # <<>> => t \in Nested
    PROVE  TaskIInv'
  <1> DEFINE mode == ModeAfter(actimode[t], alarmtime[t], now)
  <1>0. /\ TaskTypeOK /\ StartedInv /\ TaskEventsInv /\ AlarmInv /\ ErrorIsOff /\ JumpInv
        /\ t \in Tasks /\ started = SchedulerTasks
    BY TasksAssumption DEF TaskIInv, StartedInv
  <1>1. /\ queue' = ExecutedQueue(q, t)
        /\ actimode' = [actimode EXCEPT ![t] = mode]
        /\ proctime' = [proctime EXCEPT ![t] = ProctimeAfter(actimode[t], t, now)]
        /\ Enter(t)
        /\ UNCHANGED <<aborted, dbPhase, started, now, ErrState, cycletime, alarmtime, supervised>>
    BY DEF EnterScheduler, settings
  <1>2. /\ cycletime[t] \in Nat /\ alarmtime[t] \in Nat /\ now \in Nat /\ actimode[t] \in Modes
    BY <1>0, TaskSettings
  <1>3. mode \in {0, 1, 2} /\ (actimode[t] = 0 => mode = 0)
    BY <1>2, ModeAfterOK
  <1>4. ProctimeAfter(actimode[t], t, now) \in Nat
    BY <1>0, <1>2, ProctimeAfterOK
  <1>5. /\ queue' \in Seq(Events(SchedulerTasks)) /\ Touches(q, queue', t)
        /\ Single(q, t) => Single(queue', t) /\ (mode = 0 => ~Queued(queue', t))
        /\ mode # 0 => (Queued(queue', t) <=> Queued(q, t))
    BY <1>0, <1>1, ExecutedQueueOK
  <1> HIDE DEF mode
  <1>6. /\ actimode' \in [Tasks -> Modes]
        /\ \A x \in Tasks : actimode'[x] = IF x = t THEN mode ELSE actimode[x]
    <2>1. mode \in Modes
      BY <1>3 DEF Modes
    <2> QED BY <2>1, <1>0, <1>1 DEF TaskTypeOK
  <1>7. JumpInv' /\ stack' \in Seq(Frames) /\ jump' \in 0..Len(stack')
    BY <1>0, <1>1, FramesEnter
  <1>8. TaskTypeOK'
    <2>1. proctime' \in [Tasks -> Nat]
      BY <1>0, <1>1, <1>4 DEF TaskTypeOK
    <2> QED BY <2>1, <1>0, <1>1, <1>5, <1>6, <1>7 DEF TaskTypeOK, Top
  <1>9. StartedInv'
    BY <1>0, <1>1 DEF StartedInv
  <1>10. TaskEventsInv'
    <2> SUFFICES ASSUME NEW x \in SchedulerTasks PROVE EventOK(x)'
      BY DEF TaskEventsInv
    <2>0. EventOK(x) /\ x \in Tasks
      BY <1>0, TasksAssumption DEF TaskEventsInv
    <2>1. CASE x # t
      <3>1. Touches(queue, queue', t)
        BY <1>5, TouchesTwice
      <3>2. actimode'[x] = actimode[x]
        BY <2>0, <2>1, <1>6
      <3> QED BY <2>0, <2>1, <3>1, <3>2, <1>0, <1>1, <1>5, EventOfOther
    <2>2. CASE x = t
      <3>1. LeftBehind' = LeftBehind
        BY <1>1 DEF LeftBehind
      <3>2. /\ actimode'[t] = mode /\ mode \notin {3, 4}
            /\ mode > 0 => actimode[t] > 0 /\ mode # 0
            /\ mode # 0 => mode > 0
        BY <1>0, <1>2, <1>3, <1>6 DEF Modes
      <3>3. mode > 0 => Queued(queue', t)
        BY <2>0, <2>2, <3>2, <1>0, <1>5 DEF EventOK
      <3>4. t \notin LeftBehind => Single(queue', t) /\ (Queued(queue', t) => mode > 0)
        BY <2>0, <2>2, <3>2, <1>5 DEF EventOK
      <3> QED BY <2>2, <3>1, <3>2, <3>3, <3>4, <1>0, <1>1 DEF EventOK
    <2> QED BY <2>1, <2>2
  <1>11. AlarmInv'
    <2>1. \A x \in Tasks : x # t => proctime'[x] = proctime[x]
      BY <1>0, <1>1 DEF TaskTypeOK
    <2> QED BY <2>1, <1>0, <1>1, <1>3, <1>6 DEF AlarmInv
  <1>12. ErrorIsOff'
    BY <1>0, <1>1, <1>3, <1>6 DEF ErrorIsOff
  <1> QED BY <1>7, <1>8, <1>9, <1>10, <1>11, <1>12 DEF TaskIInv

\* The scheduler executes the event at the head of its list.
LEMMA ExecuteEventStep ==
    ASSUME TaskIInv, ExecuteEvent
    PROVE  TaskIInv'
  <1> DEFINE t == Head(queue).obj
             q == requeuehead(queue, now)
  <1>1. /\ queue \in Seq(Events(SchedulerTasks)) /\ queue # <<>> /\ now \in Nat
        /\ dbPhase = "up" /\ stack = <<>> /\ EnterScheduler(q, t)
        /\ UNCHANGED <<aborted, dbPhase, started, now, ErrState, settings>>
    BY BoundsAssumption DEF TaskIInv, TaskTypeOK, ExecuteEvent, HeadDue
  <1>2. /\ t \in SchedulerTasks /\ q \in Seq(Events(SchedulerTasks)) /\ Touches(queue, q, t)
        /\ Queued(q, t) /\ (Single(queue, t) => Single(q, t))
    BY <1>1, RequeueHeadTouches
  <1> HIDE DEF t, q
  <1> QED BY <1>1, <1>2, EnterSchedulerStep

\* The child at which the loop of the topmost method is, and its parent.
LEMMA ChildOK ==
    ASSUME TaskIInv, InChildren, stack[Top].next <= Len(Kids)
    PROVE  /\ Child \in Tasks /\ (Child \in SchedulerTasks => Child \in Nested)
           /\ stack[Top].acttime \in Nat /\ stack[Top].acttime <= now
           /\ dbPhase = "up" /\ Top \in 1..Top /\ Top \in Nat
  <1>1. /\ stack \in Seq(Frames) /\ stack # <<>> /\ FramesOK(stack) /\ Top = Len(stack)
        /\ dbPhase = "up"
    BY DEF TaskIInv, JumpInv, FramesOK, InChildren, Top, StartedInv
  <1>2. Top \in Nat /\ Top \in 1..Top
    BY <1>1, LenProperties, EmptySeq
  <1>3. /\ stack[Top].task \in Tasks /\ stack[Top].acttime \in Nat
        /\ stack[Top].next \in Nat \ {0} /\ stack[Top].acttime <= now
    BY <1>1, <1>2, FrameFields DEF FramesOK
  <1>4. Kids \in Seq(Tasks) /\ Len(Kids) \in Nat
    BY <1>3, TasksAssumption, LenProperties DEF Kids
  <1>5. stack[Top].next \in 1..Len(Kids)
    BY <1>3, <1>4
  <1>6. Child \in Tasks /\ Child \in ToSet(Kids)
    BY <1>4, <1>5, ElementOfSeq DEF Child, ToSet
  <1>7. Child \in SchedulerTasks => Child \in Nested
    BY <1>3, <1>6 DEF Nested, Kids
  <1> QED BY <1>1, <1>2, <1>3, <1>6, <1>7

\* A parent calls the execute method of a child that is due.
LEMMA ExecuteChildStep ==
    ASSUME TaskIInv, ExecuteChild
    PROVE  TaskIInv'
  <1> DEFINE t == Child
  <1>0. /\ TaskTypeOK /\ StartedInv /\ TaskEventsInv /\ AlarmInv /\ ErrorIsOff /\ JumpInv
    BY DEF TaskIInv
  <1>1. t \in Tasks /\ (t \in SchedulerTasks => t \in Nested) /\ dbPhase = "up"
    BY ChildOK DEF ExecuteChild
  <1>2. /\ IF t \in SchedulerTasks
           THEN EnterScheduler(queue, t)
           ELSE Enter(t) /\ UNCHANGED <<queue, actimode, proctime>>
        /\ UNCHANGED <<aborted, dbPhase, started, now, ErrState, settings>>
    BY DEF ExecuteChild
  <1> HIDE DEF t
  <1>3. CASE t \in SchedulerTasks
    <2>1. queue \in Seq(Events(SchedulerTasks)) /\ Touches(queue, queue, t)
      BY <1>0, TouchesNothing DEF TaskTypeOK
    <2> QED BY <1>1, <1>2, <1>3, <2>1, EnterSchedulerStep
  <1>4. CASE t \notin SchedulerTasks
    <2>1. /\ Enter(t) /\ UNCHANGED <<queue, actimode, proctime, aborted, dbPhase, started, now,
                                     ErrState, cycletime, alarmtime, supervised>>
      BY <1>2, <1>4 DEF settings
    <2>2. JumpInv' /\ stack' \in Seq(Frames) /\ jump' \in 0..Len(stack')
      BY <2>1, <1>0, <1>1, <1>4, FramesEnter
    <2>3. TaskTypeOK'
      BY <2>1, <2>2, <1>0 DEF TaskTypeOK, Top
    <2>4. StartedInv' /\ AlarmInv' /\ ErrorIsOff'
      BY <2>1, <1>0, <1>1 DEF StartedInv, AlarmInv, ErrorIsOff
    <2>5. TaskEventsInv'
      <3> SUFFICES ASSUME NEW x \in SchedulerTasks PROVE EventOK(x)'
        BY DEF TaskEventsInv
      <3>1. EventOK(x)
        BY <1>0 DEF TaskEventsInv
      <3> QED BY <3>1, <2>1, EventKept
    <2> QED BY <2>2, <2>3, <2>4, <2>5 DEF TaskIInv
  <1> QED BY <1>3, <1>4

\* A parent passes over a child that is off or not due.
LEMMA SkipChildStep ==
    ASSUME TaskIInv, SkipChild
    PROVE  TaskIInv'
  <1>0. /\ TaskTypeOK /\ StartedInv /\ TaskEventsInv /\ AlarmInv /\ ErrorIsOff /\ JumpInv
    BY DEF TaskIInv
  <1>1. /\ stack' = NextChildOf(stack)
        /\ UNCHANGED <<aborted, dbPhase, started, now, queue, actimode, proctime, ErrState,
                       cycletime, alarmtime, supervised, jump>>
    BY DEF SkipChild, NextChildOf, Top, settings
  <1>2. Top \in 1..Top /\ Top \in Nat /\ dbPhase = "up"
    BY ChildOK DEF SkipChild
  <1>3. /\ FramesOK(stack') /\ Len(stack') = Top
        /\ \A i \in 1..Top : stack'[i].guarded = stack[i].guarded
    BY <1>0, <1>1, <1>2, FramesNext DEF JumpInv, Top
  <1>4. jump \in 0..Top
    BY <1>0 DEF TaskTypeOK
  <1>5. JumpInv'
    <2>1. FramesOK(stack)'
      BY <1>1, <1>3 DEF FramesOK
    <2> QED BY <2>1, <1>0, <1>1, <1>2, <1>3, <1>4 DEF JumpInv
  <1>6. TaskTypeOK'
    BY <1>0, <1>1, <1>3, <1>4 DEF TaskTypeOK, Top, FramesOK
  <1>7. StartedInv' /\ AlarmInv' /\ ErrorIsOff'
    BY <1>0, <1>1, <1>2 DEF StartedInv, AlarmInv, ErrorIsOff
  <1>8. TaskEventsInv'
    <2> SUFFICES ASSUME NEW x \in SchedulerTasks PROVE EventOK(x)'
      BY DEF TaskEventsInv
    <2>1. EventOK(x)
      BY <1>0 DEF TaskEventsInv
    <2> QED BY <2>1, <1>1, EventKept
  <1> QED BY <1>5, <1>6, <1>7, <1>8 DEF TaskIInv

\* An execute method ends, by returning or by a jump: its parent goes on.
LEMMA ResumeStep ==
    ASSUME TaskIInv, NEW k \in 0..(Top - 1), NEW t, t = stack[k + 1].task, NEW mode \in Modes,
           Resume(SubSeq(stack, 1, k), t, mode), mode = actimode[t] \/ mode = 0,
           jump' = 0 \/ (jump' = jump /\ jump \in 0..k), aborted \subseteq aborted',
           mode # actimode[t] => t \in aborted',
           ErrState' \in [Tasks -> BOOLEAN], ErrState'[t] => mode = 0,
           \A x \in Tasks : x # t => ErrState'[x] = ErrState[x],
           UNCHANGED <<dbPhase, started, now, queue, settings>>
    PROVE  TaskIInv'
  <1> DEFINE rest == SubSeq(stack, 1, k)
             after == ModeAfter(mode, alarmtime[t], rest[k].acttime)
             m == IF k = 0 THEN mode ELSE after
  <1>0. /\ TaskTypeOK /\ StartedInv /\ TaskEventsInv /\ AlarmInv /\ ErrorIsOff /\ JumpInv
        /\ stack \in Seq(Frames) /\ FramesOK(stack) /\ Top = Len(stack) /\ Top \in Nat
    BY FrameFields DEF TaskIInv, JumpInv, FramesOK, Top
  <1>1. k \in Nat /\ k + 1 \in 1..Top /\ k \in 0..Top /\ (k # 0 => k + 1 > 1 /\ k \in 1..k)
        /\ Top # 0
    BY <1>0
  <1>2. /\ t \in Tasks /\ dbPhase = "up"
        /\ k # 0 => t \in Nested \cup (Tasks \ SchedulerTasks)
    <2>1. stack # <<>>
      BY <1>0, <1>1, EmptySeq
    <2> QED BY <2>1, <1>0, <1>1, FrameFields DEF FramesOK, StartedInv
  <1>3. FramesOK(rest) /\ Len(rest) = k /\ \A i \in 1..k : rest[i] = stack[i]
    BY <1>0, <1>1, FramesBelow
  <1> HIDE DEF rest
  <1>4. k # 0 => rest[k].acttime \in Nat
    BY <1>1, <1>3, FrameFields DEF FramesOK
  <1>5. /\ alarmtime[t] \in Nat /\ actimode[t] \in Modes
    BY <1>0, <1>2, TaskSettings
  <1>6. k # 0 => after \in {0, 1, 2} /\ (mode = 0 => after = 0)
    BY <1>4, <1>5, ModeAfterOK
  <1>7. k = 0 => /\ stack' = rest /\ actimode' = [actimode EXCEPT ![t] = mode]
                 /\ proctime' = proctime
    BY <1>3 DEF Resume, rest
  <1>8. k # 0 => /\ stack' = NextChildOf(rest)
                 /\ actimode' = [actimode EXCEPT ![t] = after]
                 /\ proctime' = [proctime EXCEPT ![t] = ProctimeAfter(mode, t, rest[k].acttime)]
    BY <1>3 DEF Resume, rest, NextChildOf
  <1> HIDE DEF after
  <1>9. /\ actimode' \in [Tasks -> Modes]
        /\ \A x \in Tasks : actimode'[x] = IF x = t THEN m ELSE actimode[x]
    <2>1. m \in Modes
      BY <1>6 DEF Modes
    <2>2. actimode' = [actimode EXCEPT ![t] = m]
      BY <1>7, <1>8
    <2> HIDE DEF m
    <2> QED BY <2>1, <2>2, <1>0, <1>2 DEF TaskTypeOK
  <1>10. /\ m \in Modes /\ (mode = 0 => m = 0) /\ (m # 0 => actimode[t] # 0)
         /\ m > 0 => actimode[t] > 0
    <2>1. m \in Modes
      BY <1>2, <1>9
    <2>2. (mode = 0 => m = 0) /\ (m # 0 => actimode[t] # 0)
      BY <1>6
    <2>3. \A a \in Modes : (a > 0 <=> a # 0)
      BY DEF Modes
    <2> QED BY <2>1, <2>2, <2>3, <1>5
  <1>11. proctime' \in [Tasks -> Nat] /\ \A x \in Tasks : x # t => proctime'[x] = proctime[x]
    <2>1. k # 0 => ProctimeAfter(mode, t, rest[k].acttime) \in Nat
      BY <1>0, <1>2, <1>4, ProctimeAfterOK
    <2>2. proctime \in [Tasks -> Nat]
      BY <1>0 DEF TaskTypeOK
    <2>3. CASE k = 0
      BY <2>2, <2>3, <1>7
    <2>4. CASE k # 0
      BY <2>1, <2>2, <2>4, <1>2, <1>8
    <2> QED BY <2>3, <2>4
  <1>12. /\ FramesOK(stack') /\ Len(stack') = k
         /\ \A i \in 1..k : stack'[i].guarded = stack[i].guarded
    <2>1. k # 0 => /\ FramesOK(NextChildOf(rest)) /\ Len(NextChildOf(rest)) = k
                   /\ \A i \in 1..k : NextChildOf(rest)[i].guarded = rest[i].guarded
      BY <1>3, FramesNext
    <2> QED BY <2>1, <1>3, <1>7, <1>8
  <1>13. UNCHANGED <<cycletime, alarmtime, supervised>>
    BY DEF settings
  <1>14. JumpInv' /\ jump' \in 0..k
    <2>1. FramesOK(stack)'
      BY <1>12 DEF FramesOK
    <2>2. jump' \in 0..k
      BY <1>1
    <2>3. jump' # 0 => jump' = jump /\ jump \in 1..k
      BY <1>1, <2>2
    <2>4. jump' # 0 => stack'[jump'].guarded
      BY <2>3, <1>0, <1>12 DEF JumpInv
    <2> QED BY <2>1, <2>2, <2>4 DEF JumpInv
  <1>15. TaskTypeOK'
    BY <1>0, <1>9, <1>11, <1>12, <1>13, <1>14 DEF TaskTypeOK, Top, FramesOK
  <1>16. StartedInv'
    BY <1>0, <1>2 DEF StartedInv
  <1>17. TaskEventsInv'
    <2> SUFFICES ASSUME NEW x \in SchedulerTasks PROVE EventOK(x)'
      BY DEF TaskEventsInv
    <2>0. EventOK(x) /\ x \in Tasks
      BY <1>0, TasksAssumption DEF TaskEventsInv
    <2>1. x \notin LeftBehind' => actimode'[x] = actimode[x]
      <3>1. x = t /\ k # 0 => x \in LeftBehind'
        BY <1>2 DEF LeftBehind
      <3>2. x = t /\ mode # actimode[t] => x \in LeftBehind'
        BY DEF LeftBehind
      <3> QED BY <2>0, <3>1, <3>2, <1>9
    <2>2. actimode'[x] > 0 => actimode[x] > 0
      BY <2>0, <1>9, <1>10
    <2> QED BY <2>0, <2>1, <2>2, <1>13, EventKept
  <1>18. AlarmInv'
    <2> SUFFICES ASSUME NEW x \in Tasks, actimode'[x] \in {3, 4}
                 PROVE  proctime'[x] = alarmtime[x]
      BY <1>13 DEF AlarmInv
    <2>1. CASE x # t
      BY <2>1, <1>0, <1>9, <1>11 DEF AlarmInv
    <2>2. CASE x = t
      <3>1. k = 0 /\ mode # 0 /\ actimode[t] \in {3, 4}
        BY <2>2, <1>2, <1>6, <1>9
      <3> QED BY <2>2, <3>1, <1>0, <1>2, <1>7 DEF AlarmInv
    <2> QED BY <2>1, <2>2
  <1>19. ErrorIsOff'
    BY <1>0, <1>9, <1>10 DEF ErrorIsOff
  <1> QED BY <1>14, <1>15, <1>16, <1>17, <1>18, <1>19 DEF TaskIInv

\* The topmost execute method returns.
LEMMA TaskReturnStep ==
    ASSUME TaskIInv, Return
    PROVE  TaskIInv'
  <1> DEFINE k == Top - 1
             t == stack[k + 1].task
  <1>0. /\ TaskTypeOK /\ JumpInv /\ ErrorIsOff /\ stack \in Seq(Frames) /\ Top = Len(stack)
        /\ Top \in Nat /\ stack # <<>>
    BY FrameFields DEF TaskIInv, JumpInv, FramesOK, Top, Return
  <1>1. k \in 0..(Top - 1) /\ k + 1 = Top /\ Top \in 1..Top
    BY <1>0, EmptySeq
  <1>2. t \in Tasks /\ actimode[t] \in Modes
    BY <1>0, <1>1, FrameFields DEF TaskTypeOK
  <1>3. /\ Resume(SubSeq(stack, 1, k), t, actimode[t])
        /\ jump' = IF stack[Top].guarded THEN 0 ELSE jump
        /\ UNCHANGED <<aborted, dbPhase, started, now, queue, ErrState, settings>>
    BY <1>1 DEF Return
  <1>4. jump' = 0 \/ (jump' = jump /\ jump \in 0..k)
    <2>1. jump \in 0..Top /\ (jump # 0 => stack[jump].guarded)
      BY <1>0 DEF TaskTypeOK, JumpInv
    <2>2. CASE jump = Top
      BY <2>1, <2>2, <1>1, <1>3
    <2>3. CASE jump # Top
      BY <2>1, <2>3, <1>0, <1>3
    <2> QED BY <2>2, <2>3
  <1>5. ErrState' \in [Tasks -> BOOLEAN] /\ (ErrState'[t] => actimode[t] = 0)
    BY <1>0, <1>2, <1>3 DEF TaskTypeOK, ErrorIsOff
  <1> HIDE DEF k, t
  <1>6. t = stack[k + 1].task
    BY DEF t
  <1> QED BY <1>1, <1>2, <1>3, <1>4, <1>5, <1>6, ResumeStep

\* SIGALRM ends the supervised method.
LEMMA TimeoutStep ==
    ASSUME TaskIInv, Timeout
    PROVE  TaskIInv'
  <1> DEFINE k == jump - 1
             t == stack[k + 1].task
  <1>0. /\ TaskTypeOK /\ JumpInv /\ stack \in Seq(Frames) /\ Top = Len(stack)
        /\ Top \in Nat /\ jump \in 0..Top /\ jump # 0
    BY FrameFields DEF TaskIInv, TaskTypeOK, JumpInv, FramesOK, Top, Timeout
  <1>1. k \in 0..(Top - 1) /\ k + 1 = jump /\ jump \in 1..Top
    BY <1>0
  <1>2. t \in Tasks /\ actimode[t] \in Modes /\ 0 \in Modes
    BY <1>0, <1>1, FrameFields DEF TaskTypeOK, Modes
  <1>3. /\ Resume(SubSeq(stack, 1, k), t, 0) /\ jump' = 0 /\ aborted' = aborted \cup {t}
        /\ ErrState' = [ErrState EXCEPT ![t] = TRUE]
        /\ UNCHANGED <<dbPhase, started, now, queue, settings>>
    BY <1>1 DEF Timeout
  <1>4. /\ ErrState' \in [Tasks -> BOOLEAN]
        /\ \A x \in Tasks : x # t => ErrState'[x] = ErrState[x]
    BY <1>0, <1>2, <1>3 DEF TaskTypeOK
  <1> HIDE DEF k, t
  <1>5. t = stack[k + 1].task
    BY DEF t
  <1> QED BY <1>1, <1>2, <1>3, <1>4, <1>5, ResumeStep

---------------------------------------------------------------------------
\* The invariant holds initially.
LEMMA TaskInitially ==
    ASSUME TaskInit
    PROVE  TaskIInv
  <1>1. /\ actimode \in [Tasks -> UNION {ClientModes[t] : t \in Tasks}]
        /\ \A t \in Tasks : actimode[t] \in ClientModes[t]
    BY DEF TaskInit, Written
  <1>2. actimode \in [Tasks -> Modes]
    BY <1>1, BoundsAssumption DEF Modes
  <1>3. /\ alarmtime \in Written(AlarmTimes) /\ cycletime \in Written(CycleTimes)
        /\ \A t \in Tasks : alarmtime[t] \in Nat
    BY BoundsAssumption DEF TaskInit, Written
  <1>4. supervised \in [Tasks -> BOOLEAN]
    <2>1. /\ supervised \in [Tasks -> UNION {SupervisedValues[t] : t \in Tasks}]
          /\ \A t \in Tasks : supervised[t] \in SupervisedValues[t]
      BY DEF TaskInit, Written
    <2>2. \A t \in Tasks : supervised[t] \in BOOLEAN
      BY <2>1, BoundsAssumption
    <2> QED BY <2>1, <2>2
  <1>5. /\ proctime = [t \in Tasks |-> IF actimode[t] \in {3, 4} THEN alarmtime[t] ELSE 0]
        /\ dbPhase = "startup" /\ started = {} /\ now = 0 /\ queue = <<>> /\ stack = <<>>
        /\ jump = 0 /\ ErrState = [t \in Tasks |-> FALSE]
    BY DEF TaskInit
  <1>6. proctime \in [Tasks -> Nat] /\ AlarmInv
    BY <1>3, <1>5 DEF AlarmInv
  <1>7. ErrState \in [Tasks -> BOOLEAN] /\ ErrorIsOff
    BY <1>5 DEF ErrorIsOff
  <1>8. /\ stack \in Seq(Frames) /\ queue \in Seq(Events(SchedulerTasks))
        /\ Len(stack) = 0 /\ Len(queue) = 0
    BY <1>5, EmptySeq
  <1>9. TaskTypeOK
    BY <1>2, <1>3, <1>4, <1>5, <1>6, <1>7, <1>8, BoundsAssumption DEF TaskTypeOK, Top
  <1>10. StartedInv /\ JumpInv
    BY <1>5, <1>8 DEF StartedInv, JumpInv, FramesOK
  <1>11. TaskEventsInv
    <2> SUFFICES ASSUME NEW t \in SchedulerTasks PROVE EventOK(t)
      BY DEF TaskEventsInv
    <2>1. ~Queued(queue, t) /\ Single(queue, t)
      BY <1>8 DEF Queued, Single
    <2>2. \A e \in Range(queue) : e.obj # t
      BY <2>1, <1>8, QueuedRange
    <2> QED BY <2>1, <2>2, <1>5 DEF EventOK
  <1> QED BY <1>6, <1>7, <1>9, <1>10, <1>11 DEF TaskIInv

\* What the invariant says in a state of the server.
LEMMA TaskIInvSuffices ==
    ASSUME TaskIInv
    PROVE  TaskInv
  <1>0. /\ TaskTypeOK /\ StartedInv /\ TaskEventsInv /\ ErrorIsOff
    BY DEF TaskIInv
  <1>1. EventIffOn
    <2> SUFFICES ASSUME dbPhase = "up", NEW t \in SchedulerTasks \ LeftBehind
                 PROVE  (Queued(queue, t) <=> actimode[t] > 0) /\ Single(queue, t)
      BY DEF EventIffOn, Single
    <2> QED BY <1>0 DEF StartedInv, TaskEventsInv, EventOK
  <1>2. OnHasEvent
    BY <1>0 DEF OnHasEvent, StartedInv, TaskEventsInv, EventOK
  <1>3. NoEventAfterShutdown
    <2> SUFFICES ASSUME dbPhase = "down", NEW i \in 1..Len(queue)
                 PROVE  queue[i].obj \in LeftBehind
      BY DEF NoEventAfterShutdown, ObjectsOf
    <2>1. queue[i].obj \in SchedulerTasks
      <3>1. queue[i] \in Events(SchedulerTasks)
        BY <1>0, ElementOfSeq DEF TaskTypeOK
      <3> QED BY <3>1 DEF Events
    <2>2. Queued(queue, queue[i].obj)
      BY DEF Queued
    <2> QED BY <2>1, <2>2, <1>0 DEF StartedInv, TaskEventsInv, EventOK
  <1> QED BY <1>0, <1>1, <1>2, <1>3 DEF TaskInv

\* Only the two calls of execute put a frame on the stack.
LEMMA OnlyExecutionsBegin ==
    ASSUME TaskIInv, TaskNext, ~ExecuteEvent, ~ExecuteChild
    PROVE  ~(Len(stack') > Len(stack))
  <1>0. /\ TaskTypeOK /\ JumpInv /\ stack \in Seq(Frames) /\ Top = Len(stack)
        /\ Top \in Nat /\ FramesOK(stack) /\ jump \in 0..Top
    BY FrameFields DEF TaskIInv, TaskTypeOK, JumpInv, FramesOK, Top
  <1>1. ASSUME NEW k \in 0..(Top - 1), NEW t, NEW mode, Resume(SubSeq(stack, 1, k), t, mode)
        PROVE  Len(stack') = k
    <2> DEFINE rest == SubSeq(stack, 1, k)
    <2>1. k \in 0..Top
      BY <1>0
    <2>2. FramesOK(rest) /\ Len(rest) = k
      BY <2>1, <1>0, FramesBelow
    <2>3. stack' = rest \/ (k # 0 /\ stack' = NextChildOf(rest))
      BY <1>1, <2>2 DEF Resume, NextChildOf
    <2> HIDE DEF rest
    <2> QED BY <2>2, <2>3, FramesNext
  <1>2. CASE stack' = stack
    BY <1>0, <1>2
  <1>3. CASE SkipChild
    <2>1. Len(stack) # 0 /\ stack' = NextChildOf(stack)
      BY <1>0, <1>3, EmptySeq DEF SkipChild, InChildren, NextChildOf, Top
    <2> QED BY <2>1, <1>0, FramesNext
  <1>4. CASE Return
    <2>1. Resume(SubSeq(stack, 1, Top - 1), stack[Top].task, actimode[stack[Top].task])
      BY <1>4 DEF Return
    <2>2. Top - 1 \in 0..(Top - 1) /\ Top - 1 < Top
      BY <1>0, <1>4, EmptySeq DEF Return
    <2> QED BY <1>0, <1>1, <2>1, <2>2
  <1>5. CASE Timeout
    <2>1. Resume(SubSeq(stack, 1, jump - 1), stack[jump].task, 0)
      BY <1>5 DEF Timeout
    <2>2. jump - 1 \in 0..(Top - 1) /\ jump - 1 < Top
      BY <1>0, <1>5 DEF Timeout
    <2> QED BY <1>0, <1>1, <2>1, <2>2
  <1>6. stack' = stack \/ SkipChild \/ Return \/ Timeout
    BY DEF TaskNext, Startup, Shutdown, SetActimode, SetCycletime, SetAlarmtime, SetSupervised,
           Tick, Done, taskVars
  <1> QED BY <1>2, <1>3, <1>4, <1>5, <1>6

\* Every step keeps the invariant.
LEMMA TaskStep ==
    ASSUME TaskIInv, [TaskNext]_taskVars
    PROVE  TaskIInv'
  <1>1. ASSUME NEW t \in Tasks, Startup(t) PROVE TaskIInv'
    BY <1>1, StartupStep
  <1>2. ASSUME NEW t \in Tasks, Shutdown(t) PROVE TaskIInv'
    BY <1>2, TaskShutdownStep
  <1>3. ASSUME NEW t \in Tasks, NEW v \in ClientModes[t], SetActimode(t, v) PROVE TaskIInv'
    BY <1>3, SetActimodeStep
  <1>4. ASSUME NEW t \in Tasks,
               \/ \E v \in CycleTimes[t] : SetCycletime(t, v)
               \/ \E v \in AlarmTimes[t] : SetAlarmtime(t, v)
               \/ \E v \in SupervisedValues[t] : SetSupervised(t, v)
        PROVE  TaskIInv'
    BY <1>4, SetSettingsStep
  <1>5. CASE ExecuteEvent
    BY <1>5, ExecuteEventStep
  <1>6. CASE SkipChild
    BY <1>6, SkipChildStep
  <1>7. CASE ExecuteChild
    BY <1>7, ExecuteChildStep
  <1>8. CASE Return
    BY <1>8, TaskReturnStep
  <1>9. CASE Timeout
    BY <1>9, TimeoutStep
  <1>10. CASE Tick
    BY <1>10, TaskTickStep
  <1>11. CASE UNCHANGED taskVars
    <2>1. UNCHANGED <<dbPhase, started, now, queue, actimode, proctime, ErrState, cycletime,
                      alarmtime, supervised, stack, jump, aborted>>
      BY <1>11 DEF taskVars, settings
    <2> QED BY <2>1 DEF TaskIInv, TaskTypeOK, StartedInv, TaskEventsInv, EventOK, AlarmInv,
                        ErrorIsOff, JumpInv, FramesOK, Top, LeftBehind
  <1> QED BY <1>1, <1>2, <1>3, <1>4, <1>5, <1>6, <1>7, <1>8, <1>9, <1>10, <1>11
       DEF TaskNext, Done

\* The inductive invariant of tasklib holds in every state, for every set of
\* tasks, every task list and all settings that clients write.
THEOREM TaskInvariance == TaskSpec => []TaskIInv
  <1>1. TaskInit => TaskIInv
    BY TaskInitially
  <1>2. TaskIInv /\ [TaskNext]_taskVars => TaskIInv'
    BY TaskStep
  <1> QED BY <1>1, <1>2, PTL DEF TaskSpec

\* actimode_set, execute, the timeout and the shutdown keep the list of the
\* scheduler and the modes of the tasks together: a scheduler task that is on has
\* an event, one that is off has none unless it was aborted or is nested, a task
\* with an error is off, and nothing else is left after the shutdown.
THEOREM TaskEvents == TaskSpec => []TaskInv
  <1>1. TaskIInv => TaskInv
    BY TaskIInvSuffices
  <1> QED BY <1>1, TaskInvariance, PTL

\* tasklib_SchedulerTask_execute and tasklib_Task_execute begin no task that is
\* off, and none before the alarm it waits for, but for what was left behind.
THEOREM TaskExecutedInTime == TaskSpec => ExecutedInTime
  <1> DEFINE InTime == \A t \in Tasks :
                Begins(t) /\ (stack = <<>> => t \notin LeftBehind) =>
                    /\ actimode[t] # 0
                    /\ actimode[t] \in {3, 4} => now >= alarmtime[t]
  <1>1. TaskIInv /\ [TaskNext]_taskVars => [InTime]_taskVars
    <2> SUFFICES ASSUME TaskIInv, TaskNext, NEW t \in Tasks, Begins(t),
                        stack = <<>> => t \notin LeftBehind
                 PROVE  /\ actimode[t] # 0
                        /\ actimode[t] \in {3, 4} => now >= alarmtime[t]
      OBVIOUS
    <2>0. /\ TaskTypeOK /\ StartedInv /\ TaskEventsInv /\ AlarmInv /\ ErrorIsOff /\ JumpInv
          /\ actimode[t] \in Modes /\ alarmtime[t] \in Nat /\ now \in Nat
      BY TaskSettings DEF TaskIInv
    <2>1. CASE ExecuteEvent
      <3> DEFINE o == Head(queue).obj
      <3>1. /\ queue \in Seq(Events(SchedulerTasks)) /\ queue # <<>> /\ now > Head(queue).time
            /\ stack = <<>> /\ EnterScheduler(requeuehead(queue, now), o) /\ now' = now
        BY <2>0, <2>1 DEF TaskTypeOK, ExecuteEvent, HeadDue
      <3>2. o \in SchedulerTasks /\ o \in Tasks /\ Head(queue) \in Range(queue) /\ Queued(queue, o)
        BY <2>0, <3>1, RequeueHeadTouches, TasksAssumption
      <3>3. Len(stack') = Top + 1 /\ stack'[Top + 1].task = o
        BY <2>0, <3>1, <3>2, FramesEnter DEF EnterScheduler
      <3>4. t = o
        BY <3>3 DEF Begins
      <3>5. EventOK(o) /\ o \notin LeftBehind
        BY <2>0, <3>1, <3>2, <3>4 DEF TaskEventsInv
      <3>6. actimode[o] > 0
        BY <3>2, <3>5 DEF EventOK
      <3>7. actimode[o] \in {3, 4} => Head(queue).time = alarmtime[o]
        BY <3>2, <3>5 DEF EventOK
      <3> HIDE DEF o
      <3>8. actimode[t] # 0
        BY <3>4, <3>6, <2>0
      <3>9. actimode[t] \in {3, 4} => now >= alarmtime[t]
        BY <3>1, <3>4, <3>7, <2>0
      <3> QED BY <3>8, <3>9
    <2>2. CASE ExecuteChild
      <3>1. /\ Child \in Tasks /\ (Child \in SchedulerTasks => Child \in Nested)
            /\ stack[Top].acttime \in Nat /\ stack[Top].acttime <= now
        BY <2>2, ChildOK DEF ExecuteChild
      <3>2. Enter(Child) /\ now' = now /\ ChildDue
        BY <2>2 DEF ExecuteChild, EnterScheduler
      <3>3. Len(stack') = Top + 1 /\ stack'[Top + 1].task = Child
        BY <2>0, <3>1, <3>2, FramesEnter
      <3>4. t = Child
        BY <3>3 DEF Begins
      <3>5. actimode[t] > 0 /\ proctime[t] <= stack[Top].acttime
        BY <3>2, <3>4 DEF ChildDue
      <3>6. actimode[t] \in {3, 4} => proctime[t] = alarmtime[t]
        BY <2>0 DEF AlarmInv
      <3>7. actimode[t] # 0
        BY <2>0, <3>5
      <3>8. actimode[t] \in {3, 4} => now >= alarmtime[t]
        BY <2>0, <3>1, <3>5, <3>6
      <3> QED BY <3>7, <3>8
    <2> QED BY <2>1, <2>2, OnlyExecutionsBegin DEF Begins
  <1> QED BY <1>1, TaskInvariance, PTL DEF TaskSpec, ExecutedInTime
===========================================================================
