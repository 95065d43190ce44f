-------------------------------- MODULE Ssc --------------------------------
(***************************************************************************)
(* A sequential state chart of the library ssc (SequentialStateChart.c,    *)
(* step.c).  The chart is a function block: in each cycle its typemethod   *)
(* runs a state machine of working states, which the command EN drives,    *)
(* and then the step that is linked to its task list taskActiveStep.  A    *)
(* step executes its entry and do actions, in the next cycle it looks at   *)
(* its transitions.  Every case of the two switch statements is an action. *)
(* Clients write EN and the names of the init and end steps between two    *)
(* cycles; which transition has a result is an input.  Charts that are     *)
(* executed by action blocks of another chart are left out.                *)
(***************************************************************************)
EXTENDS Naturals, SequencesExt

CONSTANTS
    Steps,            \* the steps of the chart
    NoStep,           \* a NULL pointer
    InitStep,         \* the step that the constructor makes the init step
    EndStep,          \* ... and the one it makes the end step
    Transitions,      \* pairs <<step, next step>>; the next one may be missing
    Commands,         \* values of EN that clients write
    MayRename         \* may clients set initStepName and endStepName?

AllCommands == {"stop", "start", "break", "reset"}

ASSUME StepsAssumption ==
    /\ {InitStep, EndStep} \subseteq Steps /\ InitStep # EndStep
    /\ NoStep \notin Steps
ASSUME CommandsAssumption == Commands \subseteq AllCommands /\ MayRename \in BOOLEAN
\* The association of a transition with its two steps refuses a loop.
nextTransitions_link(t) == t[1] # t[2]

ASSUME TransitionsAssumption ==
    /\ Transitions \subseteq Steps \X (Steps \cup {NoStep})
    /\ \A t \in Transitions : nextTransitions_link(t)

VARIABLES
    EN, workingState,
    woStPhase, woStQualifier,          \* of the working state
    active,                            \* the task list of taskActiveStep
    internalRole, on, X,               \* of each step; on: v_actimode
    phase, qualifier,                  \* of each step
    exitmode,                          \* v_actimode of its task exit
    error,
    pc,                                \* where the typemethod is
    pActiveStep,                       \* its local variable
    step, caller,                      \* the step being executed, and for whom
    entered,                           \* history: steps whose entry actions have
                                       \* been executed since they were linked
    noexit                             \* history: steps that were left without
                                       \* their exit actions

command == <<EN>>
working == <<workingState, woStPhase, woStQualifier>>
steps == <<active, on, X, phase, qualifier, exitmode>>
control == <<pc, pActiveStep, step, caller>>
history == <<entered, noexit>>
vars == <<command, working, steps, internalRole, error, control, history>>

\* The constructors of the chart and of its steps.
Init ==
    /\ EN = "stop" /\ workingState = "INIT"
    /\ woStPhase = "entrydo" /\ woStQualifier = "entry"
    /\ active = <<>>
    /\ internalRole = [s \in Steps |-> IF s = InitStep THEN "start"
                                       ELSE IF s = EndStep THEN "end" ELSE "normal"]
    /\ on = [s \in Steps |-> s = InitStep]
    /\ X = [s \in Steps |-> FALSE]
    /\ phase = [s \in Steps |-> "entrydo"]
    /\ qualifier = [s \in Steps |-> "entry"]
    /\ exitmode = [s \in Steps |-> "on"]
    /\ error = FALSE
    /\ pc = "idle" /\ pActiveStep = NoStep /\ step = NoStep /\ caller = "none"
    /\ entered = {} /\ noexit = {}

---------------------------------------------------------------------------
(* Clients.                                                                *)

SetEN(value) ==
    /\ pc = "idle"
    /\ EN' = value
    /\ UNCHANGED <<working, steps, internalRole, error, control, history>>

\* Refused unless the chart is in INIT.  An end step stays one unless it becomes
\* the init step.
SetInitStepName(s) ==
    /\ pc = "idle" /\ MayRename
    /\ IF workingState = "INIT"
       THEN /\ internalRole' = [t \in Steps |->
                    IF t = s THEN "start"
                    ELSE IF internalRole[t] = "end" THEN "end" ELSE "normal"]
            /\ on' = [t \in Steps |-> t = s]
            /\ UNCHANGED error
       ELSE error' = TRUE /\ UNCHANGED <<internalRole, on>>
    /\ UNCHANGED <<command, working, active, X, phase, qualifier, exitmode, control,
                   history>>

SetEndStepName(s) ==
    /\ pc = "idle" /\ MayRename
    /\ internalRole' = [internalRole EXCEPT ![s] = "end"]
    /\ UNCHANGED <<command, working, steps, error, control, history>>

---------------------------------------------------------------------------
(* The typemethod of the chart: the working states.                        *)

\* The active step is found and switched off, until a working state switches it
\* on again.
BeginCycle ==
    /\ pc = "idle"
    /\ pc' = "machine"
    /\ error' = FALSE
    /\ pActiveStep' = IF active = <<>> THEN NoStep ELSE Head(active)
    /\ on' = [s \in Steps |-> on[s] /\ s # pActiveStep']
    /\ UNCHANGED <<command, working, active, X, phase, qualifier, exitmode,
                   internalRole, step, caller, history>>

In(state, ph) == pc = "machine" /\ workingState = state /\ woStPhase = ph

InitSteps == {s \in Steps : internalRole[s] = "start"}

\* resetSsc resets all steps and makes the init step the active one; it fails when
\* the chart has none.
resetStep_QualifierKept ==
    /\ on' = [s \in Steps |-> FALSE]
    /\ X' = [s \in Steps |-> FALSE]
    /\ phase' = [s \in Steps |-> "entrydo"]
    /\ exitmode' = [s \in Steps |-> "off"]
    /\ entered' = {} /\ UNCHANGED <<qualifier, noexit>>

resetStep ==
    /\ on' = [s \in Steps |-> FALSE]
    /\ X' = [s \in Steps |-> FALSE]
    /\ phase' = [s \in Steps |-> "entrydo"]
    /\ qualifier' = [s \in Steps |-> "entry"]
    /\ exitmode' = [s \in Steps |-> "off"]
    /\ entered' = {} /\ UNCHANGED noexit

resetSsc ==
    /\ resetStep
    /\ InitSteps # {}
    /\ active' = <<CHOOSE s \in InitSteps : TRUE>>

resetSscFails ==
    /\ resetStep
    /\ InitSteps = {}
    /\ active' = <<>>

\* The do part of INIT and STOP: when the reset fails, the typemethod returns.
ResetAndStay ==
    /\ woStQualifier' = "do"
    /\ \/ /\ resetSsc
          /\ woStPhase' = "exittrans" /\ pc' = "steps" /\ UNCHANGED error
       \/ /\ resetSscFails
          /\ UNCHANGED woStPhase /\ pc' = "idle" /\ error' = TRUE
    /\ UNCHANGED <<command, workingState, internalRole, pActiveStep, step, caller>>

\* The transition part: the command decides on the next working state, whose entry
\* part follows in the same cycle.
GoTo(state) ==
    /\ workingState' = state
    /\ woStQualifier' = IF state = workingState THEN woStQualifier ELSE "entry"
    /\ woStPhase' = "entrydo"
    /\ UNCHANGED <<command, steps, internalRole, error, control, history>>

InitEntryDo == In("INIT", "entrydo") /\ ResetAndStay

InitExitTrans ==
    /\ In("INIT", "exittrans")
    /\ GoTo(IF EN = "start" THEN "START" ELSE "INIT")

StartEntryDo ==
    /\ In("START", "entrydo")
    /\ woStQualifier' = "do" /\ woStPhase' = "exittrans"
    /\ on' = [s \in Steps |-> on[s] \/ s = pActiveStep]
    /\ pc' = "steps"
    /\ UNCHANGED <<command, workingState, active, X, phase, qualifier, exitmode,
                   internalRole, error, pActiveStep, step, caller, history>>

StartExitTrans_NoReset ==
    /\ In("START", "exittrans")
    /\ GoTo(CASE EN = "break" -> "BREAK"
              [] EN = "stop" -> "STOP"
              [] OTHER -> "START")

StartExitTrans ==
    /\ In("START", "exittrans")
    /\ GoTo(CASE EN = "break" -> "BREAK"
              [] EN = "stop" -> "STOP"
              [] EN = "reset" -> "TERMINATE"
              [] OTHER -> "START")

BreakEntryDo_FlagKept ==
    /\ In("BREAK", "entrydo")
    /\ woStQualifier' = "do" /\ woStPhase' = "exittrans"
    /\ on' = [s \in Steps |-> on[s] /\ s # pActiveStep]
    /\ phase' = [s \in Steps |-> IF s = pActiveStep THEN "entrydo" ELSE phase[s]]
    /\ pc' = "steps"
    /\ UNCHANGED <<command, workingState, active, X, qualifier, exitmode, internalRole,
                   error, pActiveStep, step, caller, history>>

BreakEntryDo ==
    /\ In("BREAK", "entrydo")
    /\ woStQualifier' = "do" /\ woStPhase' = "exittrans"
    /\ on' = [s \in Steps |-> on[s] /\ s # pActiveStep]
    /\ phase' = [s \in Steps |-> IF s = pActiveStep THEN "entrydo" ELSE phase[s]]
    /\ X' = [s \in Steps |-> X[s] /\ s # pActiveStep]
    /\ pc' = "steps"
    /\ UNCHANGED <<command, workingState, active, qualifier, exitmode, internalRole,
                   error, pActiveStep, step, caller, history>>

BreakExitTrans ==
    /\ In("BREAK", "exittrans")
    /\ GoTo(CASE EN = "stop" -> "STOP"
              [] EN = "start" -> "START"
              [] EN = "reset" -> "TERMINATE"
              [] OTHER -> "BREAK")

\* The typemethod of the active step is called directly, whatever its mode is, for
\* its exit actions.
StopEntry ==
    /\ In("STOP", "entrydo") /\ woStQualifier = "entry"
    /\ IF pActiveStep = NoStep
       THEN pc' = "stopped" /\ error' = TRUE /\ UNCHANGED <<step, caller>>
       ELSE pc' = "step" /\ step' = pActiveStep /\ caller' = "stop" /\ UNCHANGED error
    /\ UNCHANGED <<command, working, steps, internalRole, pActiveStep, history>>

StopDo ==
    /\ pc = "stopped" \/ (In("STOP", "entrydo") /\ woStQualifier = "do")
    /\ ResetAndStay

StopExitTrans ==
    /\ In("STOP", "exittrans")
    /\ GoTo(CASE EN = "start" -> "START"
              [] EN = "reset" -> "TERMINATE"
              [] OTHER -> "STOP")

Terminated ==
    /\ pc = "machine" /\ workingState = "TERMINATE"
    /\ \/ /\ EN = "reset" /\ resetSsc
          /\ woStPhase' = "exittrans" /\ workingState' = "INIT" /\ EN' = "stop"
          /\ pc' = "steps" /\ UNCHANGED error
       \/ /\ EN = "reset" /\ resetSscFails
          /\ pc' = "idle" /\ error' = TRUE
          /\ UNCHANGED <<command, workingState, woStPhase>>
       \/ /\ EN # "reset"
          /\ pc' = "steps"
          /\ UNCHANGED <<command, workingState, woStPhase, steps, error, history>>
    /\ UNCHANGED <<woStQualifier, internalRole, pActiveStep, step, caller>>

---------------------------------------------------------------------------
(* The execution of the active step.                                       *)

ActiveIsOn == IF active = <<>> THEN FALSE ELSE on[Head(active)]

\* The list has one step at most, and one that is linked during the walk is not
\* visited: the next child is remembered first.
ExecuteActive ==
    /\ pc = "steps" /\ ActiveIsOn
    /\ pc' = "step" /\ step' = Head(active) /\ caller' = "walk"
    /\ UNCHANGED <<command, working, steps, internalRole, error, pActiveStep, history>>

EndCycle ==
    /\ pc = "steps" /\ ~ActiveIsOn
    /\ pc' = "idle"
    /\ UNCHANGED <<command, working, steps, internalRole, error, pActiveStep, step,
                   caller, history>>

StepReturns ==
    /\ pc' = IF caller = "stop" THEN "stopped" ELSE "idle"
    /\ step' = NoStep /\ caller' = "none"
    /\ UNCHANGED pActiveStep

\* Entry actions, if the step is new, then do actions; an end step terminates the
\* chart.
StepEntryDo ==
    /\ pc = "step" /\ phase[step] = "entrydo"
    /\ X' = [X EXCEPT ![step] = TRUE]
    /\ qualifier' = [qualifier EXCEPT ![step] = "do"]
    /\ entered' = IF qualifier[step] = "entry" THEN entered \cup {step} ELSE entered
    /\ workingState' = IF internalRole[step] = "end" THEN "TERMINATE" ELSE workingState
    /\ phase' = [phase EXCEPT ![step] = "exittrans"]
    /\ StepReturns
    /\ UNCHANGED <<command, woStPhase, woStQualifier, active, on, exitmode,
                   internalRole, error, noexit>>

\* No transition has a result: the do actions are next.
StepStays ==
    /\ pc = "step" /\ phase[step] = "exittrans" /\ workingState # "STOP"
    /\ phase' = [phase EXCEPT ![step] = "entrydo"]
    /\ UNCHANGED <<command, working, active, on, X, qualifier, exitmode, internalRole,
                   error, control, history>>

\* The task exit is executed unless it is off; ONCE switches it off.
Leave(s, state) ==
    LET mode == IF state = "STOP" THEN "once" ELSE exitmode[s]
    IN  /\ noexit' = IF mode = "off" THEN noexit \cup {s} ELSE noexit
        /\ entered' = entered \ {s}
        /\ exitmode' = [exitmode EXCEPT ![s] = IF mode = "once" THEN "off" ELSE mode]
        /\ X' = [X EXCEPT ![s] = FALSE]

\* The chart stops and no transition has a result.
StepStops ==
    /\ pc = "step" /\ phase[step] = "exittrans" /\ workingState = "STOP"
    /\ Leave(step, workingState)
    /\ active' = RemoveFirst(active, step)
    /\ phase' = [phase EXCEPT ![step] = "entrydo"]
    /\ qualifier' = [qualifier EXCEPT ![step] = "entry"]
    /\ StepReturns
    /\ UNCHANGED <<command, working, on, internalRole, error>>

\* The first transition with a result: the next step is linked, and executed in
\* the same cycle behind the exit actions.  A step that is already linked cannot be
\* linked again, and the chart gives up, but still executes it.
Linked(s) == s \in ToSet(active)

StepFires_NotUnlinked(t) ==
    /\ pc = "step" /\ phase[step] = "exittrans"
    /\ t[1] = step /\ t[2] \in Steps
    /\ workingState' = IF Linked(t[2]) THEN "STOP" ELSE workingState
    /\ Leave(step, workingState')
    /\ active' = IF Linked(t[2]) THEN active ELSE Append(active, t[2])
    /\ on' = [on EXCEPT ![t[2]] = TRUE]
    /\ phase' = [phase EXCEPT ![step] = "entrydo", ![t[2]] = "entrydo"]
    /\ qualifier' = [qualifier EXCEPT ![step] = "entry", ![t[2]] = "entry"]
    /\ step' = t[2]
    /\ UNCHANGED <<command, woStPhase, woStQualifier, internalRole, error, pc,
                   pActiveStep, caller>>

StepFires(t) ==
    /\ pc = "step" /\ phase[step] = "exittrans"
    /\ t[1] = step /\ t[2] \in Steps
    /\ workingState' = IF Linked(t[2]) THEN "STOP" ELSE workingState
    /\ Leave(step, workingState')
    /\ active' = RemoveFirst(IF Linked(t[2]) THEN active ELSE Append(active, t[2]), step)
    /\ on' = [on EXCEPT ![t[2]] = TRUE]
    /\ phase' = [phase EXCEPT ![step] = "entrydo", ![t[2]] = "entrydo"]
    /\ qualifier' = [qualifier EXCEPT ![step] = "entry", ![t[2]] = "entry"]
    /\ step' = t[2]
    /\ UNCHANGED <<command, woStPhase, woStQualifier, internalRole, error, pc,
                   pActiveStep, caller>>

\* The transition has no next step: the chart gives up.
StepGivesUp(t) ==
    /\ pc = "step" /\ phase[step] = "exittrans"
    /\ t[1] = step /\ t[2] = NoStep
    /\ workingState' = "STOP"
    /\ Leave(step, workingState')
    /\ active' = RemoveFirst(active, step)
    /\ phase' = [phase EXCEPT ![step] = "entrydo"]
    /\ qualifier' = [qualifier EXCEPT ![step] = "entry"]
    /\ StepReturns
    /\ UNCHANGED <<command, woStPhase, woStQualifier, on, internalRole, error>>

---------------------------------------------------------------------------
ClientStep ==
    \/ \E value \in Commands : SetEN(value)
    \/ \E s \in Steps : SetInitStepName(s) \/ SetEndStepName(s)

ChartStep ==
    \/ BeginCycle
    \/ InitEntryDo \/ InitExitTrans \/ StartEntryDo \/ StartExitTrans
    \/ BreakEntryDo \/ BreakExitTrans
    \/ StopEntry \/ StopDo \/ StopExitTrans \/ Terminated
    \/ ExecuteActive \/ EndCycle
    \/ StepEntryDo \/ StepStays \/ StepStops
    \/ \E t \in Transitions : StepFires(t) \/ StepGivesUp(t)

Next == ClientStep \/ ChartStep

Spec == Init /\ [][Next]_vars

\* The chart is executed again and again.
FairSpec == Spec /\ WF_vars(ChartStep)

---------------------------------------------------------------------------
\* The variables of the chart and of its steps have their values.
TypeOK ==
    /\ EN \in AllCommands
    /\ workingState \in {"INIT", "START", "BREAK", "STOP", "TERMINATE"}
    /\ woStPhase \in {"entrydo", "exittrans"} /\ woStQualifier \in {"entry", "do"}
    /\ active \in Seq(Steps)
    /\ internalRole \in [Steps -> {"start", "normal", "end"}]
    /\ on \in [Steps -> BOOLEAN] /\ X \in [Steps -> BOOLEAN]
    /\ phase \in [Steps -> {"entrydo", "exittrans"}]
    /\ qualifier \in [Steps -> {"entry", "do"}]
    /\ exitmode \in [Steps -> {"on", "off", "once"}]
    /\ error \in BOOLEAN
    /\ pc \in {"idle", "machine", "stopped", "steps", "step"}
    /\ {pActiveStep, step} \subseteq Steps \cup {NoStep}
    /\ caller \in {"none", "stop", "walk"}
    /\ entered \subseteq Steps /\ noexit \subseteq Steps

\* "only the active step is linked here" (ssc.ovm:75): whatever the transitions,
\* the working states and the resets have linked and unlinked, there is one active
\* step at most.
OneActiveStep == Len(active) <= 1

\* "step flag according to IEC61131-3" (ssc.ovm:91): between two cycles, the active
\* step of a running chart has its flag set, and no step has it set that is not the
\* active one or whose chart is initialized, stopped or at a break.
FlagOfActiveStep ==
    pc = "idle" =>
        \A s \in Steps :
            /\ workingState = "START" /\ active = <<s>> => X[s]
            /\ X[s] => active = <<s>> /\ workingState \in {"START", "TERMINATE"}

\* A step executes its entry actions once each time it becomes active: neither a
\* break nor a restart repeats them, and no reset or renewed activation skips them.
EntryOncePerActivation ==
    pc = "step" /\ phase[step] = "entrydo" =>
        (qualifier[step] = "entry" <=> step \notin entered)

\* "stop=0/start=1/break=2/reset=3" (ssc.ovm:61): a running chart obeys a command
\* that stands, unless it terminates first or has lost its init step.
CommandsAreObeyed ==
    /\ workingState = "START" /\ EN = "stop"
        ~> workingState \in {"STOP", "TERMINATE"} \/ EN # "stop"
    /\ workingState = "START" /\ EN = "break"
        ~> workingState \in {"BREAK", "STOP", "TERMINATE"} \/ EN # "break"
    /\ EN = "reset" ~> workingState = "INIT" \/ EN # "reset" \/ InitSteps = {}

\* "this is set to FB_AM_ONCE and executed on leaving the step" (step.c:255): a step
\* is not left without its exit actions.
ExitActionsExecuted == noexit = {}
===========================================================================
