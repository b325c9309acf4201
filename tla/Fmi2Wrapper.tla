----------------------------- MODULE Fmi2Wrapper -----------------------------
(***************************************************************************)
(* The FMI 2.0 C interface of fmi_functions.cpp around one slave.          *)
(*                                                                         *)
(* The wrapper keeps a mode for the instance and refuses the calls that    *)
(* the mode does not allow.  Unlike an FMI 3.0 instance it does not know   *)
(* the mode a restored FMU state was taken in: it then allows every call   *)
(* until one succeeds that leads to a known mode.  Errors are not latched. *)
(*                                                                         *)
(* Every call is one step, as no importer code runs inside it.  The        *)
(* importer may call anything in any order, legal or not.                  *)
(***************************************************************************)
EXTENDS SlaveInstance, Integers

CONSTANTS
  Handles,   \* the importer's fmi2FMUstate variables
  Cells,     \* where the slave keeps the FMU states it has handed out
  MaxTime,   \* bound: times are 0..MaxTime
  NaN,       \* the not-a-number time
  Null       \* a null pointer

VARIABLES
  alive,     \* between fmi2Instantiate and fmi2FreeInstance
  mode,      \* Component::mode
  lastTime,  \* Component::lastSuccessfulTime
  status,    \* what the last call returned; "Exception" if it threw
  slave,     \* the slave's own view, by the calls that reached it
  heap,      \* the FMU state the slave keeps in each cell, or Null
  handle,    \* the cell each handle points to, or Null
  buffer     \* the importer's copy of a serialized FMU state, or Null

vars == <<alive, mode, lastTime, status, slave, heap, handle, buffer>>

Times == 0..MaxTime

Modes == {"Instantiated", "InitializationMode", "StepComplete",
          "Terminated", "Restored"}

Calls == {"SetupExperiment", "EnterInitializationMode",
          "ExitInitializationMode", "Terminate", "Reset", "GetVariable",
          "SetVariable", "GetFMUstate", "SetFMUstate", "OtherFMUstate",
          "DirectionalDerivative", "SetInputDerivatives",
          "GetOutputDerivatives", "DoStep", "GetStatus"}

(* Where the slave is by the calls it has received.  "Misused" is a slave  *)
(* that got a call which FMI 2.0 did not allow it to get.                  *)
Phases == (Modes \ {"Restored"}) \cup {"Misused"}

(* What an FMU state holds.                                                *)
State == [phase : Phases, time : Times \cup {NaN}]

(* stepped: its time comes from a DoStep, not from a start or a restore.   *)
(* reached: where its last DoStep left it, whatever was done to it since.  *)
Slave == [phase : Phases, time : Times \cup {NaN}, stepped : BOOLEAN,
          reached : Times \cup {NaN}]

NewSlave == [phase |-> "Instantiated", time |-> NaN, stepped |-> FALSE,
             reached |-> NaN]

SlaveAfterReset == [NewSlave EXCEPT !.reached = slave.reached]

ASSUME ConstantsAssumption ==
  /\ MaxTime \in Nat
  /\ NaN \notin Times
  /\ Null \notin Cells \cup State

(* The modes in which the guard of each call lets it through.              *)
AllowedIn(call) ==
  CASE call \in {"SetupExperiment", "EnterInitializationMode"} -> {"Instantiated"}
    [] call = "ExitInitializationMode" -> {"InitializationMode"}
    [] call \in {"Terminate", "DoStep"} -> {"StepComplete"}
    [] call \in {"GetVariable", "DirectionalDerivative"} ->
         {"InitializationMode", "StepComplete", "Terminated"}
    [] call \in {"SetVariable", "SetInputDerivatives"} ->
         {"Instantiated", "InitializationMode", "StepComplete"}
    [] call \in {"GetOutputDerivatives", "GetStatus"} ->
         {"StepComplete", "Terminated"}
    [] call \in {"Reset", "GetFMUstate", "SetFMUstate", "OtherFMUstate"} -> Modes

(* Mutants of Allows: Restored is a mode like the others; outputs can be   *)
(* read before they are initialised.                                       *)
AllowsKnownModes(m, call) == m \in AllowedIn(call)
AllowsEarlyReads(m, call) ==
  m = "Restored" \/ m \in AllowedIn(call) \/ call = "GetVariable"

Allows(m, call) == m = "Restored" \/ m \in AllowedIn(call)

(* The calls whose success leads to another mode, and to which.            *)
Moving == {"EnterInitializationMode", "ExitInitializationMode", "DoStep",
           "Terminate", "Reset", "SetFMUstate"}

Target(call) ==
  CASE call = "EnterInitializationMode"              -> "InitializationMode"
    [] call \in {"ExitInitializationMode", "DoStep"} -> "StepComplete"
    [] call = "Terminate"                            -> "Terminated"
    [] call = "Reset"                                -> "Instantiated"
    [] call = "SetFMUstate"                          -> "Restored"

(* Mutant of After: a restore leaves the mode as it was.                   *)
AfterKeepsRestored(m, call) ==
  IF call \in Moving \ {"SetFMUstate"} THEN Target(call) ELSE m

After(m, call) == IF call \in Moving THEN Target(call) ELSE m

(* What FMI 2.0 allows in each phase (the table of 4.2.4).                 *)
SlaveExpects(phase) ==
  LET anyTime == {"Reset", "GetFMUstate", "SetFMUstate", "OtherFMUstate"}
      reading == {"GetVariable", "DirectionalDerivative"}
      writing == {"SetVariable", "SetInputDerivatives"}
      results == {"GetOutputDerivatives", "GetStatus"}
  IN CASE phase = "Instantiated" ->
            anyTime \cup writing
              \cup {"SetupExperiment", "EnterInitializationMode"}
       [] phase = "InitializationMode" ->
            anyTime \cup reading \cup writing \cup {"ExitInitializationMode"}
       [] phase = "StepComplete" ->
            anyTime \cup reading \cup writing \cup results
              \cup {"DoStep", "Terminate"}
       [] phase = "Terminated" -> anyTime \cup reading \cup results
       [] phase = "Misused"    -> anyTime

SlaveMoves(phase, call) ==
  CASE call = "EnterInitializationMode" -> "InitializationMode"
    [] call = "ExitInitializationMode"  -> "StepComplete"
    [] call = "Terminate"               -> "Terminated"
    [] OTHER                            -> phase

(* The slave once a call has ended.  next is what a success makes of it.   *)
SlaveAfter(call, outcome, next) ==
  LET s == IF outcome = "ok" THEN next ELSE slave
  IN [s EXCEPT !.phase = IF call \in SlaveExpects(slave.phase) THEN @ ELSE "Misused"]

Init ==
  /\ alive = FALSE
  /\ mode = "Instantiated"
  /\ lastTime = NaN
  /\ status = "OK"
  /\ slave = NewSlave
  /\ heap = [c \in Cells |-> Null]
  /\ handle = [h \in Handles |-> Null]
  /\ buffer = Null

-----------------------------------------------------------------------------
(* A success of fmi2Instantiate.  Construction models the failures.        *)
Instantiate ==
  /\ ~alive
  /\ alive' = TRUE
  /\ mode' = "Instantiated"
  /\ lastTime' = NaN
  /\ slave' = NewSlave
  /\ status' = "OK"
  /\ UNCHANGED <<heap, handle, buffer>>

(* The importer frees the FMU states first.  A buffer outlives the slave.  *)
FreeInstance ==
  /\ alive
  /\ \A c \in Cells : heap[c] = Null
  /\ alive' = FALSE
  /\ UNCHANGED <<mode, lastTime, status, slave, heap, handle, buffer>>

(* RefuseIllegalCall, a DoStep over a step that is not positive, and what  *)
(* this FMU does not provide, such as fmi2CancelStep and fmi2GetStatus.    *)
RefuseCall ==
  /\ alive
  /\ status' = "Error"
  /\ UNCHANGED <<alive, mode, lastTime, slave, heap, handle, buffer>>

(* RunCall for FMI 2.0: the mode moves only if the slave returned.         *)
RunCall(call, outcome, next) ==
  /\ alive
  /\ Allows(mode, call)
  /\ status' = Status(outcome, call = "SetVariable")
  /\ mode' = IF status' = "OK" THEN After(mode, call) ELSE mode
  /\ slave' = SlaveAfter(call, outcome, next)
  /\ UNCHANGED <<alive, lastTime>>

Dispatch(call, method) ==
  /\ \E outcome \in Results(method) :
       RunCall(call, outcome, [slave EXCEPT !.phase = SlaveMoves(@, call)])
  /\ UNCHANGED <<heap, handle, buffer>>

SetupExperiment(start) ==
  /\ \E outcome \in Results("SetupExperiment") :
       RunCall("SetupExperiment", outcome,
               [slave EXCEPT !.time = start, !.stepped = FALSE])
  /\ UNCHANGED <<heap, handle, buffer>>

EnterInitializationMode ==
  Dispatch("EnterInitializationMode", "EnterInitializationMode")

ExitInitializationMode ==
  Dispatch("ExitInitializationMode", "ExitInitializationMode")

Terminate == Dispatch("Terminate", "Terminate")

Reset ==
  /\ \E outcome \in Results("Reset") : RunCall("Reset", outcome, SlaveAfterReset)
  /\ UNCHANGED <<heap, handle, buffer>>

GetVariable == Dispatch("GetVariable", "GetVariable")
SetVariable == Dispatch("SetVariable", "SetVariable")

QueryDerivative ==
  \/ Dispatch("DirectionalDerivative", "GetDirectionalDerivative")
  \/ Dispatch("SetInputDerivatives", "SetRealInputDerivatives")
  \/ Dispatch("GetOutputDerivatives", "GetRealOutputDerivatives")

-----------------------------------------------------------------------------
(* FMU states.  The slave allocates them; the wrapper passes its pointers  *)
(* through, and must keep the importer's handle in step with the slave.    *)

SlaveState == [phase |-> slave.phase, time |-> slave.time]

(* The slave allocates for a null handle and overwrites what another       *)
(* points to; if it throws, both are as they were.                         *)
GetFMUstate(h, c) ==
  /\ IF handle[h] = Null THEN heap[c] = Null ELSE handle[h] = c
  /\ \E outcome \in Results("GetFMUState") :
       /\ RunCall("GetFMUstate", outcome, slave)
       /\ heap' = IF outcome = "ok" THEN [heap EXCEPT ![c] = SlaveState] ELSE heap
       /\ handle' = IF outcome = "ok" THEN [handle EXCEPT ![h] = c] ELSE handle
  /\ UNCHANGED buffer

SetFMUstate(h) ==
  /\ handle[h] # Null
  /\ \E outcome \in Results("SetFMUState") :
       RunCall("SetFMUstate", outcome,
               [slave EXCEPT !.phase = heap[handle[h]].phase,
                             !.time = heap[handle[h]].time,
                             !.stepped = FALSE])
  /\ UNCHANGED <<heap, handle, buffer>>

(* Mutant of HandleAfterFree: cleared although the slave threw.            *)
HandleCleared(h, outcome) == [handle EXCEPT ![h] = Null]

HandleAfterFree(h, outcome) ==
  IF outcome = "ok" THEN [handle EXCEPT ![h] = Null] ELSE handle

FreeFMUstate(h) ==
  /\ handle[h] # Null
  /\ \E outcome \in Results("FreeFMUState") :
       /\ RunCall("OtherFMUstate", outcome, slave)
       /\ heap' = IF outcome = "ok" THEN [heap EXCEPT ![handle[h]] = Null] ELSE heap
       /\ handle' = HandleAfterFree(h, outcome)
  /\ UNCHANGED buffer

SerializedFMUstateSize(h) ==
  /\ handle[h] # Null
  /\ Dispatch("OtherFMUstate", "SerializedFMUStateSize")

(* The importer does not keep a buffer whose serialization failed.         *)
SerializeFMUstate(h) ==
  /\ handle[h] # Null
  /\ \E outcome \in Results("SerializeFMUState") :
       /\ RunCall("OtherFMUstate", outcome, slave)
       /\ buffer' = IF outcome = "ok" THEN heap[handle[h]] ELSE Null
  /\ UNCHANGED <<heap, handle>>

(* The handle is assigned when the slave has returned its new state.       *)
DeSerializeFMUstate(h, c) ==
  /\ buffer # Null /\ handle[h] = Null /\ heap[c] = Null
  /\ \E outcome \in Results("DeserializeFMUState") :
       /\ RunCall("OtherFMUstate", outcome, slave)
       /\ heap' = IF outcome = "ok" THEN [heap EXCEPT ![c] = buffer] ELSE heap
       /\ handle' = IF outcome = "ok" THEN [handle EXCEPT ![h] = c] ELSE handle
  /\ UNCHANGED buffer

-----------------------------------------------------------------------------
(* The time a slave has reached when its DoStep from t to end is over; one *)
(* that throws has not left t.                                             *)
WhereLeft(t, end, stop, outcome) ==
  CASE outcome = "completed" -> end
    [] outcome = "stopped"   -> stop
    [] OTHER                 -> t

(* fmi2DoStep has its own way of moving the mode: a discard, too, leaves   *)
(* the instance in StepComplete.  The importer steps from the time the     *)
(* slave has reached, as FMI asks.                                         *)
DoStep(t, end) ==
  /\ alive
  /\ Allows(mode, "DoStep")
  /\ slave.time \in {t, NaN}
  /\ t < end
  /\ \E outcome \in StepOutcomes, stop \in t..end :
       /\ lastTime' = TimeAfterStep(lastTime, t, end, stop, outcome)
       /\ status' = StepStatus(outcome)
       /\ slave' = [SlaveAfter("DoStep", outcome, slave) EXCEPT
                      !.time = WhereLeft(t, end, stop, outcome),
                      !.stepped = TRUE,
                      !.reached = WhereLeft(t, end, stop, outcome)]
  /\ mode' = IF status' \in {"OK", "Discard"} THEN After(mode, "DoStep") ELSE mode
  /\ UNCHANGED <<alive, heap, handle, buffer>>

(* Answered from lastSuccessfulTime; the slave is not asked.               *)
GetRealStatus ==
  /\ alive
  /\ Allows(mode, "GetStatus")
  /\ status' = "OK"
  /\ UNCHANGED <<alive, mode, lastTime, slave, heap, handle, buffer>>

(* The slave is asked outside RunCall: nothing catches what it throws.     *)
GetBooleanStatus ==
  /\ alive
  /\ Allows(mode, "GetStatus")
  /\ \E outcome \in Results("TerminateRequested") :
       /\ status' = IF outcome = "ok" THEN "OK" ELSE "Exception"
       /\ slave' = SlaveAfter("GetStatus", outcome, slave)
  /\ UNCHANGED <<alive, mode, lastTime, heap, handle, buffer>>

-----------------------------------------------------------------------------
Manage == Instantiate \/ FreeInstance

Call ==
  \/ RefuseCall
  \/ \E start \in Times : SetupExperiment(start)
  \/ EnterInitializationMode
  \/ ExitInitializationMode
  \/ Terminate
  \/ Reset
  \/ GetVariable
  \/ SetVariable
  \/ QueryDerivative

FMUStateCall ==
  \/ \E h \in Handles, c \in Cells : GetFMUstate(h, c)
  \/ \E h \in Handles : SetFMUstate(h)
  \/ \E h \in Handles : FreeFMUstate(h)
  \/ \E h \in Handles : SerializedFMUstateSize(h)
  \/ \E h \in Handles : SerializeFMUstate(h)
  \/ \E h \in Handles, c \in Cells : DeSerializeFMUstate(h, c)

Stepping ==
  \/ \E t, end \in Times : DoStep(t, end)
  \/ GetRealStatus
  \/ GetBooleanStatus

Next == Manage \/ Call \/ FMUStateCall \/ Stepping

Spec == Init /\ [][Next]_vars

-----------------------------------------------------------------------------
(* Type invariant: each variable of the wrapper, the slave and the         *)
(* importer holds a value of its type.                                     *)
TypeOK ==
  /\ alive \in BOOLEAN
  /\ mode \in Modes
  /\ lastTime \in Times \cup {NaN}
  /\ status \in Statuses \cup {"Exception"}
  /\ slave \in Slave
  /\ heap \in [Cells -> State \cup {Null}]
  /\ handle \in [Handles -> Cells \cup {Null}]
  /\ buffer \in State \cup {Null}

(* The wrapper never refuses a call that FMI 2.0 allows where the slave    *)
(* really is: not after an error, a discard, a reset, nor after a restore  *)
(* of a state taken in another mode or another instance's lifetime         *)
(* (fmi_functions.cpp:17-18: "it never refuses a legal call").             *)
NoLegalCallRefused ==
  alive /\ slave.phase # "Misused" =>
    \A call \in SlaveExpects(slave.phase) : Allows(mode, call)

(* Outside Restored the mode is exactly where the slave is: the first call *)
(* that moves a restored instance ends the uncertainty for good.           *)
ModeTracksSlave ==
  alive /\ mode # "Restored" /\ slave.phase # "Misused" => mode = slave.phase

(* A slave gets a call that FMI 2.0 does not allow only while the wrapper  *)
(* cannot know better, after a restore (fmi_functions.cpp:26-28); all      *)
(* other illegal calls are refused.                                        *)
MisusedOnlyAfterRestore ==
  [][alive /\ slave.phase # "Misused" /\ slave'.phase = "Misused"
       => "Restored" \in {mode, mode'}]_vars

(* The time that fmi2GetRealStatus answers is always where the last DoStep *)
(* of the instance left its slave, however that step ended: where it       *)
(* stopped, or where the step began if it threw (fmi2DoStep, "the slave    *)
(* did not step at all").  A reset, another start time and a restore move  *)
(* the slave but not the answer: until the next DoStep that is the time of *)
(* the run before, even in a run that has been initialised anew.  While    *)
(* none of them has come after the step, the answer is the slave's time.   *)
LastTimeIsTheLastSteps ==
  alive => /\ lastTime = slave.reached
           /\ slave.stepped => lastTime = slave.time

(* FMU states neither leak nor dangle: what the slave has handed out is    *)
(* what the importer's handles point to, whichever calls throw             *)
(* (fmi2FreeFMUstate, fmi2DeSerializeFMUstate), so the slave is never      *)
(* given a state it has freed.                                             *)
HandlesOwnStates ==
  /\ \A h \in Handles : handle[h] # Null => heap[handle[h]] # Null
  /\ \A c \in Cells : heap[c] # Null => \E h \in Handles : handle[h] = c
  /\ \A g, h \in Handles : g # h /\ handle[g] # Null => handle[g] # handle[h]

(* Whatever the slave throws, the importer gets a status: "the message     *)
(* associated with the exception will be logged [...] and the currently    *)
(* executing FMI function will return an error code" (README.md:363-366).  *)
NoExceptionEscapes == status # "Exception"
=============================================================================
