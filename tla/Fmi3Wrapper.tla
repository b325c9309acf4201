----------------------------- MODULE Fmi3Wrapper -----------------------------
(***************************************************************************)
(* The FMI 3.0 Co-Simulation wrapper: the C entry points of                *)
(* fmi3_functions.cpp around one slave per instance, and the importer and  *)
(* the slaves that use it.                                                 *)
(*                                                                         *)
(* Three parties take steps.  The importer calls entry points, between     *)
(* calls of fmi3DoStep or from inside its intermediate-update callback.    *)
(* The slave, when a call reaches it, returns or throws; while it runs     *)
(* DoStep it may open intermediate updates.  The wrapper stands between:   *)
(* it is what this module takes from the code, and it decides which call   *)
(* reaches the slave, what each result does to the instance's mode, and    *)
(* who owns which FMU state.                                               *)
(*                                                                         *)
(* A call that runs no callback is one atomic step.  fmi3DoStep is not: it *)
(* is a BeginDoStep, the updates the slave opens, and an EndDoStep, and a  *)
(* call stack of running DoStep calls is kept for each instance, because   *)
(* the importer has control again in the middle of it.                     *)
(***************************************************************************)
EXTENDS SlaveInstance3, Integers, Sequences

CONSTANTS
  Instances,       \* what an fmi3Instance can point to
  Handles,         \* the importer's fmi3FMUState variables
  Cells,           \* the heap cells an FmuState can be allocated in
  MaxTime,         \* bound: times are 0..MaxTime, of which only the order counts
  NaN,             \* the not-a-number time
  Null,            \* a null pointer; "nothing"
  EventModes,      \* values of eventModeUsed the importer instantiates with
  Callbacks,       \* TRUE \in Callbacks: it may pass an intermediateUpdate callback
  MaxDepth,        \* bound on DoStep calls nested through the callback
  ImporterCallsOn  \* does a callback go on calling an instance that it saw fail?

VARIABLES
  alive,        \* the instances between fmi3InstantiateCoSimulation and fmi3FreeInstance
  lc,           \* Component::lifecycle
  hasCallback,  \* Component::intermediateUpdate is not null
  scope,        \* Component::inDoStep, stepStart, stepEnd, lastFinishedUpdate
  stack,        \* the running DoStep calls of an instance, innermost last
  slave,        \* the mode the slave itself is in, by the calls it received
  stepStatus,   \* what fmi3DoStep returned, until the next call on the instance
  heap,         \* the FmuState in each cell, or Null
  handle,       \* the cell each handle points to, or Null
  buffer        \* the importer's buffer for a serialized FMU state, or Null

vars == <<alive, lc, hasCallback, scope, stack, slave, stepStatus,
          heap, handle, buffer>>

snapshotVars == <<heap, handle, buffer>>

Times == 0..MaxTime

(* IEEE comparisons: false as soon as one side is not a number.            *)
Leq(s, t)  == s # NaN /\ t # NaN /\ s <= t
Less(s, t) == s # NaN /\ t # NaN /\ s < t

(***************************************************************************)
(* The slave's mode.  "Broken" is a slave that threw something other than  *)
(* a refusal, "Misused" one that got a call it should never have seen.  A  *)
(* call that fails because the FmuState around the slave's part cannot be  *)
(* allocated is counted as if the slave had thrown.                        *)
(***************************************************************************)
Phases == Readable \cup {"Broken", "Misused", "Gone"}

Snapshot == [owner : Instances, mode : Readable, slave : Phases]

Buffer == [code : 1..5, slave : Phases]

(* The arguments of the IntermediateUpdate call whose callback is running, *)
(* and whether a set succeeded in it.                                      *)
Update == [time : Times \cup {NaN}, set : BOOLEAN, get : BOOLEAN,
           stepFinished : BOOLEAN, canReturnEarly : BOOLEAN, wrote : BOOLEAN]

(* One running DoStep.  start and end are its own arguments; finished is   *)
(* the time of its last update with stepFinished; update is Null while the *)
(* slave's code runs; pending is the exception IntermediateUpdate threw    *)
(* into that code; early the return time the importer asked for; hurt      *)
(* records that a call made inside it failed the instance.                 *)
Frame == [start : Times \cup {NaN}, end : Times \cup {NaN},
          finished : Times \cup {NaN}, update : Update \cup {Null},
          pending : {"none", "logic", "error"}, early : Times \cup {Null},
          hurt : BOOLEAN]

Scope == [inDoStep : BOOLEAN, start : Times \cup {NaN},
          end : Times \cup {NaN}, lastFinished : Times \cup {NaN}]

NewScope == [inDoStep |-> FALSE, start |-> 0, end |-> 0, lastFinished |-> 0]

Statuses == {"None", "OK", "Discard", "Error", "Fatal"}

ASSUME ConstantsAssumption ==
  /\ MaxTime \in Nat /\ MaxDepth \in Nat \ {0}
  /\ EventModes \subseteq BOOLEAN /\ Callbacks \subseteq BOOLEAN
  /\ ImporterCallsOn \in BOOLEAN
  /\ NaN \notin Times \cup {Null}
  /\ Null \notin Times \cup Cells \cup Snapshot \cup Buffer \cup Update

(***************************************************************************)
(* The encoding of a mode in the header of a serialized FMU state.         *)
(***************************************************************************)
(* Mutant of ModeCode: the enumerator's own value.                         *)
ModeOrdinal(mode) ==
  CASE mode = "Instantiated"   -> 0
    [] mode = "Initialization" -> 1
    [] mode = "Step"           -> 2
    [] mode = "Event"          -> 3
    [] mode = "Terminated"     -> 4

ModeCode(mode) ==
  CASE mode = "Instantiated"   -> 1
    [] mode = "Initialization" -> 2
    [] mode = "Step"           -> 3
    [] mode = "Event"          -> 4
    [] mode = "Terminated"     -> 5

ModeFromCode(code) ==
  CASE code = 1 -> "Instantiated"
    [] code = 2 -> "Initialization"
    [] code = 3 -> "Step"
    [] code = 4 -> "Event"
    [] code = 5 -> "Terminated"

(***************************************************************************)
(* The slave.  It may count on being called only as FMI 3.0 allows, and    *)
(* inside DoStep only for the access the running update was opened for.    *)
(***************************************************************************)
SlaveExpects(phase) ==
  LET inAnyMode == {"Reset", "SnapshotMemory", "FmuStateRestore"}
      inAMode   == inAnyMode \cup {"ReadVariable", "FmuStateRead"}
  IN CASE phase = "Instantiated" ->
            inAMode \cup {"WriteVariable", "EnterInitialization"}
       [] phase = "Initialization" ->
            inAMode \cup {"WriteVariable", "ExitInitialization", "Terminate",
                          "DerivativeQuery", "EvaluateDiscreteStates"}
       [] phase = "Step" ->
            inAMode \cup {"WriteVariable", "DoStep", "EnterEventMode",
                          "Terminate", "DerivativeQuery", "OutputDerivatives"}
       [] phase = "Event" ->
            inAMode \cup {"WriteVariable", "EnterStepMode", "Terminate",
                          "DerivativeQuery", "EvaluateDiscreteStates",
                          "UpdateDiscreteStates"}
       [] phase = "Terminated" -> inAMode \cup {"DerivativeQuery"}
       [] phase = "Broken"     -> inAnyMode
       [] OTHER                -> {}

Top(i) == stack[i][Len(stack[i])]

SlaveAccepts(i, call) ==
  IF stack[i] = <<>>
    THEN call \in SlaveExpects(slave[i])
    ELSE /\ slave[i] = "Step"
         /\ \/ /\ call = "WriteVariable"
               /\ Top(i).update.set
            \/ /\ call \in {"ReadVariable", "OutputDerivatives"}
               /\ Top(i).update.get
               /\ ~Top(i).update.wrote

SlaveMoves(i, call) ==
  CASE call = "EnterInitialization" -> "Initialization"
    [] call = "ExitInitialization"  ->
         IF lc[i].eventModeUsed THEN "Event" ELSE "Step"
    [] call = "EnterEventMode"      -> "Event"
    [] call = "EnterStepMode"       -> "Step"
    [] call = "Terminate"           -> "Terminated"
    [] call = "Reset"               -> "Instantiated"
    [] OTHER                        -> slave[i]

SlaveAfter(i, call, outcome, next) ==
  IF slave[i] = "Misused" \/ ~SlaveAccepts(i, call)
    THEN "Misused"
    ELSE CASE outcome = "ok"       -> next
           [] outcome \in Failures -> "Broken"
           [] OTHER                -> slave[i]

Init ==
  /\ alive = {}
  /\ lc = [i \in Instances |-> NewLifecycle(FALSE)]
  /\ hasCallback = [i \in Instances |-> FALSE]
  /\ scope = [i \in Instances |-> NewScope]
  /\ stack = [i \in Instances |-> <<>>]
  /\ slave = [i \in Instances |-> "Gone"]
  /\ stepStatus = [i \in Instances |-> "None"]
  /\ heap = [c \in Cells |-> Null]
  /\ handle = [h \in Handles |-> Null]
  /\ buffer = Null

-----------------------------------------------------------------------------
(* The importer calls, between steps or from a callback.                   *)

MayCall(i) ==
  /\ i \in alive
  /\ stack[i] # <<>> =>
       /\ Top(i).update # Null
       /\ ImporterCallsOn \/ lc[i].state # "Failed"

Served(i, call) == MayCall(i) /\ Allows(lc[i], call)

(* A call from a callback leaves its marks on the DoStep it is made in.    *)
MarkedUpdate(u, wrote) == [u EXCEPT !.wrote = @ \/ wrote]

MarkedFrame(f, call, outcome) ==
  [f EXCEPT !.hurt = @ \/ outcome \in Failures,
            !.update = MarkedUpdate(f.update,
                         call = "WriteVariable" /\ outcome = "ok")]

Marked(s, call, outcome) ==
  IF s = <<>> THEN s
              ELSE [s EXCEPT ![Len(s)] = MarkedFrame(@, call, outcome)]

(* RunLegalCall: the slave is called, and the instance's mode follows from *)
(* how that ended.  next is the mode a success leaves the slave in.        *)
RunLegalCall(i, call, outcome, next) ==
  /\ Served(i, call)
  /\ lc' = [lc EXCEPT ![i] = Completed(@, call, outcome)]
  /\ slave' = [slave EXCEPT ![i] = SlaveAfter(i, call, outcome, next)]
  /\ stack' = [stack EXCEPT ![i] = Marked(@, call, outcome)]
  /\ stepStatus' = [stepStatus EXCEPT ![i] = "None"]
  /\ UNCHANGED <<alive, hasCallback, scope>>

Dispatch(i, call) ==
  /\ \E outcome \in Results(call) : RunLegalCall(i, call, outcome, SlaveMoves(i, call))
  /\ UNCHANGED snapshotVars

(* A success of fmi3InstantiateCoSimulation; a failed one leaves nothing   *)
(* behind.                                                                 *)
InstantiateCoSimulation(i, eventModeUsed, callback) ==
  /\ i \notin alive
  /\ alive' = alive \cup {i}
  /\ lc' = [lc EXCEPT ![i] = NewLifecycle(eventModeUsed)]
  /\ hasCallback' = [hasCallback EXCEPT ![i] = callback]
  /\ scope' = [scope EXCEPT ![i] = NewScope]
  /\ slave' = [slave EXCEPT ![i] = "Instantiated"]
  /\ UNCHANGED <<stack, stepStatus, heap, handle, buffer>>

(* The importer does not free an instance from its own callback, and frees *)
(* the instance's FMU states first.                                        *)
FreeInstance(i) ==
  /\ i \in alive
  /\ stack[i] = <<>>
  /\ \A c \in Cells : heap[c] # Null => heap[c].owner # i
  /\ alive' = alive \ {i}
  /\ lc' = [lc EXCEPT ![i] = NewLifecycle(FALSE)]
  /\ hasCallback' = [hasCallback EXCEPT ![i] = FALSE]
  /\ scope' = [scope EXCEPT ![i] = NewScope]
  /\ slave' = [slave EXCEPT ![i] = "Gone"]
  /\ stepStatus' = [stepStatus EXCEPT ![i] = "None"]
  /\ UNCHANGED <<stack, heap, handle, buffer>>

(* A call the mode does not allow, one this FMU does not provide (such as  *)
(* fmi3EnterConfigurationMode) and a DoStep over a step size that is zero, *)
(* negative or not a number: fmi3Error, and nothing has changed.           *)
RefuseCall(i) ==
  /\ MayCall(i)
  /\ {call \in Calls : ~Allows(lc[i], call) \/ call = "DoStep"} # {}
  /\ stepStatus' = [stepStatus EXCEPT ![i] = "None"]
  /\ UNCHANGED <<alive, lc, hasCallback, scope, stack, slave, heap, handle, buffer>>

ChangeMode(i) ==
  \E call \in {"EnterInitialization", "ExitInitialization", "EnterEventMode",
               "Terminate", "Reset"} : Dispatch(i, call)

EnterStepMode(i)          == Dispatch(i, "EnterStepMode")
GetVariable(i)            == Dispatch(i, "ReadVariable")
SetVariable(i)            == Dispatch(i, "WriteVariable")
QueryDerivative(i)        == Dispatch(i, "DerivativeQuery")
GetOutputDerivatives(i)   == Dispatch(i, "OutputDerivatives")
EvaluateDiscreteStates(i) == Dispatch(i, "EvaluateDiscreteStates")
UpdateDiscreteStates(i)   == Dispatch(i, "UpdateDiscreteStates")

-----------------------------------------------------------------------------
(* FMU states.  A handle is passed back to the instance it came from.      *)

Owns(i, h) == handle[h] # Null /\ heap[handle[h]].owner = i

TakenNow(i) == [owner |-> i, mode |-> lc[i].state, slave |-> slave[i]]

(* Into a null handle: a new FmuState, released to the importer once the   *)
(* slave has filled it and deleted if the slave throws.                    *)
GetFMUState(i, h, c) ==
  /\ handle[h] = Null
  /\ heap[c] = Null
  /\ \E outcome \in Results("FmuStateRead") :
       /\ RunLegalCall(i, "FmuStateRead", outcome, slave[i])
       /\ heap' = IF outcome = "ok" THEN [heap EXCEPT ![c] = TakenNow(i)] ELSE heap
       /\ handle' = IF outcome = "ok" THEN [handle EXCEPT ![h] = c] ELSE handle
  /\ UNCHANGED buffer

(* Mutant of Overwritten: the mode is recorded first.                      *)
OverwrittenModeFirst(i, old, outcome) ==
  IF outcome = "ok" THEN TakenNow(i) ELSE [old EXCEPT !.mode = lc[i].state]

(* What a call that overwrites an FmuState leaves in it: the mode is       *)
(* recorded after the slave has replaced its own part.                     *)
Overwritten(i, old, outcome) == IF outcome = "ok" THEN TakenNow(i) ELSE old

OverwriteFMUState(i, h) ==
  /\ Owns(i, h)
  /\ \E outcome \in Results("FmuStateRead") :
       /\ RunLegalCall(i, "FmuStateRead", outcome, slave[i])
       /\ heap' = [heap EXCEPT ![handle[h]] = Overwritten(i, @, outcome)]
  /\ UNCHANGED <<handle, buffer>>

(* Mutant of Restored: the mode is restored whatever the call returned.    *)
RestoredAnyway(l, saved, outcome) ==
  RestoreFromSnapshot(Completed(l, "FmuStateRestore", outcome), saved)

(* fmi3SetFMUState restores the mode after RunLegalCall has returned OK.   *)
Restored(l, saved, outcome) ==
  IF outcome = "ok"
    THEN RestoreFromSnapshot(Completed(l, "FmuStateRestore", outcome), saved)
    ELSE Completed(l, "FmuStateRestore", outcome)

SetFMUState(i, h) ==
  /\ Owns(i, h)
  /\ Served(i, "FmuStateRestore")
  /\ LET state == heap[handle[h]] IN
     \E outcome \in Results("FmuStateRestore") :
       /\ lc' = [lc EXCEPT ![i] = Restored(@, state.mode, outcome)]
       /\ slave' = [slave EXCEPT ![i] =
                      SlaveAfter(i, "FmuStateRestore", outcome, state.slave)]
       /\ stack' = [stack EXCEPT ![i] = Marked(@, "FmuStateRestore", outcome)]
  /\ stepStatus' = [stepStatus EXCEPT ![i] = "None"]
  /\ UNCHANGED <<alive, hasCallback, scope, heap, handle, buffer>>

(* Mutant of HandleAfterFree: the handle is cleared although the call      *)
(* failed.                                                                 *)
HandleCleared(cell, outcome) == Null

(* The importer's handle after fmi3FreeFMUState: null only once the state  *)
(* is freed.                                                               *)
HandleAfterFree(cell, outcome) == IF outcome = "ok" THEN Null ELSE cell

FreeFMUState(i, h) ==
  /\ Owns(i, h)
  /\ \E outcome \in Results("SnapshotMemory") :
       /\ RunLegalCall(i, "SnapshotMemory", outcome, slave[i])
       /\ heap' = IF outcome = "ok" THEN [heap EXCEPT ![handle[h]] = Null] ELSE heap
       /\ handle' = [handle EXCEPT ![h] = HandleAfterFree(@, outcome)]
  /\ UNCHANGED buffer

SerializedFMUStateSize(i, h) ==
  /\ Owns(i, h)
  /\ Dispatch(i, "SnapshotMemory")

(* The header is written before the slave is asked for its bytes, so after *)
(* any other outcome the buffer holds no FMU state, and the importer,      *)
(* told so by the status, does not read it.                                *)
SerializeFMUState(i, h) ==
  /\ Owns(i, h)
  /\ \E outcome \in Results("SnapshotMemory") :
       /\ RunLegalCall(i, "SnapshotMemory", outcome, slave[i])
       /\ buffer' = IF outcome = "ok"
                      THEN [code |-> ModeCode(heap[handle[h]].mode),
                            slave |-> heap[handle[h]].slave]
                      ELSE Null
  /\ UNCHANGED <<heap, handle>>

(* The importer hands in a null handle; the call would overwrite another   *)
(* without freeing what it points to.                                      *)
DeserializeFMUState(i, h, c) ==
  /\ handle[h] = Null
  /\ heap[c] = Null
  /\ buffer # Null
  /\ \E outcome \in Results("SnapshotMemory") :
       /\ RunLegalCall(i, "SnapshotMemory", outcome, slave[i])
       /\ heap' = IF outcome = "ok"
                    THEN [heap EXCEPT ![c] =
                            [owner |-> i, mode |-> ModeFromCode(buffer.code),
                             slave |-> buffer.slave]]
                    ELSE heap
       /\ handle' = IF outcome = "ok" THEN [handle EXCEPT ![h] = c] ELSE handle
  /\ UNCHANGED buffer

(* A buffer too short for the header, and bytes that are not an FMU state  *)
(* of this format version in a known mode: a std::logic_error of the       *)
(* wrapper's own, before the slave is called.                              *)
RejectBytes(i) ==
  /\ Served(i, "SnapshotMemory")
  /\ lc' = [lc EXCEPT ![i] = Completed(@, "SnapshotMemory", "logic")]
  /\ stepStatus' = [stepStatus EXCEPT ![i] = "None"]
  /\ UNCHANGED <<alive, hasCallback, scope, stack, slave, heap, handle, buffer>>

-----------------------------------------------------------------------------
(* fmi3DoStep and the intermediate updates inside it.                      *)

(* Where a positive step from t can end.  In floating point t + h may      *)
(* round to t itself, and is NaN if t is.                                  *)
StepEnds(t) == IF t = NaN THEN {NaN} ELSE t..MaxTime

(* DoStepScope's constructor.                                              *)
NewStep(t, end) == [inDoStep |-> TRUE, start |-> t, end |-> end, lastFinished |-> t]

BeginDoStep(i, t, end) ==
  /\ Served(i, "DoStep")
  /\ Len(stack[i]) < MaxDepth
  /\ scope' = [scope EXCEPT ![i] = NewStep(t, end)]
  /\ stack' = [stack EXCEPT ![i] =
                 Append(@, [start |-> t, end |-> end, finished |-> t,
                            update |-> Null, pending |-> "none",
                            early |-> Null, hurt |-> FALSE])]
  /\ slave' = [slave EXCEPT ![i] = SlaveAfter(i, "DoStep", "ok", @)]
  /\ stepStatus' = [stepStatus EXCEPT ![i] = "None"]
  /\ UNCHANGED <<alive, lc, hasCallback, heap, handle, buffer>>

SlaveRuns(i) == stack[i] # <<>> /\ Top(i).update = Null

(* Mutants of UpdateRejected: an update may precede the last finished one; *)
(* the comparisons are turned round, so that NaN passes them.              *)
UpdateRejectedOutsideStep(i, time) ==
  \/ ~hasCallback[i]
  \/ ~scope[i].inDoStep
  \/ ~(Leq(scope[i].start, time) /\ Leq(time, scope[i].end))

UpdateRejectedByOrder(i, time) ==
  \/ ~hasCallback[i]
  \/ ~scope[i].inDoStep
  \/ Less(time, scope[i].start) \/ Less(scope[i].end, time)
  \/ Less(time, scope[i].lastFinished)

(* The slave's calls of IntermediateUpdate that throw std::logic_error:    *)
(* without a callback, outside DoStep, at a time outside the step or       *)
(* before the last finished update.                                        *)
UpdateRejected(i, time) ==
  \/ ~hasCallback[i]
  \/ ~scope[i].inDoStep
  \/ ~(Leq(scope[i].start, time) /\ Leq(time, scope[i].end))
  \/ Less(time, scope[i].lastFinished)

(* A rejected call leaves the exception with the slave's code.             *)
RejectUpdate(i) ==
  /\ SlaveRuns(i)
  /\ Top(i).pending = "none"
  /\ {time \in Times \cup {NaN} : UpdateRejected(i, time)} # {}
  /\ stack' = [stack EXCEPT ![i][Len(stack[i])].pending = "logic"]
  /\ UNCHANGED <<alive, lc, hasCallback, scope, slave, stepStatus,
                 heap, handle, buffer>>

OpenUpdate(i, u) ==
  /\ SlaveRuns(i)
  /\ Top(i).pending = "none"
  /\ ~UpdateRejected(i, u.time)
  /\ lc' = [lc EXCEPT ![i] = EnterIntermediateUpdate(@, u.set, u.get)]
  /\ stack' = [stack EXCEPT ![i][Len(stack[i])].update = u]
  /\ UNCHANGED <<alive, hasCallback, scope, slave, stepStatus,
                 heap, handle, buffer>>

(* The rest of Component::IntermediateUpdate once the callback is back:    *)
(* leave the mode, throw if the instance failed, record a finished update, *)
(* throw on an early return outside the step.  request is the time of the  *)
(* early return the callback asked for, or Null.                           *)
FailedInUpdate(i) == LeaveIntermediateUpdate(lc[i]).state = "Failed"

EarlyReturnRejected(i, request) ==
  ~(Leq(scope[i].start, request) /\ Leq(request, scope[i].end))

AfterUpdate(i, request) ==
  LET f == Top(i)
      asked    == f.update.canReturnEarly /\ request # Null
      rejected == asked /\ EarlyReturnRejected(i, request)
  IN [f EXCEPT
        !.update  = Null,
        !.pending = IF FailedInUpdate(i) \/ rejected THEN "error" ELSE "none",
        !.finished = IF ~FailedInUpdate(i) /\ f.update.stepFinished
                       THEN f.update.time ELSE @,
        !.early   = IF asked /\ ~rejected /\ ~FailedInUpdate(i)
                      THEN request ELSE Null]

CallbackReturns(i, request) ==
  /\ stack[i] # <<>>
  /\ Top(i).update # Null
  /\ lc' = [lc EXCEPT ![i] = LeaveIntermediateUpdate(@)]
  /\ stack' = [stack EXCEPT ![i][Len(stack[i])] = AfterUpdate(i, request)]
  /\ scope' = [scope EXCEPT ![i].lastFinished =
                 IF ~FailedInUpdate(i) /\ Top(i).update.stepFinished
                   THEN Top(i).update.time ELSE @]
  /\ UNCHANGED <<alive, hasCallback, slave, stepStatus, heap, handle, buffer>>

(* The slave's DoStep may catch what IntermediateUpdate threw and go on.   *)
CatchException(i) ==
  /\ SlaveRuns(i)
  /\ Top(i).pending # "none"
  /\ stack' = [stack EXCEPT ![i][Len(stack[i])].pending = "none"]
  /\ UNCHANGED <<alive, lc, hasCallback, scope, slave, stepStatus,
                 heap, handle, buffer>>

(* How DoStep ends: "completed" and "stopped" are its true and false; a    *)
(* std::logic_error fails the instance here, unlike in RunLegalCall.       *)
StepOutcomes == {"completed", "stopped"} \cup (Outcomes \ {"ok"})
StepFailures == Failures \cup {"logic"}

StepStatus(outcome) ==
  CASE outcome = "completed"            -> "OK"
    [] outcome \in {"stopped", "discard"} -> "Discard"
    [] outcome = "fatal"                -> "Fatal"
    [] outcome \in {"logic", "error"}   -> "Error"

(* Mutant of AfterStep: std::logic_error is a refusal, as in RunLegalCall. *)
AfterStepAsCall(l, outcome) == Completed(l, "DoStep", outcome)

AfterStep(l, outcome) == IF outcome \in StepFailures THEN Fail(l) ELSE l

Returned(s, outcome) ==
  Marked(SubSeq(s, 1, Len(s) - 1), "DoStep",
         IF outcome \in StepFailures THEN "error" ELSE "ok")

EndDoStep(i, outcome) ==
  /\ SlaveRuns(i)
  /\ Top(i).pending \in {"none", outcome}
  /\ lc' = [lc EXCEPT ![i] = AfterStep(@, outcome)]
  /\ scope' = [scope EXCEPT ![i].inDoStep = FALSE]
  /\ stack' = [stack EXCEPT ![i] = Returned(@, outcome)]
  /\ slave' = [slave EXCEPT ![i] =
                 IF outcome \in StepFailures /\ @ # "Misused" THEN "Broken" ELSE @]
  /\ stepStatus' = [stepStatus EXCEPT ![i] = StepStatus(outcome)]
  /\ UNCHANGED <<alive, hasCallback, heap, handle, buffer>>

-----------------------------------------------------------------------------
NewUpdates == {u \in Update : ~u.wrote}

Manage(i) ==
  \/ \E eventModeUsed \in EventModes, callback \in Callbacks :
       InstantiateCoSimulation(i, eventModeUsed, callback)
  \/ FreeInstance(i)

Call(i) ==
  \/ RefuseCall(i)
  \/ ChangeMode(i)
  \/ EnterStepMode(i)
  \/ GetVariable(i)
  \/ SetVariable(i)
  \/ QueryDerivative(i)
  \/ GetOutputDerivatives(i)
  \/ EvaluateDiscreteStates(i)
  \/ UpdateDiscreteStates(i)

FMUStateCall(i) ==
  \/ \E h \in Handles, c \in Cells : GetFMUState(i, h, c)
  \/ \E h \in Handles : OverwriteFMUState(i, h)
  \/ \E h \in Handles : SetFMUState(i, h)
  \/ \E h \in Handles : FreeFMUState(i, h)
  \/ \E h \in Handles : SerializedFMUStateSize(i, h)
  \/ \E h \in Handles : SerializeFMUState(i, h)
  \/ \E h \in Handles, c \in Cells : DeserializeFMUState(i, h, c)
  \/ RejectBytes(i)

Stepping(i) ==
  \/ \E t \in Times \cup {NaN} : \E end \in StepEnds(t) : BeginDoStep(i, t, end)
  \/ RejectUpdate(i)
  \/ \E u \in NewUpdates : OpenUpdate(i, u)
  \/ \E request \in Times \cup {NaN, Null} : CallbackReturns(i, request)
  \/ CatchException(i)
  \/ \E outcome \in StepOutcomes : EndDoStep(i, outcome)

Next == \E i \in Instances : Manage(i) \/ Call(i) \/ FMUStateCall(i) \/ Stepping(i)

(* All that is assumed of the other two parties is that the importer's     *)
(* callback returns in the end.                                            *)
Fairness == \A i \in Instances :
  WF_vars(\E request \in Times \cup {NaN, Null} : CallbackReturns(i, request))

Spec == Init /\ [][Next]_vars

FairSpec == Spec /\ Fairness

-----------------------------------------------------------------------------
(* Type invariant: each piece of the wrapper's, the slaves' and the        *)
(* importer's state holds a value of its type.                             *)
TypeOK ==
  /\ alive \subseteq Instances
  /\ lc \in [Instances -> LifecycleType]
  /\ hasCallback \in [Instances -> BOOLEAN]
  /\ scope \in [Instances -> Scope]
  /\ stack \in [Instances -> Seq(Frame)]
  /\ slave \in [Instances -> Phases]
  /\ stepStatus \in [Instances -> Statuses]
  /\ heap \in [Cells -> Snapshot \cup {Null}]
  /\ handle \in [Handles -> Cells \cup {Null}]
  /\ buffer \in Buffer \cup {Null}

(***************************************************************************)
(* Safety, for an importer that leaves an instance alone from the moment a *)
(* call in its callback failed it until fmi3DoStep returns.                *)
(***************************************************************************)

(* No slave ever receives a call that FMI 3.0 does not allow in the mode   *)
(* that the calls it has received put it in: not after a restore, a reset, *)
(* a failure, nor from within an intermediate update (README.md, "FMI 3.0  *)
(* lifecycle enforcement": slave code need not check the mode itself).     *)
SlaveNeverMisused == \A i \in Instances : slave[i] # "Misused"

(* Between calls the wrapper's record of the mode is the slave's own, and  *)
(* the instance is Failed exactly when its slave has thrown since the last *)
(* reset or restore.                                                       *)
ModeAgreesWithSlave ==
  \A i \in alive :
    stack[i] = <<>> =>
      slave[i] = IF lc[i].state = "Failed" THEN "Broken" ELSE lc[i].state

(* At most one DoStep of an instance runs at a time, the flag that permits *)
(* intermediate updates is up exactly while it does, and the instance is   *)
(* in Intermediate Update Mode only while the importer's callback runs.    *)
OneStepAtATime ==
  \A i \in Instances :
    /\ Len(stack[i]) <= 1
    /\ scope[i].inDoStep <=> stack[i] # <<>>
    /\ lc[i].state = "IntermediateUpdate" =>
         stack[i] # <<>> /\ Top(i).update # Null

(* Every update a slave opens lies in the step that DoStep was called for, *)
(* not before that step's last finished update, and an early return it is  *)
(* told of lies in the step too, whatever times the importer and the slave *)
(* choose (DoStepScope, Component::IntermediateUpdate).                    *)
UpdatesStayInTheirStep ==
  \A i \in Instances : \A k \in 1..Len(stack[i]) :
    LET f == stack[i][k] IN
    /\ f.update # Null =>
         /\ Leq(f.start, f.update.time)
         /\ Leq(f.finished, f.update.time)
         /\ Leq(f.update.time, f.end)
    /\ f.early # Null => Leq(f.start, f.early) /\ Leq(f.early, f.end)

(* Every FMU state, in memory or serialized, records the mode its slave's  *)
(* part was taken in, through overwrites, failures half way and the        *)
(* encoding of the mode: restoring it puts both in the same mode.          *)
SnapshotsCoherent ==
  /\ \A c \in Cells : heap[c] # Null =>
       heap[c].mode = heap[c].slave /\ IsSnapshotMode(heap[c].mode)
  /\ buffer # Null =>
       ModeFromCode(buffer.code) = buffer.slave /\ IsSnapshotMode(buffer.slave)

(* FMU states neither leak nor dangle: every allocated FmuState is held by *)
(* exactly one handle and every handle that is not null points to an       *)
(* allocated one, whichever calls fail (fmi3GetFMUState, fmi3FreeFMUState, *)
(* fmi3DeserializeFMUState), and its instance still exists.                *)
HandlesOwnStates ==
  /\ \A h \in Handles : handle[h] # Null =>
       heap[handle[h]] # Null /\ heap[handle[h]].owner \in alive
  /\ \A c \in Cells : heap[c] # Null => \E h \in Handles : handle[h] = c
  /\ \A g, h \in Handles : g # h /\ handle[g] # Null => handle[g] # handle[h]

(***************************************************************************)
(* Action properties.                                                      *)
(***************************************************************************)

(* A call that failed the instance during an update makes                  *)
(* IntermediateUpdate throw into the slave's DoStep (README.md:52-53).     *)
FailureReachesSlave ==
  [][\A i \in Instances :
       stack[i] # <<>> /\ Top(i).hurt /\ Top(i).update # Null
         /\ Len(stack'[i]) = Len(stack[i]) /\ Top(i)'.update = Null
       => Top(i)'.pending = "error"]_vars

(* After a slave has thrown, no further call reaches it except the         *)
(* destructor (README.md:359-361).                                         *)
NothingAfterException ==
  [][\A i \in Instances :
       slave[i] = "Broken" => slave'[i] \in {"Broken", "Gone"}]_vars

(* When fmi3DoStep returns, its status tells the importer the truth about  *)
(* the instance: OK or Discard leaves it in Step Mode (unless the slave    *)
(* swallowed the exception of a failed update, which leaves it Failed),    *)
(* and Error or Fatal leaves it Failed.                                    *)
StatusMatchesMode ==
  [][\A i \in Instances :
       Len(stack'[i]) < Len(stack[i]) =>
         lc'[i].state =
           IF stepStatus'[i] \in {"OK", "Discard"} /\ ~Top(i).hurt
             THEN "Step" ELSE "Failed"]_vars

(***************************************************************************)
(* Refinement and liveness.                                                *)
(***************************************************************************)
Modes == INSTANCE CoSimModes WITH
  mode  <- [i \in Instances |-> IF i \in alive THEN lc[i].state ELSE "None"],
  saved <- {heap[c].mode : c \in {d \in Cells : heap[d] # Null}}
             \cup (IF buffer = Null THEN {} ELSE {ModeFromCode(buffer.code)})

(* The wrapper implements the FMI 3.0 state graph: whatever calls are made *)
(* and however they fail, each instance follows it, and a restore leads    *)
(* only to a mode that was really recorded.                                *)
FollowsStateGraph == Modes!Spec

(* Intermediate Update Mode always ends, in Step Mode or Failed, because   *)
(* the importer's callback returns.                                        *)
UpdateEnds ==
  \A i \in Instances :
    lc[i].state = "IntermediateUpdate" ~> lc[i].state \in {"Step", "Failed"}
=============================================================================
