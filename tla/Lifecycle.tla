------------------------------ MODULE Lifecycle ------------------------------
(***************************************************************************)
(* The lifecycle of one FMI 3.0 Co-Simulation instance: class              *)
(* cppfmu::Lifecycle (cppfmu_lifecycle_fmi3.hpp and .cpp).                 *)
(*                                                                         *)
(* The class is a value with methods that replace it, so it is modelled as *)
(* a record and operators from a record to a record; the module declares   *)
(* no state of its own.  Fmi3Wrapper keeps one such record per instance.   *)
(***************************************************************************)

States == {"Instantiated", "Initialization", "Step", "Event", "Terminated",
           "Failed", "IntermediateUpdate"}

Calls == {"EnterInitialization", "ExitInitialization", "EnterEventMode",
          "EnterStepMode", "Terminate", "Reset", "ReadVariable",
          "WriteVariable", "SnapshotMemory", "FmuStateRead",
          "FmuStateRestore", "DerivativeQuery", "OutputDerivatives",
          "EvaluateDiscreteStates", "UpdateDiscreteStates", "DoStep"}

Running  == {"Initialization", "Step", "Event"}
Writable == {"Instantiated"} \cup Running
Readable == Writable \cup {"Terminated"}

(* The legalStates column of kRules.                                       *)
LegalStates(call) ==
  CASE call = "EnterInitialization"    -> {"Instantiated"}
    [] call = "ExitInitialization"     -> {"Initialization"}
    [] call = "EnterEventMode"         -> {"Step"}
    [] call = "EnterStepMode"          -> {"Event"}
    [] call = "Terminate"              -> Running
    [] call = "Reset"                  -> Readable \cup {"Failed"}
    [] call = "ReadVariable"           -> Readable \cup {"IntermediateUpdate"}
    [] call = "WriteVariable"          -> Writable \cup {"IntermediateUpdate"}
    [] call = "SnapshotMemory"         -> Readable \cup {"Failed"}
    [] call = "FmuStateRead"           -> Readable
    [] call = "FmuStateRestore"        -> Readable \cup {"Failed"}
    [] call = "DerivativeQuery"        -> Running \cup {"Terminated"}
    [] call = "OutputDerivatives"      -> {"Step", "IntermediateUpdate"}
    [] call = "EvaluateDiscreteStates" -> {"Initialization", "Event"}
    [] call = "UpdateDiscreteStates"   -> {"Event"}
    [] call = "DoStep"                 -> {"Step"}

(* The transition column of kRules: where a success leads from s.          *)
Transition(call, s) ==
  CASE call = "EnterInitialization" -> "Initialization"
    [] call = "ExitInitialization"  -> "Step"
    [] call = "EnterEventMode"      -> "Event"
    [] call = "EnterStepMode"       -> "Step"
    [] call = "Terminate"           -> "Terminated"
    [] call = "Reset"               -> "Instantiated"
    [] OTHER                        -> s            \* kNoTransition

LifecycleType ==
  [state : States, eventModeUsed : BOOLEAN,
   setRequested : BOOLEAN, getAllowed : BOOLEAN, setStarted : BOOLEAN]

NewLifecycle(eventModeUsed) ==
  [state |-> "Instantiated", eventModeUsed |-> eventModeUsed,
   setRequested |-> FALSE, getAllowed |-> FALSE, setStarted |-> FALSE]

(* Mutant: reading is not closed by the first write of an update.          *)
AllowsGetAfterSet(lc, call) ==
  /\ lc.state \in LegalStates(call)
  /\ lc.state = "IntermediateUpdate" =>
       IF call = "WriteVariable" THEN lc.setRequested ELSE lc.getAllowed

Allows(lc, call) ==
  /\ lc.state \in LegalStates(call)
  /\ lc.state = "IntermediateUpdate" =>
       IF call = "WriteVariable"
         THEN lc.setRequested
         ELSE lc.getAllowed /\ ~lc.setStarted

(* Mutant: the table's target is taken whether or not Event Mode is used.  *)
OnSuccessByTable(lc, call) ==
  IF lc.state = "IntermediateUpdate"
    THEN [lc EXCEPT !.setStarted = @ \/ call = "WriteVariable"]
    ELSE [lc EXCEPT !.state = Transition(call, @)]

OnSuccess(lc, call) ==
  IF lc.state = "IntermediateUpdate"
    THEN [lc EXCEPT !.setStarted = @ \/ call = "WriteVariable"]
    ELSE [lc EXCEPT !.state =
            IF call = "ExitInitialization" /\ lc.eventModeUsed
              THEN "Event"
              ELSE Transition(call, @)]

Fail(lc) == [lc EXCEPT !.state = "Failed"]

IsSnapshotMode(mode) == mode \in LegalStates("FmuStateRead")

(* Mutant: the restored mode is forgotten, the instance keeps its own.     *)
RestoreSlaveOnly(lc, saved) == lc

RestoreFromSnapshot(lc, saved) ==
  [lc EXCEPT !.state = IF IsSnapshotMode(saved) THEN saved ELSE @]

(* Mutant: the flags are set but the mode stays Step.                      *)
EnterWithoutMode(lc, variableSetRequested, variableGetAllowed) ==
  [lc EXCEPT !.setRequested = variableSetRequested,
             !.getAllowed = variableGetAllowed, !.setStarted = FALSE]

EnterIntermediateUpdate(lc, variableSetRequested, variableGetAllowed) ==
  IF lc.state # "Step"
    THEN lc
    ELSE [lc EXCEPT !.state = "IntermediateUpdate",
                    !.setRequested = variableSetRequested,
                    !.getAllowed = variableGetAllowed,
                    !.setStarted = FALSE]

(* Mutants: Step from any state, also Failed; and no way back at all.      *)
LeaveToStep(lc) == [lc EXCEPT !.state = "Step"]
LeaveNever(lc) == lc

LeaveIntermediateUpdate(lc) ==
  [lc EXCEPT !.state = IF @ = "IntermediateUpdate" THEN "Step" ELSE @]

(***************************************************************************)
(* How a call that reached the slave ends: it returns, or it throws.       *)
(* "logic" is a std::logic_error, "error" any other exception but          *)
(* cppfmu::DiscardError ("discard") and cppfmu::FatalError ("fatal").      *)
(* Completed is the tail of RunLegalCall: OnSuccess, Fail or neither.      *)
(***************************************************************************)
Outcomes == {"ok", "discard", "logic", "error", "fatal"}
Failures == {"error", "fatal"}

Completed(lc, call, outcome) ==
  CASE outcome = "ok"       -> OnSuccess(lc, call)
    [] outcome \in Failures -> Fail(lc)
    [] OTHER                -> lc
=============================================================================
