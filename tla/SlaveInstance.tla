---------------------------- MODULE SlaveInstance ----------------------------
(***************************************************************************)
(* The slave of FMI 1.0 and 2.0 as the C interface sees it: class          *)
(* cppfmu::SlaveInstance (cppfmu_cs.hpp and .cpp), whose methods a model   *)
(* may override, and RunCall (fmi_functions.cpp), which turns the way a    *)
(* call on it ends into the status that the importer is given.             *)
(*                                                                         *)
(* Which methods a model overrides is the constant Overrides.  A method it *)
(* overrides may end in any way; the base class's own versions may not.    *)
(* The module has no state.                                                *)
(***************************************************************************)
EXTENDS Integers

CONSTANT Overrides

ModeMethods == {"SetupExperiment", "EnterInitializationMode",
                "ExitInitializationMode", "Terminate", "Reset"}

VariableMethods == {"GetVariable", "SetVariable"}

FMUStateMethods == {"GetFMUState", "SetFMUState", "FreeFMUState",
                    "SerializedFMUStateSize", "SerializeFMUState",
                    "DeserializeFMUState"}

DerivativeMethods == {"GetDirectionalDerivative", "SetRealInputDerivatives",
                      "GetRealOutputDerivatives"}

Methods == ModeMethods \cup VariableMethods \cup FMUStateMethods
             \cup DerivativeMethods \cup {"TerminateRequested"}

ASSUME OverridesAssumption == Overrides \subseteq Methods

(* How a call on the slave ends: it returns, or it throws.  "logic" is a   *)
(* std::logic_error, "error" any other exception but cppfmu::DiscardError  *)
(* ("discard") and cppfmu::FatalError ("fatal").                           *)
Outcomes == {"ok", "discard", "logic", "error", "fatal"}

(* DoStep returns true ("completed") or false ("stopped").                 *)
StepOutcomes == {"completed", "stopped"} \cup (Outcomes \ {"ok"})

(* The base class: a change of mode and TerminateRequested do nothing,     *)
(* access to variables throws unless it is to none of them, and what is    *)
(* optional in FMI throws.                                                 *)
DefaultResults(method) ==
  CASE method \in ModeMethods \cup {"TerminateRequested"} -> {"ok"}
    [] method \in VariableMethods                         -> {"ok", "logic"}
    [] OTHER                                              -> {"logic"}

Results(method) ==
  IF method \in Overrides THEN Outcomes ELSE DefaultResults(method)

Statuses == {"OK", "Discard", "Error", "Fatal"}

(* RunCall: only some functions may return a discard.                      *)
Status(outcome, discardAllowed) ==
  CASE outcome = "ok"                         -> "OK"
    [] outcome = "fatal"                      -> "Fatal"
    [] outcome = "discard" /\ discardAllowed  -> "Discard"
    [] OTHER                                  -> "Error"

(* The two DoStep functions allow it, and report a stopped step so too.    *)
StepStatus(outcome) ==
  CASE outcome = "completed" -> "OK"
    [] outcome = "stopped"   -> "Discard"
    [] OTHER                 -> Status(outcome, TRUE)

(* Mutants of TimeAfterStep: not set before the call; the step size added  *)
(* once more.                                                              *)
TimeAfterReturn(last, t, end, stop, outcome) ==
  CASE outcome = "completed" -> end
    [] outcome = "stopped"   -> stop
    [] OTHER                 -> last

TimeBeyondStep(last, t, end, stop, outcome) ==
  CASE outcome = "completed" -> end + (end - t)
    [] outcome = "stopped"   -> stop
    [] OTHER                 -> t

(* Component::lastSuccessfulTime after a DoStep from t to end that the     *)
(* slave stopped at stop: set to t before the call, and to where the slave *)
(* got to once it has returned.                                            *)
TimeAfterStep(last, t, end, stop, outcome) ==
  CASE outcome = "completed" -> end
    [] outcome = "stopped"   -> stop
    [] OTHER                 -> t
=============================================================================
