---------------------------- MODULE SlaveInstance3 ----------------------------
(***************************************************************************)
(* The slave of FMI 3.0 as the C interface sees it: how a call on a        *)
(* cppfmu::SlaveInstance3 (cppfmu_cs_fmi3.hpp and .cpp) may end.           *)
(*                                                                         *)
(* A model overrides some of the virtual methods; those may do anything.   *)
(* The others are the base class's own.  Methods are told apart as far as  *)
(* the lifecycle tells apart the calls that are made on them.  DoStep is   *)
(* always the model's, and Fmi3Wrapper has it.                             *)
(***************************************************************************)
EXTENDS Lifecycle

CONSTANT Overrides  \* the calls of which the model overrides some method

ASSUME OverridesAssumption == Overrides \subseteq Calls

ModeMethods == {"EnterInitialization", "ExitInitialization", "Terminate",
                "Reset", "EnterEventMode", "EvaluateDiscreteStates",
                "UpdateDiscreteStates", "EnterStepMode"}

SetMethods == {"WriteVariable"}

(* With the questions about dependencies, indicators and states, which     *)
(* throw or answer 0.                                                      *)
GetMethods == {"ReadVariable"}

OptionalMethods == {"FmuStateRead", "FmuStateRestore", "SnapshotMemory",
                    "DerivativeQuery", "OutputDerivatives"}

DoesNothing == {"ok"}

(* Only a call on no variables at all is answered.                         *)
RefusesToSet == {"ok", "logic"}
RefusesToGet == {"ok", "logic"}

(* Mutant of IsUnsupported: a std::runtime_error, as for other errors.     *)
IsRuntimeError == {"error"}

IsUnsupported == {"logic"}

DefaultResults(call) ==
  CASE call \in ModeMethods     -> DoesNothing
    [] call \in SetMethods      -> RefusesToSet
    [] call \in GetMethods      -> RefusesToGet
    [] call \in OptionalMethods -> IsUnsupported

Results(call) == IF call \in Overrides THEN Outcomes ELSE DefaultResults(call)
=============================================================================
