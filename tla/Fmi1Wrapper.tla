----------------------------- MODULE Fmi1Wrapper -----------------------------
(***************************************************************************)
(* The FMI 1.0 C interface of fmi_functions.cpp around one slave.          *)
(*                                                                         *)
(* The wrapper has no mode of its own: every call reaches the slave, which *)
(* is therefore called in order only if the importer goes by the statuses  *)
(* it is given.  The importer modelled here does.  It keeps the FMI 1.0    *)
(* state its calls have led to, resets or frees a slave after an error and *)
(* frees it after a fatal one, and after a step that was discarded it asks *)
(* for the time that the slave has reached before it steps again.          *)
(***************************************************************************)
EXTENDS SlaveInstance, Integers, Sequences

CONSTANTS
  MaxTime,   \* bound: times are 0..MaxTime
  NaN        \* the not-a-number time; for the importer, one it must ask for

VARIABLES
  alive,     \* between fmiInstantiateSlave and fmiFreeSlaveInstance
  lastTime,  \* Component::lastSuccessfulTime
  slave,     \* where the slave is, by the calls that reached it
  time,      \* the time the slave has reached, NaN while not initialised
  known,     \* the FMI 1.0 state the importer takes the slave to be in
  at         \* the time the importer will step it from

vars == <<alive, lastTime, slave, time, known, at>>

Times == 0..MaxTime

Known == {"Instantiated", "Initialized", "Terminated", "Error", "Fatal"}

(* To be initialised a slave gets three calls.  "Misused" is a slave that  *)
(* was called out of order.                                                *)
Phases == {"New", "SetUp", "Initializing", "Stepping", "Terminated", "Misused"}

ASSUME ConstantsAssumption == MaxTime \in Nat /\ NaN \notin Times

(* Where a slave expects each of its methods, and where a success leads.   *)
SlaveExpects(method) ==
  CASE method = "SetupExperiment"         -> {"New"}
    [] method = "EnterInitializationMode" -> {"SetUp"}
    [] method = "ExitInitializationMode"  -> {"Initializing"}
    [] method \in {"Terminate", "DoStep"} -> {"Stepping"}
    [] method = "GetRealOutputDerivatives" -> {"Stepping"}
    [] method \in {"SetVariable", "SetRealInputDerivatives"} -> {"New", "Stepping"}
    [] method = "GetVariable" -> {"Stepping", "Terminated"}
    [] method = "Reset"       -> Phases

SlaveMoves(method, phase) ==
  CASE method = "SetupExperiment"         -> "SetUp"
    [] method = "EnterInitializationMode" -> "Initializing"
    [] method = "ExitInitializationMode"  -> "Stepping"
    [] method = "Terminate"               -> "Terminated"
    [] method = "Reset"                   -> "New"
    [] OTHER                              -> phase

Received(phase, method, outcome) ==
  IF phase \notin SlaveExpects(method) THEN "Misused"
  ELSE IF outcome = "ok" THEN SlaveMoves(method, phase) ELSE phase

(* What the importer makes of the status of a call that should lead to     *)
(* next.                                                                   *)
Learnt(st, next) ==
  CASE st = "OK"      -> next
    [] st = "Discard" -> known
    [] OTHER          -> st

Init ==
  /\ alive = FALSE
  /\ lastTime = NaN
  /\ slave = "New"
  /\ time = NaN
  /\ known = "Instantiated"
  /\ at = NaN

-----------------------------------------------------------------------------
(* A success of fmiInstantiateSlave.  Construction models the failures.    *)
InstantiateSlave ==
  /\ ~alive
  /\ alive' = TRUE
  /\ lastTime' = NaN
  /\ slave' = "New"
  /\ time' = NaN
  /\ known' = "Instantiated"
  /\ at' = NaN

FreeSlaveInstance ==
  /\ alive
  /\ alive' = FALSE
  /\ UNCHANGED <<lastTime, slave, time, known, at>>

(* Mutant of InitializeCalls: without EnterInitializationMode, which FMI   *)
(* 1.0 does not have.                                                      *)
InitializeCallsOfFmi1 == <<"SetupExperiment", "ExitInitializationMode">>

(* The calls on the slave that fmiInitializeSlave makes, in this order.    *)
InitializeCalls ==
  <<"SetupExperiment", "EnterInitializationMode", "ExitInitializationMode">>

(* The slave when the first n of them have returned.                       *)
AfterCalls(n) ==
  LET after[k \in 0..n] ==
        IF k = 0 THEN slave ELSE Received(after[k - 1], InitializeCalls[k], "ok")
  IN after[n]

(* One RunCall around all of them: what throws leaves out the calls after  *)
(* it and does not undo the ones before it.                                *)
InitializeSlave(start) ==
  /\ alive
  /\ known = "Instantiated"
  /\ \E n \in 0..Len(InitializeCalls) :
       IF n = Len(InitializeCalls)
         THEN /\ slave' = AfterCalls(n)
              /\ known' = "Initialized"
              /\ time' = start
              /\ at' = start
         ELSE \E outcome \in Results(InitializeCalls[n + 1]) \ {"ok"} :
                /\ slave' = Received(AfterCalls(n), InitializeCalls[n + 1], outcome)
                /\ known' = Learnt(Status(outcome, FALSE), "Initialized")
                /\ UNCHANGED <<time, at>>
  /\ UNCHANGED <<alive, lastTime>>

(* RunCall around one call, made where the importer's state is one of from *)
(* and to is where a success leads.                                        *)
RunCall(method, from, to) ==
  /\ alive
  /\ known \in from
  /\ \E outcome \in Results(method) :
       /\ slave' = Received(slave, method, outcome)
       /\ known' = Learnt(Status(outcome, FALSE), to)
  /\ UNCHANGED <<alive, lastTime>>

ResetSlave ==
  /\ RunCall("Reset", Known \ {"Fatal"}, "Instantiated")
  /\ time' = IF known' = "Instantiated" THEN NaN ELSE time
  /\ at' = NaN

TerminateSlave ==
  RunCall("Terminate", {"Initialized"}, "Terminated") /\ UNCHANGED <<time, at>>

GetVariable ==
  RunCall("GetVariable", {"Initialized", "Terminated"}, known)
    /\ UNCHANGED <<time, at>>

SetVariable ==
  RunCall("SetVariable", {"Instantiated", "Initialized"}, known)
    /\ UNCHANGED <<time, at>>

UseDerivatives ==
  /\ \/ RunCall("SetRealInputDerivatives", {"Initialized"}, "Initialized")
     \/ RunCall("GetRealOutputDerivatives", {"Initialized"}, "Initialized")
  /\ UNCHANGED <<time, at>>

(* Unlike fmi2DoStep this passes on any step size.  A DoStep that throws   *)
(* has not left t.                                                         *)
DoStep(end) ==
  /\ alive
  /\ known = "Initialized"
  /\ at # NaN
  /\ \E outcome \in StepOutcomes, stop \in Times :
       /\ lastTime' = TimeAfterStep(lastTime, at, end, stop, outcome)
       /\ slave' = Received(slave, "DoStep", outcome)
       /\ time' = CASE outcome = "completed" -> end
                    [] outcome = "stopped"   -> stop
                    [] OTHER                 -> time
       /\ known' = Learnt(StepStatus(outcome), "Initialized")
       /\ at' = IF StepStatus(outcome) = "OK" THEN end ELSE NaN
  /\ UNCHANGED alive

(* The importer asks where a discarded step has left the slave.            *)
GetRealStatus ==
  /\ alive
  /\ known = "Initialized"
  /\ at = NaN
  /\ at' = lastTime
  /\ UNCHANGED <<alive, lastTime, slave, time, known>>

-----------------------------------------------------------------------------
Next ==
  \/ InstantiateSlave
  \/ FreeSlaveInstance
  \/ \E start \in Times : InitializeSlave(start)
  \/ ResetSlave
  \/ TerminateSlave
  \/ GetVariable
  \/ SetVariable
  \/ UseDerivatives
  \/ \E end \in Times : DoStep(end)
  \/ GetRealStatus

Spec == Init /\ [][Next]_vars

-----------------------------------------------------------------------------
(* Type invariant: each variable of the wrapper, the slave and the         *)
(* importer holds a value of its type.                                     *)
TypeOK ==
  /\ alive \in BOOLEAN
  /\ lastTime \in Times \cup {NaN}
  /\ slave \in Phases
  /\ time \in Times \cup {NaN}
  /\ known \in Known
  /\ at \in Times \cup {NaN}

(* An importer that goes by the statuses knows where the slave is, also    *)
(* when an initialisation fails after one or two of its three calls, and   *)
(* never calls it out of order (fmiInitializeSlave, RunCall).              *)
ImporterKnowsTheSlave ==
  alive =>
    /\ slave # "Misused"
    /\ known = "Instantiated" => slave = "New"
    /\ known = "Initialized"  => slave = "Stepping"
    /\ known = "Terminated"   => slave = "Terminated"

(* The steps that reach the slave follow on each other without a gap or an *)
(* overlap: the time from which the importer steps, taken from the status  *)
(* of a step or from fmiGetRealStatus after a discard, is where the slave  *)
(* is (fmiDoStep, lastSuccessfulTime).                                     *)
StepsAreContiguous ==
  alive /\ known = "Initialized" /\ at # NaN => at = time
=============================================================================
