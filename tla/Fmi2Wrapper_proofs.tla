-------------------------- MODULE Fmi2Wrapper_proofs --------------------------
(***************************************************************************)
(* Proofs about Fmi2Wrapper, for any slave, any number of handles and      *)
(* cells and any times.                                                    *)
(***************************************************************************)
EXTENDS Fmi2Wrapper, TLAPS

-----------------------------------------------------------------------------
(* The tables of the wrapper and of FMI 2.0.                               *)

Known == Modes \ {"Restored"}

LEMMA AfterTypes ==
  ASSUME NEW m \in Modes, NEW call \in Calls
  PROVE  After(m, call) \in Modes
BY DEF After, Moving, Target, Modes, Calls

(* In a mode that it knows the wrapper lets through what FMI 2.0 allows,   *)
(* and nothing else.                                                       *)
LEMMA TablesAgree ==
  ASSUME NEW m \in Known, NEW call \in Calls
  PROVE  Allows(m, call) <=> call \in SlaveExpects(m)
<1>1. CASE m = "Instantiated"
  BY <1>1 DEF Allows, AllowedIn, SlaveExpects, Calls, Modes
<1>2. CASE m = "InitializationMode"
  BY <1>2 DEF Allows, AllowedIn, SlaveExpects, Calls, Modes
<1>3. CASE m = "StepComplete"
  BY <1>3 DEF Allows, AllowedIn, SlaveExpects, Calls, Modes
<1>4. CASE m = "Terminated"
  BY <1>4 DEF Allows, AllowedIn, SlaveExpects, Calls, Modes
<1> QED BY <1>1, <1>2, <1>3, <1>4 DEF Known, Modes

LEMMA ExpectedCalls ==
  ASSUME NEW p \in Phases
  PROVE  SlaveExpects(p) \subseteq Calls
BY DEF SlaveExpects, Phases, Modes, Calls

LEMMA ResultTypes ==
  ASSUME NEW method
  PROVE  Results(method) \subseteq Outcomes
BY DEF Results, DefaultResults, Outcomes

LEMMA StatusTypes ==
  ASSUME NEW outcome \in Outcomes, NEW allowed \in BOOLEAN
  PROVE  /\ Status(outcome, allowed) \in Statuses
         /\ Status(outcome, allowed) = "OK" <=> outcome = "ok"
BY DEF Status, Statuses, Outcomes

-----------------------------------------------------------------------------
(* One call on the slave.                                                  *)

LEMMA SlaveStaysTyped ==
  ASSUME slave \in Slave, NEW next \in Slave, NEW call, NEW outcome
  PROVE  SlaveAfter(call, outcome, next) \in Slave
<1> DEFINE s == IF outcome = "ok" THEN next ELSE slave
           p == IF call \in SlaveExpects(slave.phase) THEN s.phase ELSE "Misused"
<1>1. s \in Slave /\ p \in Phases
  BY DEF Slave, Phases
<1>2. SlaveAfter(call, outcome, next) = [s EXCEPT !.phase = p]
  BY DEF SlaveAfter
<1> HIDE DEF s, p
<1> QED BY <1>1, <1>2 DEF Slave

LEMMA SlaveFields ==
  ASSUME slave \in Slave, NEW next \in Slave, NEW call, NEW outcome
  PROVE  LET s == IF outcome = "ok" THEN next ELSE slave
             r == SlaveAfter(call, outcome, next)
         IN /\ r.phase = IF call \in SlaveExpects(slave.phase) THEN s.phase ELSE "Misused"
            /\ r.time = s.time
            /\ r.stepped = s.stepped
            /\ r.reached = s.reached
BY DEF SlaveAfter, Slave

(* What a success makes of the slave in the calls that go through RunCall. *)
Leads(call, next) ==
  /\ call = "Reset" => next.phase = "Instantiated"
  /\ call \notin {"Reset", "SetFMUstate"} => next.phase = SlaveMoves(slave.phase, call)

SameTimes(s, r) ==
  s.time = r.time /\ s.stepped = r.stepped /\ s.reached = r.reached

Tracked == mode = "Restored" \/ slave.phase = "Misused" \/ mode = slave.phase

LEMMA RunCallTracks ==
  ASSUME mode \in Modes, slave \in Slave, Tracked,
         NEW call \in Calls \ {"DoStep", "GetStatus"}, NEW outcome \in Outcomes,
         NEW next \in Slave, Leads(call, next), RunCall(call, outcome, next)
  PROVE  /\ mode' \in Modes
         /\ slave' \in Slave
         /\ status' \in Statuses
         /\ UNCHANGED <<alive, lastTime>>
         /\ Tracked'
         /\ slave.phase # "Misused" /\ slave'.phase = "Misused"
              => "Restored" \in {mode, mode'}
         /\ outcome # "ok" => SameTimes(slave', slave)
         /\ outcome = "ok" => SameTimes(slave', next)
<1>1. /\ status' \in Statuses
      /\ mode' = IF outcome = "ok" THEN After(mode, call) ELSE mode
  BY StatusTypes DEF RunCall
<1>2. mode' \in Modes
  BY <1>1, AfterTypes
<1>3. slave' \in Slave
  BY SlaveStaysTyped DEF RunCall
<1> DEFINE s == IF outcome = "ok" THEN next ELSE slave
<1>4. /\ slave'.phase = IF call \in SlaveExpects(slave.phase) THEN s.phase ELSE "Misused"
      /\ slave'.time = s.time
      /\ slave'.stepped = s.stepped
      /\ slave'.reached = s.reached
  BY SlaveFields DEF RunCall
<1>5. slave.phase \in Phases /\ s.phase \in Phases
  BY DEF Slave
<1>6. CASE slave.phase = "Misused"
  <2>1. call \in SlaveExpects(slave.phase)
          => call \in {"Reset", "GetFMUstate", "SetFMUstate", "OtherFMUstate"}
    BY <1>6 DEF SlaveExpects
  <2>2. Tracked'
    <3>1. CASE outcome # "ok"
      BY <1>4, <1>6, <3>1 DEF Tracked
    <3>2. CASE outcome = "ok" /\ call \notin SlaveExpects(slave.phase)
      BY <1>4, <3>2 DEF Tracked
    <3>3. CASE outcome = "ok" /\ call \in {"GetFMUstate", "OtherFMUstate"}
      BY <1>4, <1>6, <3>3 DEF Tracked, Leads, SlaveMoves
    <3>4. CASE outcome = "ok" /\ call = "Reset"
      BY <1>1, <1>4, <3>4 DEF Tracked, Leads, After, Moving, Target
    <3>5. CASE outcome = "ok" /\ call = "SetFMUstate"
      BY <1>1, <3>5 DEF Tracked, After, Moving, Target
    <3> QED BY <2>1, <3>1, <3>2, <3>3, <3>4, <3>5
  <2> QED BY <1>1, <1>2, <1>3, <1>4, <1>6, <2>2 DEF RunCall, SameTimes
<1>7. CASE slave.phase # "Misused"
  <2>1. call \notin SlaveExpects(slave.phase) => mode = "Restored"
    BY <1>7, TablesAgree DEF RunCall, Tracked, Known
  <2>2. Tracked'
    <3>1. CASE outcome # "ok" \/ call \notin SlaveExpects(slave.phase)
      BY <1>1, <1>4, <1>7, <3>1 DEF Tracked
    <3>2. CASE outcome = "ok" /\ call = "SetFMUstate"
      BY <1>1, <3>2 DEF Tracked, After, Moving, Target
    <3>3. CASE /\ outcome = "ok" /\ call \in SlaveExpects(slave.phase)
               /\ call # "SetFMUstate"
      <4>1. slave'.phase = next.phase
        BY <1>4, <3>3
      <4>2. CASE call \in Moving
        BY <1>1, <3>3, <4>1, <4>2
           DEF Tracked, Leads, After, Moving, Target, SlaveMoves, Calls
      <4>3. CASE call \notin Moving
        BY <1>1, <1>7, <3>3, <4>1, <4>3
           DEF Tracked, Leads, After, Moving, SlaveMoves, Calls
      <4> QED BY <4>2, <4>3
    <3> QED BY <3>1, <3>2, <3>3
  <2>3. slave'.phase = "Misused" => "Restored" \in {mode, mode'}
    <3>1. CASE call \notin SlaveExpects(slave.phase)
      BY <2>1, <3>1
    <3>2. CASE call \in SlaveExpects(slave.phase) /\ outcome # "ok"
      BY <1>4, <1>7, <3>2
    <3>3. CASE outcome = "ok" /\ call = "SetFMUstate"
      BY <1>1, <3>3 DEF After, Moving, Target
    <3>4. CASE /\ call \in SlaveExpects(slave.phase) /\ outcome = "ok"
               /\ call # "SetFMUstate"
      BY <1>4, <1>7, <3>4 DEF Leads, SlaveMoves
    <3> QED BY <3>1, <3>2, <3>3, <3>4
  <2> QED BY <1>1, <1>2, <1>3, <1>4, <2>2, <2>3 DEF RunCall, SameTimes
<1> QED BY <1>6, <1>7

-----------------------------------------------------------------------------
(* The inductive invariant: all the invariants that the runs check.        *)

CallTypes ==
  /\ alive \in BOOLEAN
  /\ mode \in Modes
  /\ lastTime \in Times \cup {NaN}
  /\ status \in Statuses \cup {"Exception"}
  /\ slave \in Slave

StateTypes ==
  /\ heap \in [Cells -> State \cup {Null}]
  /\ handle \in [Handles -> Cells \cup {Null}]
  /\ buffer \in State \cup {Null}

CallInv  == CallTypes /\ ModeTracksSlave /\ LastTimeIsTheLastSteps
StateInv == StateTypes /\ HandlesOwnStates
Inv      == CallInv /\ StateInv

(* The action of MisusedOnlyAfterRestore.                                  *)
MisusedStep ==
  alive /\ slave.phase # "Misused" /\ slave'.phase = "Misused"
    => "Restored" \in {mode, mode'}

LEMMA CallKeepsInv ==
  ASSUME CallInv, NEW call \in Calls \ {"DoStep", "GetStatus"},
         NEW outcome \in Outcomes, NEW next \in Slave, Leads(call, next),
         next.stepped => next.time = slave.time /\ slave.stepped,
         next.reached = slave.reached,
         RunCall(call, outcome, next)
  PROVE  CallInv' /\ MisusedStep
<1>1. Tracked /\ mode \in Modes /\ slave \in Slave
  BY DEF CallInv, CallTypes, ModeTracksSlave, Tracked, RunCall
<1>2. /\ mode' \in Modes
      /\ slave' \in Slave
      /\ status' \in Statuses
      /\ UNCHANGED <<alive, lastTime>>
      /\ Tracked'
      /\ slave.phase # "Misused" /\ slave'.phase = "Misused"
           => "Restored" \in {mode, mode'}
      /\ outcome # "ok" => SameTimes(slave', slave)
      /\ outcome = "ok" => SameTimes(slave', next)
  BY <1>1, RunCallTracks
<1>3. CallTypes'
  BY <1>2 DEF CallInv, CallTypes
<1>4. ModeTracksSlave'
  BY <1>2 DEF Tracked, ModeTracksSlave
<1>5. LastTimeIsTheLastSteps'
  BY <1>2 DEF CallInv, LastTimeIsTheLastSteps, RunCall, SameTimes
<1> QED BY <1>2, <1>3, <1>4, <1>5 DEF CallInv, MisusedStep

(* Calls after which the slave's time is as it was.                        *)
LEMMA PlainCallKeepsInv ==
  ASSUME CallInv, NEW call \in Calls \ {"DoStep", "GetStatus", "Reset", "SetFMUstate"},
         NEW outcome \in Outcomes,
         RunCall(call, outcome, [slave EXCEPT !.phase = SlaveMoves(@, call)])
  PROVE  CallInv' /\ MisusedStep
<1> DEFINE next == [slave EXCEPT !.phase = SlaveMoves(@, call)]
<1>1. slave \in Slave
  BY DEF CallInv, CallTypes
<1>2. SlaveMoves(slave.phase, call) \in Phases
  BY <1>1 DEF SlaveMoves, Slave, Phases, Modes
<1>3. /\ next \in Slave
      /\ next.phase = SlaveMoves(slave.phase, call)
      /\ next.time = slave.time /\ next.stepped = slave.stepped
      /\ next.reached = slave.reached
  BY <1>1, <1>2 DEF Slave
<1>4. Leads(call, next)
  BY <1>3 DEF Leads
<1> HIDE DEF next
<1> QED BY <1>3, <1>4, CallKeepsInv DEF next

LEMMA StatelessCallKeepsInv ==
  ASSUME CallInv, NEW call \in {"GetFMUstate", "OtherFMUstate"},
         NEW outcome \in Outcomes, RunCall(call, outcome, slave)
  PROVE  CallInv' /\ MisusedStep
<1>1. slave \in Slave /\ Leads(call, slave)
  BY DEF CallInv, CallTypes, Leads, SlaveMoves
<1> QED BY <1>1, CallKeepsInv DEF Calls

LEMMA StatesUnchanged ==
  ASSUME StateInv, UNCHANGED <<heap, handle, buffer>>
  PROVE  StateInv'
BY DEF StateInv, StateTypes, HandlesOwnStates

-----------------------------------------------------------------------------
(* The steps.                                                              *)

LEMMA DispatchKeepsInv ==
  ASSUME Inv, NEW call \in Calls \ {"DoStep", "GetStatus", "Reset", "SetFMUstate"},
         NEW method, Dispatch(call, method)
  PROVE  Inv' /\ MisusedStep
<1>1. PICK outcome \in Results(method) :
        RunCall(call, outcome, [slave EXCEPT !.phase = SlaveMoves(@, call)])
  BY DEF Dispatch
<1>2. outcome \in Outcomes
  BY ResultTypes
<1>3. CallInv' /\ MisusedStep
  BY <1>1, <1>2, PlainCallKeepsInv DEF Inv
<1> QED BY <1>3, StatesUnchanged DEF Inv, Dispatch

LEMMA NewSlaveType == NewSlave \in Slave
BY DEF NewSlave, Slave, Phases, Modes

LEMMA ManageKeepsInv ==
  ASSUME Inv, Manage
  PROVE  Inv' /\ MisusedStep
<1>1. CASE Instantiate
  <2>1. CallTypes'
    BY <1>1, NewSlaveType DEF Instantiate, CallTypes, Modes, Statuses
  <2>2. ModeTracksSlave' /\ LastTimeIsTheLastSteps' /\ MisusedStep
    BY <1>1 DEF Instantiate, ModeTracksSlave, LastTimeIsTheLastSteps, NewSlave, MisusedStep
  <2> QED BY <1>1, <2>1, <2>2, StatesUnchanged DEF Inv, CallInv, Instantiate
<1>2. CASE FreeInstance
  <2>1. CallInv' /\ MisusedStep
    BY <1>2 DEF FreeInstance, Inv, CallInv, CallTypes, ModeTracksSlave,
                LastTimeIsTheLastSteps, MisusedStep
  <2> QED BY <1>2, <2>1, StatesUnchanged DEF Inv, FreeInstance
<1> QED BY <1>1, <1>2 DEF Manage

LEMMA SetupKeepsInv ==
  ASSUME Inv, NEW start \in Times, SetupExperiment(start)
  PROVE  Inv' /\ MisusedStep
<1> DEFINE next == [slave EXCEPT !.time = start, !.stepped = FALSE]
<1>1. PICK outcome \in Results("SetupExperiment") :
        RunCall("SetupExperiment", outcome, next)
  BY DEF SetupExperiment
<1>2. outcome \in Outcomes
  BY ResultTypes
<1>3. /\ next \in Slave /\ next.phase = slave.phase
      /\ ~next.stepped /\ next.reached = slave.reached
  BY DEF Inv, CallInv, CallTypes, Slave
<1>4. Leads("SetupExperiment", next)
  BY <1>3 DEF Leads, SlaveMoves
<1> HIDE DEF next
<1>5. CallInv' /\ MisusedStep
  BY <1>1, <1>2, <1>3, <1>4, CallKeepsInv, "SetupExperiment" \in Calls \ {"DoStep", "GetStatus"}
     DEF Inv, Calls
<1> QED BY <1>5, StatesUnchanged DEF Inv, SetupExperiment

LEMMA ResetKeepsInv ==
  ASSUME Inv, Reset
  PROVE  Inv' /\ MisusedStep
<1>1. PICK outcome \in Results("Reset") : RunCall("Reset", outcome, SlaveAfterReset)
  BY DEF Reset
<1>2. outcome \in Outcomes
  BY ResultTypes
<1>3. /\ SlaveAfterReset \in Slave /\ SlaveAfterReset.phase = "Instantiated"
      /\ ~SlaveAfterReset.stepped /\ SlaveAfterReset.reached = slave.reached
  BY NewSlaveType DEF Inv, CallInv, CallTypes, SlaveAfterReset, NewSlave, Slave
<1>4. Leads("Reset", SlaveAfterReset)
  BY <1>3 DEF Leads
<1>5. CallInv' /\ MisusedStep
  BY <1>1, <1>2, <1>3, <1>4, CallKeepsInv DEF Inv, Calls
<1> QED BY <1>5, StatesUnchanged DEF Inv, Reset

LEMMA CallKeeps ==
  ASSUME Inv, Call
  PROVE  Inv' /\ MisusedStep
<1>1. CASE RefuseCall
  <2>1. CallInv' /\ MisusedStep
    BY <1>1 DEF RefuseCall, Inv, CallInv, CallTypes, ModeTracksSlave,
                LastTimeIsTheLastSteps, MisusedStep, Statuses
  <2> QED BY <1>1, <2>1, StatesUnchanged DEF Inv, RefuseCall
<1>2. CASE \E start \in Times : SetupExperiment(start)
  BY <1>2, SetupKeepsInv
<1>3. CASE EnterInitializationMode
  BY <1>3, DispatchKeepsInv DEF EnterInitializationMode, Calls
<1>4. CASE ExitInitializationMode
  BY <1>4, DispatchKeepsInv DEF ExitInitializationMode, Calls
<1>5. CASE Terminate
  BY <1>5, DispatchKeepsInv DEF Terminate, Calls
<1>6. CASE Reset
  BY <1>6, ResetKeepsInv
<1>7. CASE GetVariable
  BY <1>7, DispatchKeepsInv DEF GetVariable, Calls
<1>8. CASE SetVariable
  BY <1>8, DispatchKeepsInv DEF SetVariable, Calls
<1>9. CASE QueryDerivative
  BY <1>9, DispatchKeepsInv DEF QueryDerivative, Calls
<1> QED BY <1>1, <1>2, <1>3, <1>4, <1>5, <1>6, <1>7, <1>8, <1>9 DEF Call

(* What the slave is made of fits in an FMU state, and no state and no     *)
(* cell is the null pointer.                                               *)
LEMMA StateOfSlave ==
  ASSUME Inv
  PROVE  SlaveState \in State /\ Null \notin State /\ Null \notin Cells
BY ConstantsAssumption DEF Inv, CallInv, CallTypes, SlaveState, State, Slave

LEMMA GetFMUstateKeepsInv ==
  ASSUME Inv, NEW h \in Handles, NEW c \in Cells, GetFMUstate(h, c)
  PROVE  Inv' /\ MisusedStep
<1>1. PICK outcome \in Results("GetFMUState") :
        /\ RunCall("GetFMUstate", outcome, slave)
        /\ heap' = IF outcome = "ok" THEN [heap EXCEPT ![c] = SlaveState] ELSE heap
        /\ handle' = IF outcome = "ok" THEN [handle EXCEPT ![h] = c] ELSE handle
  BY DEF GetFMUstate
<1>2. CallInv' /\ MisusedStep
  BY <1>1, ResultTypes, StatelessCallKeepsInv DEF Inv
<1>3. CASE outcome # "ok"
  BY <1>1, <1>2, <1>3, StatesUnchanged DEF Inv, GetFMUstate
<1>4. CASE outcome = "ok"
  <2>1. StateTypes'
    BY <1>1, <1>4, StateOfSlave DEF Inv, StateInv, StateTypes, GetFMUstate
  <2>2. HandlesOwnStates'
    BY <1>1, <1>4, StateOfSlave
       DEF Inv, StateInv, StateTypes, HandlesOwnStates, GetFMUstate
  <2> QED BY <1>2, <2>1, <2>2 DEF Inv, StateInv
<1> QED BY <1>3, <1>4

LEMMA SetFMUstateKeepsInv ==
  ASSUME Inv, NEW h \in Handles, SetFMUstate(h)
  PROVE  Inv' /\ MisusedStep
<1> DEFINE next == [slave EXCEPT !.phase = heap[handle[h]].phase,
                                 !.time = heap[handle[h]].time,
                                 !.stepped = FALSE]
<1>1. PICK outcome \in Results("SetFMUState") : RunCall("SetFMUstate", outcome, next)
  BY DEF SetFMUstate
<1>2. heap[handle[h]] \in State
  BY DEF SetFMUstate, Inv, StateInv, StateTypes, HandlesOwnStates
<1>3. next \in Slave /\ ~next.stepped /\ next.reached = slave.reached
  BY <1>2 DEF Inv, CallInv, CallTypes, Slave, State
<1>4. Leads("SetFMUstate", next)
  BY DEF Leads
<1> HIDE DEF next
<1>5. CallInv' /\ MisusedStep
  BY <1>1, <1>3, <1>4, ResultTypes, CallKeepsInv DEF Inv, Calls
<1> QED BY <1>5, StatesUnchanged DEF Inv, SetFMUstate

LEMMA FreeFMUstateKeepsInv ==
  ASSUME Inv, NEW h \in Handles, FreeFMUstate(h)
  PROVE  Inv' /\ MisusedStep
<1>1. PICK outcome \in Results("FreeFMUState") :
        /\ RunCall("OtherFMUstate", outcome, slave)
        /\ heap' = IF outcome = "ok" THEN [heap EXCEPT ![handle[h]] = Null] ELSE heap
        /\ handle' = HandleAfterFree(h, outcome)
  BY DEF FreeFMUstate
<1>2. CallInv' /\ MisusedStep
  BY <1>1, ResultTypes, StatelessCallKeepsInv DEF Inv
<1>3. CASE outcome # "ok"
  BY <1>1, <1>2, <1>3, StatesUnchanged DEF Inv, FreeFMUstate, HandleAfterFree
<1>4. CASE outcome = "ok"
  <2>1. handle' = [handle EXCEPT ![h] = Null]
    BY <1>1, <1>4 DEF HandleAfterFree
  <2>2. StateTypes'
    BY <1>1, <1>4, <2>1 DEF Inv, StateInv, StateTypes, FreeFMUstate
  <2>3. HandlesOwnStates'
    BY <1>1, <1>4, <2>1, StateOfSlave
       DEF Inv, StateInv, StateTypes, HandlesOwnStates, FreeFMUstate
  <2> QED BY <1>2, <2>2, <2>3 DEF Inv, StateInv
<1> QED BY <1>3, <1>4

LEMMA SerializeFMUstateKeepsInv ==
  ASSUME Inv, NEW h \in Handles, SerializeFMUstate(h)
  PROVE  Inv' /\ MisusedStep
<1>1. PICK outcome \in Results("SerializeFMUState") :
        /\ RunCall("OtherFMUstate", outcome, slave)
        /\ buffer' = IF outcome = "ok" THEN heap[handle[h]] ELSE Null
  BY DEF SerializeFMUstate
<1>2. CallInv' /\ MisusedStep
  BY <1>1, ResultTypes, StatelessCallKeepsInv DEF Inv
<1>3. StateTypes'
  BY <1>1 DEF SerializeFMUstate, Inv, StateInv, StateTypes, HandlesOwnStates
<1>4. HandlesOwnStates'
  BY DEF SerializeFMUstate, Inv, StateInv, HandlesOwnStates
<1> QED BY <1>2, <1>3, <1>4 DEF Inv, StateInv

LEMMA DeSerializeFMUstateKeepsInv ==
  ASSUME Inv, NEW h \in Handles, NEW c \in Cells, DeSerializeFMUstate(h, c)
  PROVE  Inv' /\ MisusedStep
<1>1. PICK outcome \in Results("DeserializeFMUState") :
        /\ RunCall("OtherFMUstate", outcome, slave)
        /\ heap' = IF outcome = "ok" THEN [heap EXCEPT ![c] = buffer] ELSE heap
        /\ handle' = IF outcome = "ok" THEN [handle EXCEPT ![h] = c] ELSE handle
  BY DEF DeSerializeFMUstate
<1>2. CallInv' /\ MisusedStep
  BY <1>1, ResultTypes, StatelessCallKeepsInv DEF Inv
<1>3. CASE outcome # "ok"
  BY <1>1, <1>2, <1>3, StatesUnchanged DEF Inv, DeSerializeFMUstate
<1>4. CASE outcome = "ok"
  <2>1. StateTypes'
    BY <1>1, <1>4 DEF Inv, StateInv, StateTypes, DeSerializeFMUstate
  <2>2. HandlesOwnStates'
    BY <1>1, <1>4, StateOfSlave
       DEF Inv, StateInv, StateTypes, HandlesOwnStates, DeSerializeFMUstate
  <2> QED BY <1>2, <2>1, <2>2 DEF Inv, StateInv
<1> QED BY <1>3, <1>4

LEMMA FMUStateCallKeeps ==
  ASSUME Inv, FMUStateCall
  PROVE  Inv' /\ MisusedStep
<1>1. ASSUME NEW h \in Handles, SerializedFMUstateSize(h)
      PROVE  Inv' /\ MisusedStep
  BY <1>1, DispatchKeepsInv DEF SerializedFMUstateSize, Calls
<1> QED BY <1>1, GetFMUstateKeepsInv, SetFMUstateKeepsInv, FreeFMUstateKeepsInv,
           SerializeFMUstateKeepsInv, DeSerializeFMUstateKeepsInv
        DEF FMUStateCall

-----------------------------------------------------------------------------
(* Steps in time.                                                          *)

LEMMA DoStepKeepsInv ==
  ASSUME Inv, NEW t \in Times, NEW end \in Times, DoStep(t, end)
  PROVE  Inv' /\ MisusedStep
<1>1. PICK outcome \in StepOutcomes, stop \in t..end :
        /\ lastTime' = TimeAfterStep(lastTime, t, end, stop, outcome)
        /\ status' = StepStatus(outcome)
        /\ slave' = [SlaveAfter("DoStep", outcome, slave) EXCEPT
                       !.time = WhereLeft(t, end, stop, outcome),
                       !.stepped = TRUE,
                       !.reached = WhereLeft(t, end, stop, outcome)]
  BY DEF DoStep
<1>2. stop \in Times
  BY ConstantsAssumption DEF Times
<1>3. lastTime' \in Times
  BY <1>1, <1>2 DEF TimeAfterStep
<1>4. status' \in Statuses
  BY <1>1 DEF StepStatus, Status, Statuses
<1>5. slave \in Slave /\ mode \in Modes /\ alive
  BY DEF Inv, CallInv, CallTypes, DoStep
<1>6. mode' \in {mode, "StepComplete"}
  BY DEF DoStep, After, Moving, Target
<1>7. SlaveAfter("DoStep", outcome, slave) \in Slave
  BY <1>5, SlaveStaysTyped
<1>8. slave' \in Slave
  BY <1>1, <1>3, <1>7 DEF Slave, TimeAfterStep, WhereLeft
<1>9. slave'.time = lastTime' /\ slave'.reached = lastTime'
  BY <1>1, <1>7 DEF Slave, TimeAfterStep, WhereLeft
<1>10. slave'.phase = IF "DoStep" \in SlaveExpects(slave.phase) THEN slave.phase
                                                              ELSE "Misused"
  <2>1. slave'.phase = SlaveAfter("DoStep", outcome, slave).phase
    BY <1>1, <1>7 DEF Slave
  <2> QED BY <1>5, <2>1, SlaveFields
<1>11. slave.phase \in Phases
  BY <1>5 DEF Slave
<1>12. "DoStep" \in SlaveExpects(slave.phase) <=> slave.phase = "StepComplete"
  BY <1>11 DEF SlaveExpects, Phases, Modes
<1>13. mode # "Restored" => mode = "StepComplete"
  BY <1>5 DEF DoStep, Allows, AllowedIn
<1>14. CallTypes'
  BY <1>3, <1>4, <1>5, <1>6, <1>8 DEF CallTypes, DoStep, Modes
<1>15. ModeTracksSlave'
  BY <1>5, <1>6, <1>10, <1>12, <1>13 DEF ModeTracksSlave
<1>16. MisusedStep
  BY <1>5, <1>10, <1>12, <1>13 DEF MisusedStep, Inv, CallInv, ModeTracksSlave
<1>17. LastTimeIsTheLastSteps'
  BY <1>9 DEF LastTimeIsTheLastSteps
<1>18. CallInv'
  BY <1>14, <1>15, <1>17 DEF CallInv
<1> QED BY <1>16, <1>18, StatesUnchanged DEF Inv, DoStep

LEMMA GetBooleanStatusKeepsInv ==
  ASSUME Inv, GetBooleanStatus
  PROVE  Inv' /\ MisusedStep
<1>1. PICK outcome \in Results("TerminateRequested") :
        /\ status' = IF outcome = "ok" THEN "OK" ELSE "Exception"
        /\ slave' = SlaveAfter("GetStatus", outcome, slave)
  BY DEF GetBooleanStatus
<1>2. slave \in Slave /\ mode \in Modes
  BY DEF Inv, CallInv, CallTypes
<1>3. /\ slave' \in Slave
      /\ slave'.phase = IF "GetStatus" \in SlaveExpects(slave.phase) THEN slave.phase
                                                                 ELSE "Misused"
      /\ slave'.time = slave.time
      /\ slave'.stepped = slave.stepped
      /\ slave'.reached = slave.reached
  BY <1>1, <1>2, SlaveStaysTyped, SlaveFields
<1>4. mode # "Restored" /\ slave.phase # "Misused"
        => "GetStatus" \in SlaveExpects(slave.phase)
  BY <1>2, TablesAgree DEF GetBooleanStatus, Inv, CallInv, ModeTracksSlave, Known, Calls
<1>5. CallTypes'
  BY <1>1, <1>3 DEF Inv, CallInv, CallTypes, GetBooleanStatus, Statuses
<1>6. ModeTracksSlave' /\ LastTimeIsTheLastSteps' /\ MisusedStep
  BY <1>3, <1>4 DEF Inv, CallInv, ModeTracksSlave, LastTimeIsTheLastSteps, MisusedStep,
                    GetBooleanStatus
<1> QED BY <1>5, <1>6, StatesUnchanged DEF Inv, CallInv, GetBooleanStatus

LEMMA SteppingKeeps ==
  ASSUME Inv, Stepping
  PROVE  Inv' /\ MisusedStep
<1>1. CASE \E t, end \in Times : DoStep(t, end)
  BY <1>1, DoStepKeepsInv
<1>2. CASE GetRealStatus
  <2>1. CallInv' /\ MisusedStep
    BY <1>2 DEF GetRealStatus, Inv, CallInv, CallTypes, ModeTracksSlave,
                LastTimeIsTheLastSteps, MisusedStep, Statuses
  <2> QED BY <1>2, <2>1, StatesUnchanged DEF Inv, GetRealStatus
<1>3. CASE GetBooleanStatus
  BY <1>3, GetBooleanStatusKeepsInv
<1> QED BY <1>1, <1>2, <1>3 DEF Stepping

-----------------------------------------------------------------------------
(* The theorems.                                                           *)

LEMMA InitHolds == Init => Inv
<1> SUFFICES ASSUME Init PROVE Inv
  OBVIOUS
<1>1. CallInv
  BY NewSlaveType DEF Init, CallInv, CallTypes, ModeTracksSlave, LastTimeIsTheLastSteps,
                      Modes, Statuses
<1>2. StateInv
  BY DEF Init, StateInv, StateTypes, HandlesOwnStates
<1> QED BY <1>1, <1>2 DEF Inv

LEMMA StepHolds == Inv /\ [Next]_vars => Inv' /\ MisusedStep
<1> SUFFICES ASSUME Inv, [Next]_vars PROVE Inv' /\ MisusedStep
  OBVIOUS
<1>1. CASE Next
  BY <1>1, ManageKeepsInv, CallKeeps, FMUStateCallKeeps, SteppingKeeps DEF Next
<1>2. CASE UNCHANGED vars
  <2>1. CallInv' /\ MisusedStep
    BY <1>2 DEF vars, Inv, CallInv, CallTypes, ModeTracksSlave, LastTimeIsTheLastSteps,
                MisusedStep
  <2> QED BY <1>2, <2>1, StatesUnchanged DEF vars, Inv
<1> QED BY <1>1, <1>2

(* The inductive invariant holds in every reachable state.                 *)
THEOREM InvHolds == Spec => []Inv
BY InitHolds, StepHolds, PTL DEF Spec

(* Every variable keeps its type, whatever the slave does (fmi_functions). *)
THEOREM TypesHold == Spec => []TypeOK
<1>1. Inv => TypeOK
  BY DEF Inv, CallInv, CallTypes, StateInv, StateTypes, TypeOK
<1> QED BY <1>1, InvHolds, PTL

(* Component::mode is where the slave is, unless it says Restored.         *)
THEOREM ModeIsTheSlaves == Spec => []ModeTracksSlave
<1>1. Inv => ModeTracksSlave
  BY DEF Inv, CallInv
<1> QED BY <1>1, InvHolds, PTL

(* RefuseIllegalCall never refuses what FMI 2.0 allows where the slave is. *)
THEOREM LegalCallsPass == Spec => []NoLegalCallRefused
<1>1. Inv => NoLegalCallRefused
  <2> SUFFICES ASSUME Inv, alive, slave.phase # "Misused",
                      NEW call \in SlaveExpects(slave.phase)
               PROVE  Allows(mode, call)
    BY DEF NoLegalCallRefused
  <2>1. mode \in Modes /\ slave.phase \in Phases
    BY DEF Inv, CallInv, CallTypes, Slave
  <2>2. call \in Calls
    BY <2>1, ExpectedCalls
  <2>3. CASE mode = "Restored"
    BY <2>3 DEF Allows
  <2>4. CASE mode # "Restored"
    BY <2>1, <2>2, <2>4, TablesAgree DEF Inv, CallInv, ModeTracksSlave, Known
  <2> QED BY <2>3, <2>4
<1> QED BY <1>1, InvHolds, PTL

(* What fmi2GetRealStatus answers is where the last DoStep of the instance *)
(* left the slave, also after a reset or a restore has moved the slave.    *)
THEOREM StatusTimeIsTheLastSteps == Spec => []LastTimeIsTheLastSteps
<1>1. Inv => LastTimeIsTheLastSteps
  BY DEF Inv, CallInv
<1> QED BY <1>1, InvHolds, PTL

(* The importer's handles and the slave's FMU states match one to one,     *)
(* however the FMU state functions end.                                    *)
THEOREM StatesAreOwned == Spec => []HandlesOwnStates
<1>1. Inv => HandlesOwnStates
  BY DEF Inv, StateInv
<1> QED BY <1>1, InvHolds, PTL

(* An illegal call can only reach the slave in the mode Restored.          *)
THEOREM MisuseNeedsRestore == Spec => MisusedOnlyAfterRestore
<1>1. Inv /\ [Next]_vars => [MisusedStep]_vars
  BY StepHolds
<1>2. Spec => [][MisusedStep]_vars
  BY <1>1, InvHolds, PTL DEF Spec
<1> QED BY <1>2 DEF MisusedOnlyAfterRestore, MisusedStep
=============================================================================
