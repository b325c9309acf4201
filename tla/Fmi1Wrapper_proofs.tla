-------------------------- MODULE Fmi1Wrapper_proofs --------------------------
(***************************************************************************)
(* Proofs about the FMI 1.0 interface: an importer that goes by the        *)
(* statuses it is given always knows where the slave is, for any bound on  *)
(* the times and any choice of methods that the model overrides.           *)
(***************************************************************************)
EXTENDS Fmi1Wrapper, TLAPS

(* What the importer takes the slave to be in, and where it then is.       *)
KnownPhase ==
  /\ slave # "Misused"
  /\ known = "Instantiated" => slave = "New"
  /\ known = "Initialized"  => slave = "Stepping"
  /\ known = "Terminated"   => slave = "Terminated"

(* Where the next step starts, or what fmiGetRealStatus will answer.       *)
KnownTime ==
  known = "Initialized" => IF at = NaN THEN lastTime = time ELSE at = time

Inv == TypeOK /\ KnownPhase /\ KnownTime

-----------------------------------------------------------------------------
LEMMA ResultsAreOutcomes ==
  ASSUME NEW method
  PROVE  Results(method) \subseteq Outcomes
BY DEF Results, DefaultResults, Outcomes

LEMMA StatusTypes ==
  ASSUME NEW outcome, NEW allowed \in BOOLEAN
  PROVE  /\ Status(outcome, allowed) \in Statuses
         /\ Status(outcome, FALSE) # "Discard"
         /\ Status(outcome, FALSE) = "OK" <=> outcome = "ok"
BY DEF Status, Statuses

(* What the importer concludes from the status of a call through RunCall.  *)
LEMMA LearntFromCall ==
  ASSUME NEW outcome, NEW next
  PROVE  Learnt(Status(outcome, FALSE), next) =
           IF outcome = "ok" THEN next
           ELSE IF outcome = "fatal" THEN "Fatal" ELSE "Error"
BY DEF Learnt, Status

(* fmiInitializeSlave: the recursion unrolled.  After n of its calls the   *)
(* slave expects the next.                                                 *)
LEMMA CallsInOrder ==
  ASSUME NEW n \in 0..3, slave = "New"
  PROVE  AfterCalls(n) = CASE n = 0 -> "New" [] n = 1 -> "SetUp"
                           [] n = 2 -> "Initializing" [] n = 3 -> "Stepping"
<1> DEFINE Body(f) == [k \in 0..n |->
             IF k = 0 THEN slave ELSE Received(f[k - 1], InitializeCalls[k], "ok")]
           g == [k \in 0..n |->
                   CASE k = 0 -> "New" [] k = 1 -> "SetUp"
                     [] k = 2 -> "Initializing" [] k = 3 -> "Stepping"]
           after == CHOOSE f : f = Body(f)
<1>1. AfterCalls(n) = after[n]
  BY DEF AfterCalls
<1>2. Body(g) = g
  BY DEF Received, InitializeCalls, SlaveExpects, SlaveMoves
<1>3. after = Body(after)
  BY <1>2
<1> HIDE DEF after
<1>4. after[0] = "New"
  BY <1>3
<1>5. n >= 1 => after[1] = "SetUp"
  BY <1>3, <1>4 DEF Received, InitializeCalls, SlaveExpects, SlaveMoves
<1>6. n >= 2 => after[2] = "Initializing"
  BY <1>3, <1>5 DEF Received, InitializeCalls, SlaveExpects, SlaveMoves
<1>7. n = 3 => after[3] = "Stepping"
  BY <1>3, <1>6 DEF Received, InitializeCalls, SlaveExpects, SlaveMoves
<1> QED BY <1>1, <1>4, <1>5, <1>6, <1>7

-----------------------------------------------------------------------------
LEMMA InitInv == Init => Inv
BY ConstantsAssumption
   DEF Init, Inv, TypeOK, KnownPhase, KnownTime, Phases, Known

(* A call through RunCall is made where the slave expects it, and both     *)
(* records move on together.                                               *)
LEMMA RunCallPhase ==
  ASSUME Inv, NEW method, NEW from, NEW to \in Known, RunCall(method, from, to),
         slave \in SlaveExpects(method),
         SlaveMoves(method, slave) \in Phases \ {"Misused"},
         to = "Instantiated" => SlaveMoves(method, slave) = "New",
         to = "Initialized" => SlaveMoves(method, slave) = "Stepping",
         to = "Terminated" => SlaveMoves(method, slave) = "Terminated"
  PROVE  /\ alive' \in BOOLEAN /\ lastTime' = lastTime
         /\ slave' \in Phases /\ known' \in {to, "Error", "Fatal"}
         /\ KnownPhase'
<1>1. PICK outcome \in Results(method) :
        /\ slave' = Received(slave, method, outcome)
        /\ known' = Learnt(Status(outcome, FALSE), to)
  BY DEF RunCall
<1>2. known' = IF outcome = "ok" THEN to
               ELSE IF outcome = "fatal" THEN "Fatal" ELSE "Error"
  BY <1>1, LearntFromCall
<1>3. slave' = IF outcome = "ok" THEN SlaveMoves(method, slave) ELSE slave
  BY <1>1 DEF Received
<1> QED BY <1>2, <1>3 DEF Inv, TypeOK, KnownPhase, RunCall, Known

(* What the calls that leave the times alone need beyond that.             *)
LEMMA TimesKept ==
  ASSUME Inv, UNCHANGED <<lastTime, time, at>>,
         known' = "Initialized" => known = "Initialized"
  PROVE  KnownTime'
BY DEF Inv, KnownTime

LEMMA InitializeSlaveInv ==
  ASSUME Inv, NEW start \in Times, InitializeSlave(start)
  PROVE  Inv'
<1>1. slave = "New" /\ Len(InitializeCalls) = 3
  BY DEF InitializeSlave, Inv, KnownPhase, InitializeCalls
<1>2. PICK n \in 0..3 :
        IF n = 3
          THEN /\ slave' = AfterCalls(n)
               /\ known' = "Initialized"
               /\ time' = start
               /\ at' = start
          ELSE \E outcome \in Results(InitializeCalls[n + 1]) \ {"ok"} :
                 /\ slave' = Received(AfterCalls(n), InitializeCalls[n + 1], outcome)
                 /\ known' = Learnt(Status(outcome, FALSE), "Initialized")
                 /\ UNCHANGED <<time, at>>
  BY <1>1 DEF InitializeSlave
<1>3. AfterCalls(n) = CASE n = 0 -> "New" [] n = 1 -> "SetUp"
                        [] n = 2 -> "Initializing" [] n = 3 -> "Stepping"
  BY <1>1, CallsInOrder
<1>4. alive' \in BOOLEAN /\ lastTime' = lastTime
  BY DEF InitializeSlave, Inv, TypeOK
<1>5. CASE n = 3
  <2>1. slave' = "Stepping" /\ known' = "Initialized" /\ time' = start /\ at' = start
    BY <1>2, <1>3, <1>5
  <2> QED BY <1>4, <2>1, ConstantsAssumption
          DEF Inv, TypeOK, KnownPhase, KnownTime, Phases, Known
<1>6. CASE n # 3
  <2>1. PICK outcome \in Results(InitializeCalls[n + 1]) \ {"ok"} :
          /\ slave' = Received(AfterCalls(n), InitializeCalls[n + 1], outcome)
          /\ known' = Learnt(Status(outcome, FALSE), "Initialized")
          /\ UNCHANGED <<time, at>>
    BY <1>2, <1>6
  <2>2. known' \in {"Error", "Fatal"}
    BY <2>1, LearntFromCall
  <2>3. AfterCalls(n) \in SlaveExpects(InitializeCalls[n + 1])
    BY <1>3, <1>6 DEF InitializeCalls, SlaveExpects
  <2>4. slave' = AfterCalls(n)
    BY <2>1, <2>3 DEF Received
  <2>5. slave' \in {"New", "SetUp", "Initializing"}
    BY <1>3, <1>6, <2>4
  <2> QED BY <1>4, <2>1, <2>2, <2>5
          DEF Inv, TypeOK, KnownPhase, KnownTime, Phases, Known
<1> QED BY <1>5, <1>6

(* Where the slave is after a step, and what the status query will say.    *)
LEMMA DoStepInv ==
  ASSUME Inv, NEW end \in Times, DoStep(end)
  PROVE  Inv'
<1>1. PICK outcome \in StepOutcomes, stop \in Times :
        /\ lastTime' = TimeAfterStep(lastTime, at, end, stop, outcome)
        /\ slave' = Received(slave, "DoStep", outcome)
        /\ time' = CASE outcome = "completed" -> end
                      [] outcome = "stopped"   -> stop
                      [] OTHER                 -> time
        /\ known' = Learnt(StepStatus(outcome), "Initialized")
        /\ at' = IF StepStatus(outcome) = "OK" THEN end ELSE NaN
  BY DEF DoStep
<1>2. slave = "Stepping" /\ known = "Initialized" /\ at = time /\ at \in Times
      /\ alive' \in BOOLEAN
  BY DEF DoStep, Inv, TypeOK, KnownPhase, KnownTime
<1>3. slave' = "Stepping"
  BY <1>1, <1>2 DEF Received, SlaveExpects, SlaveMoves, StepOutcomes, Outcomes
<1>4. CASE outcome = "completed"
  BY <1>1, <1>2, <1>3, <1>4, ConstantsAssumption
     DEF StepStatus, Learnt, TimeAfterStep, Inv, TypeOK, KnownPhase, KnownTime,
         Phases, Known
<1>5. CASE outcome = "stopped"
  BY <1>1, <1>2, <1>3, <1>5
     DEF StepStatus, Learnt, TimeAfterStep, Inv, TypeOK, KnownPhase, KnownTime,
         Phases, Known
<1>6. CASE outcome \notin {"completed", "stopped"}
  <2>1. StepStatus(outcome) \in {"Discard", "Error", "Fatal"}
    BY <1>6 DEF StepStatus, Status, StepOutcomes, Outcomes
  <2>2. lastTime' = at /\ time' = time /\ at' = NaN
    BY <1>1, <1>6, <2>1 DEF TimeAfterStep
  <2>3. known' \in {"Initialized", "Error", "Fatal"}
    BY <1>1, <1>2, <2>1 DEF Learnt
  <2> QED BY <1>2, <1>3, <2>2, <2>3
          DEF Inv, TypeOK, KnownPhase, KnownTime, Phases, Known
<1> QED BY <1>4, <1>5, <1>6

LEMMA NextInv ==
  ASSUME Inv, [Next]_vars
  PROVE  Inv'
<1> USE DEF Inv, TypeOK
<1>1. CASE InstantiateSlave
  BY <1>1, ConstantsAssumption
     DEF InstantiateSlave, KnownPhase, KnownTime, Phases, Known
<1>2. CASE FreeSlaveInstance
  BY <1>2 DEF FreeSlaveInstance, KnownPhase, KnownTime
<1>3. CASE \E start \in Times : InitializeSlave(start)
  BY <1>3, InitializeSlaveInv
<1>4. CASE ResetSlave
  <2>1. RunCall("Reset", Known \ {"Fatal"}, "Instantiated")
    BY <1>4 DEF ResetSlave
  <2>2. slave \in SlaveExpects("Reset") /\ SlaveMoves("Reset", slave) = "New"
    BY DEF SlaveExpects, SlaveMoves
  <2>3. /\ alive' \in BOOLEAN /\ lastTime' = lastTime
        /\ slave' \in Phases /\ known' \in {"Instantiated", "Error", "Fatal"}
        /\ KnownPhase'
    BY <2>1, <2>2, RunCallPhase DEF Known, Phases
  <2> QED BY <1>4, <2>3 DEF ResetSlave, KnownTime, Known
<1>5. CASE TerminateSlave
  <2>1. /\ RunCall("Terminate", {"Initialized"}, "Terminated")
        /\ UNCHANGED <<time, at>>
    BY <1>5 DEF TerminateSlave
  <2>2. slave = "Stepping"
    BY <2>1 DEF RunCall, KnownPhase
  <2>3. /\ slave \in SlaveExpects("Terminate")
        /\ SlaveMoves("Terminate", slave) = "Terminated"
    BY <2>2 DEF SlaveExpects, SlaveMoves
  <2>4. /\ alive' \in BOOLEAN /\ lastTime' = lastTime
        /\ slave' \in Phases /\ known' \in {"Terminated", "Error", "Fatal"}
        /\ KnownPhase'
    BY <2>1, <2>3, RunCallPhase DEF Known, Phases
  <2> QED BY <2>1, <2>4, TimesKept DEF Known
<1>6. ASSUME NEW method \in {"GetVariable", "SetVariable",
                             "SetRealInputDerivatives", "GetRealOutputDerivatives"},
             NEW from, RunCall(method, from, known), UNCHANGED <<time, at>>,
             slave \in SlaveExpects(method)
      PROVE  Inv'
  <2>1. SlaveMoves(method, slave) = slave
    BY <1>6 DEF SlaveMoves
  <2>2. /\ alive' \in BOOLEAN /\ lastTime' = lastTime
        /\ slave' \in Phases /\ known' \in {known, "Error", "Fatal"}
        /\ KnownPhase'
    BY <1>6, <2>1, RunCallPhase DEF KnownPhase
  <2> QED BY <1>6, <2>2, TimesKept DEF Known
<1>7. CASE GetVariable
  BY <1>6, <1>7 DEF GetVariable, RunCall, KnownPhase, SlaveExpects
<1>8. CASE SetVariable
  BY <1>6, <1>8 DEF SetVariable, RunCall, KnownPhase, SlaveExpects
<1>9. CASE UseDerivatives
  BY <1>6, <1>9 DEF UseDerivatives, RunCall, KnownPhase, SlaveExpects
<1>10. CASE \E end \in Times : DoStep(end)
  BY <1>10, DoStepInv
<1>11. CASE GetRealStatus
  BY <1>11 DEF GetRealStatus, KnownPhase, KnownTime
<1>12. CASE UNCHANGED vars
  BY <1>12 DEF vars, KnownPhase, KnownTime
<1> QED
  BY <1>1, <1>2, <1>3, <1>4, <1>5, <1>7, <1>8, <1>9, <1>10, <1>11, <1>12
     DEF Next

-----------------------------------------------------------------------------
(* The importer's two records agree with the slave's in every state.       *)
THEOREM InvHolds == Spec => []Inv
BY InitInv, NextInv, PTL DEF Spec

(* Every variable of the FMI 1.0 wrapper, its slave and its importer keeps *)
(* its type.                                                               *)
THEOREM TypesHold == Spec => []TypeOK
<1>1. Inv => TypeOK
  BY DEF Inv
<1> QED BY InvHolds, <1>1, PTL

(* An importer that goes by the statuses never calls the slave out of      *)
(* order, also after an initialisation that failed half way                *)
(* (fmiInitializeSlave, RunCall).                                          *)
THEOREM SlaveIsKnown == Spec => []ImporterKnowsTheSlave
<1>1. Inv => ImporterKnowsTheSlave
  BY DEF Inv, KnownPhase, ImporterKnowsTheSlave
<1> QED BY InvHolds, <1>1, PTL

(* The steps follow on each other without a gap or an overlap, whichever   *)
(* are discarded (fmiDoStep, fmiGetRealStatus).                            *)
THEOREM StepsFollow == Spec => []StepsAreContiguous
<1>1. Inv => StepsAreContiguous
  BY DEF Inv, KnownTime, StepsAreContiguous
<1> QED BY InvHolds, <1>1, PTL
=============================================================================
