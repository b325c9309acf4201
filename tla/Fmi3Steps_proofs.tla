--------------------------- MODULE Fmi3Steps_proofs ---------------------------
(***************************************************************************)
(* Proofs about the steps of the wrapper.  Intermediate updates, and the   *)
(* early returns asked for in them, lie in the step they belong to and not *)
(* before an update that has finished, for doubles as they compare: a step *)
(* may start at a NaN.  What fmi3DoStep returns is true of the instance,   *)
(* and a failed call in an update reaches the slave's code.  And whatever  *)
(* steps are taken, each instance follows the FMI 3.0 state graph.         *)
(***************************************************************************)
EXTENDS Fmi3Modes_proofs

(* One running DoStep.  Its last finished update is a number unless the    *)
(* step starts nowhere: that is what makes "not before" "at or after".     *)
InTime(f) ==
  /\ f.finished = NaN => f.start = NaN
  /\ f.update # Null =>
       /\ Leq(f.start, f.update.time)
       /\ Leq(f.finished, f.update.time)
       /\ Leq(f.update.time, f.end)
  /\ f.early # Null => Leq(f.start, f.early) /\ Leq(f.early, f.end)

StepTimesInv ==
  \A i \in Instances : stack[i] # <<>> => InTime(stack[i][1])

-----------------------------------------------------------------------------
LEMMA StackTypes ==
  ASSUME FullInv
  PROVE  /\ TypeInv /\ \A i \in Instances : InstanceInv(i)
         /\ stack \in [Instances -> Seq(Frame)]
         /\ \A i \in Instances : stack[i] # <<>> => Len(stack[i]) = 1
<1>1. TypeInv /\ \A i \in Instances : InstanceInv(i)
  BY DEF FullInv, OwnershipInv, ModeInv
<1> QED BY <1>1 DEF TypeInv, TypeOK, InstanceInv, Absent, AtRest, InStep

(* Only the stack of the instance a step is about changes, if any does.    *)
LEMMA OneStackChanges ==
  ASSUME FullInv, StepTimesInv, NEW i \in Instances, NEW s,
         stack' = [stack EXCEPT ![i] = s],
         s # <<>> => InTime(s[1])
  PROVE  StepTimesInv'
<1>1. stack \in [Instances -> Seq(Frame)]
  BY StackTypes
<1>2. stack'[i] = s /\ \A j \in Instances \ {i} : stack'[j] = stack[j]
  BY <1>1
<1> QED BY <1>2 DEF StepTimesInv, InTime

(* The frame of the running DoStep is replaced by f.                       *)
LEMMA FrameChanges ==
  ASSUME FullInv, StepTimesInv, NEW i \in Instances, stack[i] # <<>>,
         NEW f \in Frame, InTime(f),
         stack' = [stack EXCEPT ![i] = [@ EXCEPT ![Len(@)] = f]]
  PROVE  StepTimesInv'
<1>1. stack[i] \in Seq(Frame) /\ Len(stack[i]) = 1 /\ stack \in [Instances -> Seq(Frame)]
  BY StackTypes
<1>2. [stack[i] EXCEPT ![Len(stack[i])] = f][1] = f
  BY <1>1
<1>3. stack' = [stack EXCEPT ![i] = [stack[i] EXCEPT ![Len(stack[i])] = f]]
  BY <1>1
<1> QED BY <1>2, <1>3, OneStackChanges

(* A call that the callback makes marks the frame below but not its times. *)
Marks(i) ==
  \E call \in Calls, outcome \in Outcomes :
    /\ Served(i, call)
    /\ stack' = [stack EXCEPT ![i] = Marked(@, call, outcome)]

LEMMA MarksKeepTimes ==
  ASSUME FullInv, StepTimesInv, NEW i \in Instances, Marks(i)
  PROVE  StepTimesInv'
<1>1. PICK call \in Calls, outcome \in Outcomes :
        /\ Served(i, call)
        /\ stack' = [stack EXCEPT ![i] = Marked(@, call, outcome)]
  BY DEF Marks
<1>2. CASE stack[i] = <<>>
  BY <1>1, <1>2, OneStackChanges DEF Marked
<1>3. CASE stack[i] # <<>>
  <2> DEFINE wrote == call = "WriteVariable" /\ outcome = "ok"
             f == MarkedFrame(Top(i), call, outcome)
             u == MarkedUpdate(Top(i).update, wrote)
  <2>1. /\ Top(i) = stack[i][1] /\ Top(i) \in Frame
        /\ Top(i).update # Null /\ Top(i).update \in Update
    BY <1>1, <1>3, StackTypes, RunningFrame DEF Served, MayCall, Frame
  <2>2. u \in Update /\ u # Null /\ u.time = Top(i).update.time
    BY <2>1, ConstantsAssumption DEF MarkedUpdate, Update
  <2> HIDE DEF u
  <2>3. /\ f \in Frame /\ f.update = u /\ f.start = Top(i).start /\ f.end = Top(i).end
        /\ f.finished = Top(i).finished /\ f.early = Top(i).early
    BY <2>1, <2>2 DEF MarkedFrame, Frame, u
  <2>4. InTime(Top(i))
    BY <1>3, <2>1 DEF StepTimesInv
  <2>5. stack' = [stack EXCEPT ![i] = [@ EXCEPT ![Len(@)] = f]]
    BY <1>1, <1>3 DEF Marked, Top
  <2> HIDE DEF f
  <2>6. InTime(f)
    BY <2>1, <2>2, <2>3, <2>4 DEF InTime
  <2> QED BY <1>3, <2>3, <2>5, <2>6, FrameChanges
<1> QED BY <1>2, <1>3

LEMMA CallMarks ==
  ASSUME NEW i \in Instances, Call(i)
  PROVE  UNCHANGED stack \/ Marks(i)
<1>1. ASSUME NEW call \in Calls \ {"DoStep"}, Dispatch(i, call) PROVE Marks(i)
  BY <1>1, ResultTypes DEF Dispatch, RunLegalCall, Marks
<1>2. CASE RefuseCall(i)
  BY <1>2 DEF RefuseCall
<1>3. CASE ~RefuseCall(i)
  <2>1. \E call \in Calls \ {"DoStep"} : Dispatch(i, call)
    BY <1>3 DEF Call, ChangeMode, EnterStepMode, GetVariable, SetVariable,
         QueryDerivative, GetOutputDerivatives, EvaluateDiscreteStates,
         UpdateDiscreteStates, Calls
  <2> QED BY <1>1, <2>1
<1> QED BY <1>2, <1>3

LEMMA FMUStateCallMarks ==
  ASSUME NEW i \in Instances, FMUStateCall(i)
  PROVE  UNCHANGED stack \/ Marks(i)
<1>0. {"FmuStateRead", "FmuStateRestore", "SnapshotMemory"} \subseteq Calls \ {"DoStep"}
  BY DEF Calls
<1>1. ASSUME NEW call \in {"FmuStateRead", "SnapshotMemory"},
             NEW outcome \in Results(call), NEW next,
             RunLegalCall(i, call, outcome, next)
      PROVE  Marks(i)
  BY <1>0, <1>1, ResultTypes DEF RunLegalCall, Marks
<1>2. ASSUME NEW h \in Handles, SetFMUState(i, h) PROVE Marks(i)
  BY <1>0, <1>2, ResultTypes DEF SetFMUState, Marks
<1>3. ASSUME NEW h \in Handles,
             \/ \E c \in Cells : GetFMUState(i, h, c)
             \/ OverwriteFMUState(i, h)
      PROVE  Marks(i)
  BY <1>1, <1>3 DEF GetFMUState, OverwriteFMUState
<1>4. ASSUME NEW h \in Handles,
             \/ FreeFMUState(i, h)
             \/ SerializedFMUStateSize(i, h)
             \/ SerializeFMUState(i, h)
             \/ \E c \in Cells : DeserializeFMUState(i, h, c)
      PROVE  Marks(i)
  BY <1>1, <1>4 DEF FreeFMUState, SerializedFMUStateSize, Dispatch,
                    SerializeFMUState, DeserializeFMUState
<1>5. CASE RejectBytes(i)
  BY <1>5 DEF RejectBytes
<1> QED BY <1>2, <1>3, <1>4, <1>5 DEF FMUStateCall

-----------------------------------------------------------------------------
(* DoStep and its updates.                                                 *)

LEMMA BeginDoStepTimes ==
  ASSUME Polite, FullInv, StepTimesInv, NEW i \in Instances,
         NEW t \in Times \cup {NaN}, NEW end \in StepEnds(t), BeginDoStep(i, t, end)
  PROVE  StepTimesInv'
<1> DEFINE f == [start |-> t, end |-> end, finished |-> t, update |-> Null,
                 pending |-> "none", early |-> Null, hurt |-> FALSE]
<1>1. stack' = [stack EXCEPT ![i] = Append(stack[i], f)]
  BY DEF BeginDoStep
<1>2. InTime(f)
  BY DEF InTime
<1> HIDE DEF f
<1>3. Len(stack'[i]) = 1
  BY StackTypes, BeginDoStepInstance DEF InStep
<1>4. stack[i] \in Seq(Frame) /\ stack'[i] = Append(stack[i], f)
  BY <1>1, StackTypes
<1>5. Append(stack[i], f)[1] = f
  BY <1>3, <1>4
<1> QED BY <1>1, <1>2, <1>5, OneStackChanges

LEMMA SlaveCodeTimes ==
  ASSUME FullInv, StepTimesInv, NEW i \in Instances,
         RejectUpdate(i) \/ CatchException(i)
  PROVE  StepTimesInv'
<1>1. PICK p \in {"none", "logic"} :
        stack' = [stack EXCEPT ![i][Len(stack[i])].pending = p]
  BY DEF RejectUpdate, CatchException
<1>2. stack[i] # <<>>
  BY DEF RejectUpdate, CatchException, SlaveRuns
<1> DEFINE f == [Top(i) EXCEPT !.pending = p]
<1>3. Top(i) = stack[i][1] /\ Top(i) \in Frame
  BY <1>2, StackTypes, RunningFrame
<1>4. /\ f \in Frame /\ f.update = Top(i).update /\ f.early = Top(i).early
      /\ f.start = Top(i).start /\ f.end = Top(i).end /\ f.finished = Top(i).finished
  BY <1>3 DEF Frame
<1>5. stack' = [stack EXCEPT ![i] = [@ EXCEPT ![Len(@)] = f]]
  BY <1>1 DEF Top
<1> HIDE DEF f
<1>6. InTime(f)
  BY <1>2, <1>3, <1>4 DEF StepTimesInv, InTime
<1> QED BY <1>2, <1>4, <1>5, <1>6, FrameChanges

(* What UpdateRejected lets through, against the bounds kept in Component, *)
(* lies in the step.                                                       *)
LEMMA OpenUpdateTimes ==
  ASSUME FullInv, StepTimesInv, NEW i \in Instances,
         NEW u \in NewUpdates, OpenUpdate(i, u)
  PROVE  StepTimesInv'
<1> DEFINE f == [Top(i) EXCEPT !.update = u]
<1>1. /\ stack[i] # <<>> /\ ~UpdateRejected(i, u.time)
      /\ stack' = [stack EXCEPT ![i] = [@ EXCEPT ![Len(@)] = f]]
  BY DEF OpenUpdate, SlaveRuns, Top
<1>2. u \in Update /\ u.time \in Times \cup {NaN}
  BY DEF NewUpdates, Update
<1>3. InStep(i) /\ Top(i) = stack[i][1] /\ Top(i) \in Frame
  BY <1>1, StackTypes, RunningFrame
<1>4. /\ f \in Frame /\ f.update = u /\ f.early = Top(i).early
      /\ f.start = Top(i).start /\ f.end = Top(i).end /\ f.finished = Top(i).finished
  BY <1>2, <1>3 DEF Frame
<1> HIDE DEF f
<1>5. /\ scope[i].start = Top(i).start /\ scope[i].end = Top(i).end
      /\ scope[i].lastFinished = Top(i).finished
  BY <1>3 DEF InStep, TimesMirrored
<1>6. /\ Leq(Top(i).start, u.time) /\ Leq(u.time, Top(i).end)
      /\ ~Less(u.time, Top(i).finished)
  BY <1>1, <1>5 DEF UpdateRejected
<1>7. InTime(Top(i))
  BY <1>1, <1>3 DEF StepTimesInv
<1>8. Leq(Top(i).finished, u.time)
  <2>1. Top(i).finished # NaN /\ u.time # NaN
    BY <1>6, <1>7 DEF InTime, Leq
  <2>2. Top(i).finished \in Int /\ u.time \in Int
    BY <1>2, <1>3, <2>1 DEF Frame, Times
  <2> QED BY <1>6, <2>1, <2>2 DEF Leq, Less
<1>9. InTime(f)
  BY <1>4, <1>6, <1>7, <1>8 DEF InTime
<1> QED BY <1>1, <1>4, <1>9, FrameChanges

LEMMA CallbackReturnsTimes ==
  ASSUME FullInv, StepTimesInv, NEW i \in Instances,
         NEW request \in Times \cup {NaN, Null}, CallbackReturns(i, request)
  PROVE  StepTimesInv'
<1> DEFINE f == AfterUpdate(i, request)
           u == Top(i).update
           recorded == ~FailedInUpdate(i) /\ u.stepFinished
<1>1. /\ stack[i] # <<>> /\ u # Null
      /\ stack' = [stack EXCEPT ![i] = [@ EXCEPT ![Len(@)] = f]]
  BY DEF CallbackReturns
<1>2. InStep(i) /\ Top(i) = stack[i][1] /\ Top(i) \in Frame
  BY <1>1, StackTypes, RunningFrame
<1>3. u \in Update
  BY <1>1, <1>2 DEF Frame
<1>4. scope[i].start = Top(i).start /\ scope[i].end = Top(i).end
  BY <1>2 DEF InStep, TimesMirrored
<1>5. ~EarlyReturnRejected(i, request) =>
        request # NaN /\ Leq(Top(i).start, request) /\ Leq(request, Top(i).end)
  BY <1>4 DEF EarlyReturnRejected, Leq
<1>6. f \in Frame
  BY <1>2, <1>3, <1>5 DEF AfterUpdate, Frame, Update
<1>7. /\ f.update = Null /\ f.start = Top(i).start /\ f.end = Top(i).end
      /\ f.finished = IF recorded THEN u.time ELSE Top(i).finished
      /\ f.early # Null => f.early = request /\ ~EarlyReturnRejected(i, request)
  BY <1>2 DEF AfterUpdate, Frame
<1> HIDE DEF f
<1>8. InTime(Top(i))
  BY <1>1, <1>2 DEF StepTimesInv
<1>9. u.time # NaN
  BY <1>1, <1>8 DEF InTime, Leq
<1>10. f.finished = NaN => f.start = NaN
  BY <1>7, <1>8, <1>9 DEF InTime
<1>11. InTime(f)
  BY <1>5, <1>7, <1>10 DEF InTime
<1> QED BY <1>1, <1>6, <1>11, FrameChanges

LEMMA EndDoStepTimes ==
  ASSUME FullInv, StepTimesInv, NEW i \in Instances,
         NEW outcome \in StepOutcomes, EndDoStep(i, outcome)
  PROVE  StepTimesInv'
<1>1. stack' = [stack EXCEPT ![i] = Returned(stack[i], outcome)]
  BY DEF EndDoStep
<1>2. stack'[i] = <<>>
  BY StackTypes, EndDoStepInstance DEF AtRest
<1>3. Returned(stack[i], outcome) = <<>>
  BY <1>1, <1>2, StackTypes
<1> QED BY <1>1, <1>3, OneStackChanges

-----------------------------------------------------------------------------
LEMMA InitTimes == Init => StepTimesInv
BY DEF Init, StepTimesInv

LEMMA NextTimes ==
  ASSUME Polite, FullInv, StepTimesInv, [Next]_vars
  PROVE  StepTimesInv'
<1>1. ASSUME UNCHANGED stack PROVE StepTimesInv'
  BY <1>1 DEF StepTimesInv, InTime
<1>2. CASE UNCHANGED vars
  BY <1>1, <1>2 DEF vars
<1>3. ASSUME NEW i \in Instances,
             Manage(i) \/ Call(i) \/ FMUStateCall(i) \/ Stepping(i)
      PROVE  StepTimesInv'
  <2>1. CASE Manage(i)
    BY <1>1, <2>1 DEF Manage, InstantiateCoSimulation, FreeInstance
  <2>2. CASE Call(i) \/ FMUStateCall(i)
    BY <1>1, <2>2, CallMarks, FMUStateCallMarks, MarksKeepTimes
  <2>3. CASE Stepping(i)
    BY <2>3, BeginDoStepTimes, SlaveCodeTimes, OpenUpdateTimes,
       CallbackReturnsTimes, EndDoStepTimes DEF Stepping
  <2> QED BY <1>3, <2>1, <2>2, <2>3
<1> QED BY <1>2, <1>3 DEF Next

(* Every intermediate update, and every early return asked for in one,     *)
(* lies in the step it belongs to and not before an update that has        *)
(* finished, whatever comparisons NaNs take part in                        *)
(* (fmi3_functions.cpp, Component::IntermediateUpdate).                    *)
THEOREM UpdatesInTime ==
  ASSUME Polite
  PROVE  Spec => []UpdatesStayInTheirStep
<1>1. Init => StepTimesInv
  BY InitTimes
<1>2. FullInv /\ StepTimesInv /\ [Next]_vars => StepTimesInv'
  BY NextTimes
<1>3. FullInv /\ StepTimesInv => UpdatesStayInTheirStep
  <2> SUFFICES ASSUME FullInv, StepTimesInv, NEW i \in Instances,
                      NEW k \in 1..Len(stack[i])
               PROVE  InTime(stack[i][k])
    BY DEF UpdatesStayInTheirStep, InTime
  <2>1. stack[i] \in Seq(Frame) /\ (stack[i] # <<>> => Len(stack[i]) = 1)
    BY StackTypes
  <2>2. stack[i] # <<>>
    BY Len(<<>>) = 0
  <2>3. Len(stack[i]) = 1
    BY <2>1, <2>2
  <2>4. k = 1
    BY <2>3
  <2> QED BY <2>2, <2>4 DEF StepTimesInv
<1> QED BY <1>1, <1>2, <1>3, ModeInvariant, PTL DEF Spec

-----------------------------------------------------------------------------
(* What a single step of the program may not do.                           *)

LEMMA OtherStacksKept ==
  ASSUME Polite, FullInv, NEW i \in Instances, NEW j \in Instances \ {i},
         Manage(j) \/ Call(j) \/ FMUStateCall(j) \/ Stepping(j)
  PROVE  stack'[i] = stack[i]
<1>1. TypeInv /\ InstanceInv(j) /\ stack \in [Instances -> Seq(Frame)]
  BY StackTypes
<1>2. CASE Manage(j)
  BY <1>2 DEF Manage, InstantiateCoSimulation, FreeInstance
<1>3. CASE Call(j) \/ FMUStateCall(j)
  BY <1>1, <1>3, CallMarks, FMUStateCallMarks DEF Marks
<1>4. CASE Stepping(j)
  <2>1. OnlyTouches(j)
    BY <1>1, <1>4, BeginDoStepInstance, SlaveCodeInstance, OpenUpdateInstance,
       CallbackReturnsInstance, EndDoStepInstance DEF Stepping
  <2> QED BY <2>1 DEF OnlyTouches
<1> QED BY <1>2, <1>3, <1>4

LEMMA MarksKeepLength ==
  ASSUME FullInv, NEW i \in Instances, Marks(i)
  PROVE  Len(stack'[i]) = Len(stack[i])
<1>1. PICK call \in Calls, outcome \in Outcomes :
        /\ Served(i, call)
        /\ stack' = [stack EXCEPT ![i] = Marked(@, call, outcome)]
  BY DEF Marks
<1>2. stack[i] \in Seq(Frame) /\ stack'[i] = Marked(stack[i], call, outcome)
  BY <1>1, StackTypes
<1>3. CASE stack[i] = <<>>
  BY <1>2, <1>3 DEF Marked
<1>4. CASE stack[i] # <<>>
  <2> DEFINE f == MarkedFrame(Top(i), call, outcome)
  <2>1. Top(i) \in Frame /\ Top(i).update # Null
    BY <1>1, <1>4, StackTypes, RunningFrame DEF Served, MayCall
  <2>2. f \in Frame
    BY <2>1, MarkFrame
  <2>3. stack'[i] = [stack[i] EXCEPT ![Len(stack[i])] = f]
    BY <1>2, <1>4 DEF Marked, Top
  <2> HIDE DEF f
  <2> QED BY <1>2, <1>4, <2>2, <2>3, ReplaceTop
<1> QED BY <1>3, <1>4

(* The stack of an instance becomes shorter only where its DoStep returns. *)
LEMMA OnlyEndDoStepShortens ==
  ASSUME Polite, FullInv, [Next]_vars, NEW i \in Instances,
         Len(stack'[i]) < Len(stack[i])
  PROVE  \E outcome \in StepOutcomes : EndDoStep(i, outcome)
<1>1. TypeInv /\ InstanceInv(i) /\ stack[i] \in Seq(Frame)
  BY StackTypes
<1>2. Len(stack'[i]) # Len(stack[i]) /\ stack' # stack
  BY <1>1
<1>3. PICK j \in Instances : Manage(j) \/ Call(j) \/ FMUStateCall(j) \/ Stepping(j)
  BY <1>2 DEF Next, vars
<1>4. j = i
  BY <1>2, <1>3, OtherStacksKept
<1>5. Stepping(i)
  <2>1. ~Manage(i)
    BY <1>2 DEF Manage, InstantiateCoSimulation, FreeInstance
  <2>2. ~Call(i) /\ ~FMUStateCall(i)
    BY <1>2, CallMarks, FMUStateCallMarks, MarksKeepLength
  <2> QED BY <1>3, <1>4, <2>1, <2>2
<1>6. ~InStep(i)'
  <2>1. stack[i] # <<>>
    BY <1>1, <1>2, Len(stack[i]) = 0 <=> stack[i] = <<>>,
       StackTypes, BeginDoStepInstance, SlaveCodeInstance DEF InStep
  <2>2. Len(stack[i]) = 1
    BY <2>1, StackTypes
  <2> QED BY <1>2, <2>2 DEF InStep
<1> QED BY <1>1, <1>5, <1>6, BeginDoStepInstance, SlaveCodeInstance,
           OpenUpdateInstance, CallbackReturnsInstance DEF Stepping

(* The status that fmi3DoStep returns is the truth about the instance.     *)
THEOREM StatusIsTrue ==
  ASSUME Polite
  PROVE  Spec => StatusMatchesMode
<1>1. ASSUME FullInv, [Next]_vars, NEW i \in Instances,
             Len(stack'[i]) < Len(stack[i])
      PROVE  lc'[i].state = IF stepStatus'[i] \in {"OK", "Discard"} /\ ~Top(i).hurt
                              THEN "Step" ELSE "Failed"
  <2>1. PICK outcome \in StepOutcomes : EndDoStep(i, outcome)
    BY <1>1, OnlyEndDoStepShortens
  <2>2. stack[i] # <<>> /\ Top(i).update = Null /\ TypeInv /\ InstanceInv(i)
    BY <1>1, <2>1, StackTypes DEF EndDoStep, SlaveRuns
  <2>3. IF Top(i).hurt THEN lc[i].state = "Failed" ELSE lc[i].state = "Step"
    BY <2>2, RunningFrame DEF InStep, ModeMirrored, UpdateMirrored
  <2>4. /\ lc[i] \in LifecycleType /\ lc'[i] = AfterStep(lc[i], outcome)
        /\ stepStatus'[i] = StepStatus(outcome)
    BY <2>1, <2>2 DEF EndDoStep, TypeInv, TypeOK
  <2>5. CASE outcome \in StepFailures
    <3>1. lc'[i].state = "Failed"
      BY <2>4, <2>5 DEF AfterStep, Fail, LifecycleType
    <3>2. StepStatus(outcome) \in {"Fatal", "Error"}
      BY <2>5 DEF StepStatus, StepFailures, Failures
    <3> QED BY <2>4, <3>1, <3>2
  <2>6. CASE outcome \notin StepFailures
    <3>1. lc'[i] = lc[i]
      BY <2>4, <2>6 DEF AfterStep
    <3>2. StepStatus(outcome) \in {"OK", "Discard"}
      BY <2>6 DEF StepStatus, StepFailures, Failures, StepOutcomes, Outcomes
    <3> QED BY <2>3, <2>4, <3>1, <3>2
  <2> QED BY <2>5, <2>6
<1>2. FullInv /\ [Next]_vars =>
        \A i \in Instances :
          Len(stack'[i]) < Len(stack[i]) =>
            lc'[i].state =
              IF stepStatus'[i] \in {"OK", "Discard"} /\ ~Top(i).hurt
                THEN "Step" ELSE "Failed"
  BY <1>1
<1> QED BY <1>2, ModeInvariant, PTL DEF Spec, StatusMatchesMode

(* A call that failed the instance during an update makes that update      *)
(* throw into the slave's DoStep (README.md:52-53).                        *)
THEOREM FailuresReachSlave ==
  ASSUME Polite
  PROVE  Spec => FailureReachesSlave
<1>1. ASSUME FullInv, [Next]_vars, NEW i \in Instances,
             stack[i] # <<>>, Top(i).hurt, Top(i).update # Null,
             Len(stack'[i]) = Len(stack[i]), Top(i)'.update = Null
      PROVE  Top(i)'.pending = "error"
  <2>1. /\ TypeInv /\ InStep(i) /\ Len(stack[i]) = 1
        /\ Top(i) = stack[i][1] /\ Top(i) \in Frame
    BY <1>1, StackTypes, RunningFrame
  <2>2. lc[i].state = "Failed" /\ lc[i] \in LifecycleType
    BY <1>1, <2>1 DEF InStep, ModeMirrored, TypeInv, TypeOK
  <2>3. ~MayCall(i) /\ ~SlaveRuns(i)
    BY <1>1, <2>2 DEF MayCall, SlaveRuns, Polite
  <2>4. stack'[i] # stack[i]
    BY <1>1 DEF Top
  <2>5. PICK j \in Instances :
          Manage(j) \/ Call(j) \/ FMUStateCall(j) \/ Stepping(j)
    BY <1>1, <2>4 DEF Next, vars
  <2>6. j = i
    BY <1>1, <2>4, <2>5, OtherStacksKept
  <2>7. ~Manage(i) /\ ~Call(i) /\ ~FMUStateCall(i)
    BY <2>3, <2>4, CallMarks, FMUStateCallMarks
       DEF Manage, InstantiateCoSimulation, FreeInstance, Marks, Served
  <2>8. PICK request \in Times \cup {NaN, Null} : CallbackReturns(i, request)
    BY <2>3, <2>5, <2>6, <2>7
       DEF Stepping, BeginDoStep, Served, RejectUpdate, OpenUpdate,
           CatchException, EndDoStep
  <2> DEFINE f == AfterUpdate(i, request)
  <2>9. stack'[i] = [stack[i] EXCEPT ![1] = f] /\ stack[i] \in Seq(Frame)
    BY <2>1, <2>8 DEF CallbackReturns, TypeInv, TypeOK
  <2>10. FailedInUpdate(i)
    BY <2>2 DEF FailedInUpdate, LeaveIntermediateUpdate, LifecycleType
  <2>11. f.pending = "error"
    BY <2>1, <2>10 DEF AfterUpdate, Frame
  <2> HIDE DEF f
  <2>12. Len(stack'[i]) = 1 /\ stack'[i][1] = f
    BY <2>1, <2>9
  <2> QED BY <2>11, <2>12 DEF Top
<1>2. FullInv /\ [Next]_vars =>
        \A i \in Instances :
          stack[i] # <<>> /\ Top(i).hurt /\ Top(i).update # Null
            /\ Len(stack'[i]) = Len(stack[i]) /\ Top(i)'.update = Null
          => Top(i)'.pending = "error"
  BY <1>1
<1> QED BY <1>2, ModeInvariant, PTL DEF Spec, FailureReachesSlave

-----------------------------------------------------------------------------
(* The state graph.  A step of the wrapper changes the mode of at most one *)
(* instance; to which the graph allows, and which steps leave modes in FMU *)
(* states, is shown action by action.  All of it holds for an importer     *)
(* that calls on after a failure, with steps nested to any depth.          *)

Mode == [i \in Instances |-> IF i \in alive THEN lc[i].state ELSE "None"]

Saved ==
  {heap[c].mode : c \in {d \in Cells : heap[d] # Null}}
    \cup (IF buffer = Null THEN {} ELSE {ModeFromCode(buffer.code)})

(* Only an existing instance is in a DoStep, and only in a callback is it  *)
(* in Intermediate Update Mode: what leads out of that mode is then the    *)
(* callback's return or a failure.                                         *)
UpdateInv ==
  \A i \in Instances :
    /\ stack[i] # <<>> => i \in alive
    /\ lc[i].state = "IntermediateUpdate" => stack[i] # <<>> /\ Top(i).update # Null

GraphInv == OwnershipInv /\ UpdateInv

(* The moves of the graph that a call, or the end of one, can be.          *)
LEMMA GraphMoves ==
  ASSUME NEW i \in Instances
  PROVE  /\ Mode' = Mode /\ Saved' \subseteq Saved => Modes!Next
         /\ Mode' = Mode /\ Mode[i] \in Readable /\ Saved' \subseteq Saved \cup {Mode[i]}
              => Modes!Next
         /\ Mode[i] # "None" /\ Mode' = [Mode EXCEPT ![i] = "Failed"]
              /\ Saved' \subseteq Saved => Modes!Next
<1>1. Modes!Discard \/ Modes!Fail(i) \/ Modes!Save(i) => Modes!Next
  BY DEF Modes!Next
<1> QED BY <1>1 DEF Modes!Discard, Modes!Fail, Modes!Save, Mode, Saved, Modes!Modes,
                    Readable, Writable, Running

LEMMA GraphMovesOfModes ==
  ASSUME NEW i \in Instances, NEW m, Mode' = [Mode EXCEPT ![i] = m], Saved' = Saved,
         \/ Mode[i] = "None" /\ m = "Instantiated"
         \/ Mode[i] \notin {"None", "IntermediateUpdate"}
              /\ m \in {"None", "Instantiated"} \cup Saved
         \/ m \in Readable /\ <<Mode[i], m>> \in Modes!Forward
         \/ Mode[i] = "Step" /\ m = "IntermediateUpdate"
         \/ Mode[i] = "IntermediateUpdate" /\ m = "Step"
  PROVE  Modes!Next
<1>1. Modes!Move(i, m)
  BY DEF Modes!Move, Mode, Saved
<1>2. \/ Modes!Create(i) \/ Modes!Destroy(i) \/ Modes!Reset(i) \/ Modes!Restore(i)
      \/ Modes!Advance(i) \/ Modes!OpenUpdate(i) \/ Modes!CloseUpdate(i)
  <2>1. CASE Mode[i] = "None" /\ m = "Instantiated"
    BY <1>1, <2>1 DEF Modes!Create, Mode
  <2>2. CASE Mode[i] \notin {"None", "IntermediateUpdate"} /\ m = "None"
    BY <1>1, <2>2 DEF Modes!Destroy, Mode
  <2>3. CASE Mode[i] \notin {"None", "IntermediateUpdate"} /\ m = "Instantiated"
    BY <1>1, <2>3 DEF Modes!Reset, Mode
  <2>4. CASE Mode[i] \notin {"None", "IntermediateUpdate"} /\ m \in Saved
    BY <1>1, <2>4 DEF Modes!Restore, Mode, Saved
  <2>5. CASE m \in Readable /\ <<Mode[i], m>> \in Modes!Forward
    BY <1>1, <2>5 DEF Modes!Advance, Modes!Modes, Mode, Readable, Writable, Running
  <2>6. CASE Mode[i] = "Step" /\ m = "IntermediateUpdate"
    BY <1>1, <2>6 DEF Modes!OpenUpdate, Mode
  <2>7. CASE Mode[i] = "IntermediateUpdate" /\ m = "Step"
    BY <1>1, <2>7 DEF Modes!CloseUpdate, Mode
  <2> QED BY <2>1, <2>2, <2>3, <2>4, <2>5, <2>6, <2>7
<1> QED BY <1>2 DEF Modes!Next

-----------------------------------------------------------------------------
(* What a step does to the modes.                                          *)

LEMMA GraphTypes ==
  ASSUME GraphInv
  PROVE  /\ TypeInv /\ TypeOK /\ HandlesOwnStates /\ UpdateInv
         /\ lc \in [Instances -> LifecycleType] /\ alive \subseteq Instances
         /\ stack \in [Instances -> Seq(Frame)]
         /\ heap \in [Cells -> Snapshot \cup {Null}]
         /\ handle \in [Handles -> Cells \cup {Null}]
         /\ buffer \in Buffer \cup {Null}
BY DEF GraphInv, OwnershipInv, TypeInv, TypeOK

LEMMA ModeOf ==
  ASSUME GraphInv, NEW i \in alive
  PROVE  Mode[i] = lc[i].state /\ Mode[i] # "None"
<1>1. i \in Instances /\ lc[i].state \in States
  BY GraphTypes DEF LifecycleType
<1> QED BY <1>1 DEF Mode, States

LEMMA ModeBecomes ==
  ASSUME NEW i \in Instances, NEW m,
         IF i \in alive' THEN lc'[i].state = m ELSE m = "None",
         \A j \in Instances \ {i} : lc'[j] = lc[j] /\ (j \in alive' <=> j \in alive)
  PROVE  /\ Mode' = [Mode EXCEPT ![i] = m]
         /\ m = Mode[i] => Mode' = Mode
BY DEF Mode

LEMMA SavedWithin ==
  ASSUME NEW S, heap' \in [Cells -> Snapshot \cup {Null}],
         \A c \in Cells : heap'[c] # Null => heap'[c].mode \in S,
         buffer' # Null => ModeFromCode(buffer'.code) \in S
  PROVE  Saved' \subseteq S
BY DEF Saved

LEMMA SavedHolds ==
  /\ \A c \in Cells : heap[c] # Null => heap[c].mode \in Saved
  /\ buffer # Null => ModeFromCode(buffer.code) \in Saved
BY DEF Saved

LEMMA SavedKept == UNCHANGED <<heap, buffer>> => Saved' = Saved
BY DEF Saved

(* How a call on the slave moves the mode, if it does.                     *)
LEMMA CompletedModes ==
  ASSUME NEW l \in LifecycleType, NEW call \in Calls \ {"DoStep"},
         NEW outcome \in Outcomes, Allows(l, call)
  PROVE  LET m == Completed(l, call, outcome).state IN
         /\ outcome \in Failures => m = "Failed"
         /\ outcome \notin Failures =>
              \/ m = l.state
              \/ m \in Readable /\ <<l.state, m>> \in Modes!Forward
              \/ m = "Instantiated" /\ l.state # "IntermediateUpdate"
         /\ outcome \notin Failures
              /\ call \in {"FmuStateRead", "FmuStateRestore", "SnapshotMemory"}
            => m = l.state
         /\ m = "IntermediateUpdate" => l.state = "IntermediateUpdate"
<1>1. CASE outcome \in Failures
  BY <1>1 DEF Completed, Failures, Fail, LifecycleType
<1>2. CASE outcome = "ok"
  <2>1. Completed(l, call, outcome) = OnSuccess(l, call)
    BY <1>2 DEF Completed, Failures
  <2>2. CASE l.state = "IntermediateUpdate"
    BY <1>2, <2>1, <2>2 DEF OnSuccess, LifecycleType, Failures
  <2>3. CASE l.state # "IntermediateUpdate"
    <3>1. OnSuccess(l, call).state =
            IF call = "ExitInitialization" /\ l.eventModeUsed
              THEN "Event" ELSE Transition(call, l.state)
      BY <2>3 DEF OnSuccess, LifecycleType
    <3>2. CASE call \in {"EnterInitialization", "ExitInitialization",
                         "EnterEventMode", "EnterStepMode", "Terminate", "Reset"}
      BY <1>2, <2>1, <2>3, <3>1, <3>2
         DEF Allows, LegalStates, Transition, Modes!Forward, Failures,
             Readable, Writable, Running
    <3>3. CASE call \notin {"EnterInitialization", "ExitInitialization",
                            "EnterEventMode", "EnterStepMode", "Terminate", "Reset"}
      BY <1>2, <2>1, <3>1, <3>3 DEF Transition, Failures
    <3> QED BY <3>2, <3>3
  <2> QED BY <2>2, <2>3
<1>3. CASE outcome \notin Failures \cup {"ok"}
  BY <1>3 DEF Completed
<1> QED BY <1>1, <1>2, <1>3

-----------------------------------------------------------------------------
(* Calls.                                                                  *)

(* Everything that a served call does but for FMU states.                  *)
Calling(i, call, outcome) ==
  /\ Served(i, call)
  /\ lc' = [lc EXCEPT ![i] = Completed(@, call, outcome)]
  /\ stack' = [stack EXCEPT ![i] = Marked(@, call, outcome)]
  /\ UNCHANGED alive

LEMMA CallsOnSlave ==
  ASSUME NEW i, NEW call, NEW outcome, NEW next, RunLegalCall(i, call, outcome, next)
  PROVE  Calling(i, call, outcome)
BY DEF RunLegalCall, Calling

LEMMA MarkedTop ==
  ASSUME GraphInv, NEW i \in Instances, MayCall(i), NEW call, NEW outcome,
         stack' = [stack EXCEPT ![i] = Marked(@, call, outcome)]
  PROVE  /\ stack[i] # <<>> => stack'[i] # <<>> /\ Top(i)'.update # Null
         /\ stack'[i] # <<>> => i \in alive
         /\ \A j \in Instances \ {i} : stack'[j] = stack[j]
<1>1. /\ stack[i] \in Seq(Frame) /\ stack'[i] = Marked(stack[i], call, outcome)
      /\ \A j \in Instances \ {i} : stack'[j] = stack[j]
  BY GraphTypes
<1>2. ASSUME stack[i] # <<>>
      PROVE  stack'[i] # <<>> /\ Top(i)'.update # Null
  <2> DEFINE f == MarkedFrame(Top(i), call, outcome)
  <2>1. Len(stack[i]) \in Nat \ {0} /\ Top(i) \in Frame /\ Top(i).update # Null
    BY <1>1, <1>2, TopFrame DEF Top, MayCall
  <2>2. f \in Frame /\ f.update # Null
    BY <2>1, MarkFrame
  <2>3. stack'[i] = [stack[i] EXCEPT ![Len(stack[i])] = f]
    BY <1>1, <1>2 DEF Marked, Top
  <2> HIDE DEF f
  <2>4. Len(stack'[i]) = Len(stack[i]) /\ stack'[i][Len(stack[i])] = f
    BY <1>1, <1>2, <2>1, <2>2, <2>3, ReplaceTop
  <2> QED BY <2>1, <2>2, <2>4 DEF Top
<1> QED BY <1>1, <1>2 DEF MayCall

(* A call leaves the instance in Intermediate Update Mode only inside the  *)
(* callback it was made from.                                              *)
LEMMA CallKeepsUpdates ==
  ASSUME GraphInv, NEW i \in Instances, MayCall(i), NEW call, NEW outcome, NEW l,
         lc' = [lc EXCEPT ![i] = l],
         l.state = "IntermediateUpdate" => lc[i].state = "IntermediateUpdate",
         stack' = [stack EXCEPT ![i] = Marked(@, call, outcome)], UNCHANGED alive
  PROVE  UpdateInv'
<1>1. /\ lc'[i] = l /\ \A j \in Instances \ {i} : lc'[j] = lc[j]
      /\ UpdateInv /\ i \in alive
  BY GraphTypes DEF MayCall
<1>2. /\ stack[i] # <<>> => stack'[i] # <<>> /\ Top(i)'.update # Null
      /\ \A j \in Instances \ {i} : stack'[j] = stack[j]
  BY MarkedTop
<1>3. \A j \in Instances \ {i} : stack'[j] = stack[j] => Top(j)' = Top(j)
  BY DEF Top
<1> QED BY <1>1, <1>2, <1>3 DEF UpdateInv

LEMMA CallingFollows ==
  ASSUME GraphInv, NEW i \in Instances, NEW call \in Calls \ {"DoStep"},
         NEW outcome \in Outcomes, Calling(i, call, outcome)
  PROVE  /\ UpdateInv'
         /\ i \in alive /\ Mode[i] = lc[i].state /\ Mode[i] # "None"
         /\ outcome \in Failures => Mode' = [Mode EXCEPT ![i] = "Failed"]
         /\ outcome \notin Failures
              /\ call \in {"FmuStateRead", "FmuStateRestore", "SnapshotMemory"}
            => Mode' = Mode
         /\ UNCHANGED <<heap, buffer>> => Modes!Next
<1> DEFINE l == Completed(lc[i], call, outcome)
<1>1. /\ MayCall(i) /\ Allows(lc[i], call) /\ i \in alive /\ lc[i] \in LifecycleType
      /\ lc' = [lc EXCEPT ![i] = l] /\ UNCHANGED alive
      /\ stack' = [stack EXCEPT ![i] = Marked(@, call, outcome)]
  BY GraphTypes DEF Calling, Served, MayCall
<1>2. /\ outcome \in Failures => l.state = "Failed"
      /\ outcome \notin Failures =>
           \/ l.state = lc[i].state
           \/ l.state \in Readable /\ <<lc[i].state, l.state>> \in Modes!Forward
           \/ l.state = "Instantiated" /\ lc[i].state # "IntermediateUpdate"
      /\ outcome \notin Failures
           /\ call \in {"FmuStateRead", "FmuStateRestore", "SnapshotMemory"}
         => l.state = lc[i].state
      /\ l.state = "IntermediateUpdate" => lc[i].state = "IntermediateUpdate"
  BY <1>1, CompletedModes
<1> HIDE DEF l
<1>3. UpdateInv'
  BY <1>1, <1>2, CallKeepsUpdates
<1>4. /\ Mode' = [Mode EXCEPT ![i] = l.state]
      /\ l.state = lc[i].state => Mode' = Mode
      /\ Mode[i] = lc[i].state /\ Mode[i] # "None"
  <2>1. lc'[i] = l /\ \A j \in Instances \ {i} : lc'[j] = lc[j]
    BY <1>1, GraphTypes
  <2>2. Mode[i] = lc[i].state /\ Mode[i] # "None"
    BY <1>1, ModeOf
  <2> QED BY <1>1, <2>1, <2>2, ModeBecomes
<1>5. ASSUME UNCHANGED <<heap, buffer>> PROVE Modes!Next
  <2>1. Saved' = Saved
    BY <1>5, SavedKept
  <2>2. CASE outcome \in Failures
    BY <1>2, <1>4, <2>1, <2>2, GraphMoves
  <2>3. CASE outcome \notin Failures /\ l.state = lc[i].state
    BY <1>4, <2>1, <2>3, GraphMoves
  <2>4. CASE outcome \notin Failures /\ l.state # lc[i].state
    <3>1. \/ l.state \in Readable /\ <<Mode[i], l.state>> \in Modes!Forward
          \/ /\ Mode[i] \notin {"None", "IntermediateUpdate"}
             /\ l.state \in {"None", "Instantiated"} \cup Saved
      BY <1>2, <1>4, <2>4
    <3> QED BY <1>4, <2>1, <3>1, GraphMovesOfModes
  <2> QED BY <2>2, <2>3, <2>4
<1> QED BY <1>1, <1>2, <1>3, <1>4, <1>5

LEMMA CallFollows ==
  ASSUME GraphInv, NEW i \in Instances, Call(i)
  PROVE  UpdateInv' /\ Modes!Next
<1>1. CASE RefuseCall(i)
  <2>1. UNCHANGED <<alive, lc, stack, heap, buffer>>
    BY <1>1 DEF RefuseCall
  <2>2. Mode' = Mode /\ Saved' = Saved /\ UpdateInv'
    BY <2>1, SavedKept, GraphTypes DEF Mode, UpdateInv, Top
  <2> QED BY <2>2, GraphMoves
<1>2. ASSUME NEW call \in Calls \ {"DoStep"}, Dispatch(i, call)
      PROVE  UpdateInv' /\ Modes!Next
  <2>1. PICK outcome \in Outcomes : Calling(i, call, outcome)
    BY <1>2, ResultTypes, CallsOnSlave DEF Dispatch
  <2> QED BY <1>2, <2>1, CallingFollows DEF Dispatch, snapshotVars
<1>3. RefuseCall(i) \/ \E call \in Calls \ {"DoStep"} : Dispatch(i, call)
  BY DEF Call, ChangeMode, EnterStepMode, GetVariable, SetVariable,
         QueryDerivative, GetOutputDerivatives, EvaluateDiscreteStates,
         UpdateDiscreteStates, Calls
<1> QED BY <1>1, <1>2, <1>3

LEMMA ManageFollows ==
  ASSUME GraphInv, NEW i \in Instances, Manage(i)
  PROVE  UpdateInv' /\ Modes!Next
<1>1. /\ lc \in [Instances -> LifecycleType] /\ alive \subseteq Instances
      /\ UpdateInv /\ Saved' = Saved /\ UNCHANGED stack
  BY GraphTypes, SavedKept DEF Manage, InstantiateCoSimulation, FreeInstance
<1>2. ASSUME NEW e, NEW callback, InstantiateCoSimulation(i, e, callback)
      PROVE  UpdateInv' /\ Modes!Next
  <2>1. /\ i \notin alive /\ alive' = alive \cup {i}
        /\ lc' = [lc EXCEPT ![i] = NewLifecycle(e)]
    BY <1>2 DEF InstantiateCoSimulation
  <2>2. /\ lc'[i].state = "Instantiated"
        /\ \A j \in Instances \ {i} : lc'[j] = lc[j] /\ (j \in alive' <=> j \in alive)
    BY <1>1, <2>1 DEF NewLifecycle
  <2>3. UpdateInv'
    BY <1>1, <2>1, <2>2 DEF UpdateInv, Top
  <2>4. Mode[i] = "None" /\ Mode' = [Mode EXCEPT ![i] = "Instantiated"]
    BY <2>1, <2>2, ModeBecomes DEF Mode
  <2> QED BY <1>1, <2>3, <2>4, GraphMovesOfModes
<1>3. ASSUME FreeInstance(i) PROVE UpdateInv' /\ Modes!Next
  <2>1. /\ i \in alive /\ alive' = alive \ {i} /\ stack[i] = <<>>
        /\ lc' = [lc EXCEPT ![i] = NewLifecycle(FALSE)]
    BY <1>3 DEF FreeInstance
  <2>2. /\ lc'[i].state = "Instantiated"
        /\ \A j \in Instances \ {i} : lc'[j] = lc[j] /\ (j \in alive' <=> j \in alive)
    BY <1>1, <2>1 DEF NewLifecycle
  <2>3. UpdateInv'
    BY <1>1, <2>1, <2>2 DEF UpdateInv, Top
  <2>4. Mode[i] \notin {"None", "IntermediateUpdate"}
    BY <1>1, <2>1, ModeOf DEF UpdateInv
  <2>5. Mode' = [Mode EXCEPT ![i] = "None"]
    BY <2>1, <2>2, ModeBecomes
  <2> QED BY <1>1, <2>3, <2>4, <2>5, GraphMovesOfModes
<1> QED BY <1>2, <1>3 DEF Manage

-----------------------------------------------------------------------------
(* FMU states: the mode moves only where the call fails or restores one,   *)
(* and only a state that is taken records a mode that no other had.        *)

LEMMA StateCallFollows ==
  ASSUME GraphInv, NEW i \in Instances, NEW call \in {"FmuStateRead", "SnapshotMemory"},
         NEW outcome \in Outcomes, Calling(i, call, outcome),
         \/ Saved' \subseteq Saved
         \/ /\ call = "FmuStateRead" /\ outcome = "ok"
            /\ Saved' \subseteq Saved \cup {lc[i].state}
  PROVE  UpdateInv' /\ Modes!Next
<1>1. call \in Calls \ {"DoStep"}
  BY DEF Calls
<1>2. /\ UpdateInv' /\ Mode[i] = lc[i].state /\ Mode[i] # "None"
      /\ outcome \in Failures => Mode' = [Mode EXCEPT ![i] = "Failed"]
      /\ outcome \notin Failures => Mode' = Mode
  BY <1>1, CallingFollows
<1>3. CASE Saved' \subseteq Saved
  BY <1>2, <1>3, GraphMoves
<1>4. CASE /\ call = "FmuStateRead" /\ outcome = "ok"
           /\ Saved' \subseteq Saved \cup {lc[i].state}
  <2>1. Mode[i] \in Readable
    BY <1>2, <1>4 DEF Calling, Served, Allows, LegalStates
  <2>2. Mode' = Mode
    BY <1>2, <1>4 DEF Failures
  <2> QED BY <1>2, <1>4, <2>1, <2>2, GraphMoves
<1> QED BY <1>2, <1>3, <1>4

LEMMA TakeFollows ==
  ASSUME GraphInv, OwnershipInv', NEW i \in Instances, NEW h \in Handles,
         (\E c \in Cells : GetFMUState(i, h, c)) \/ OverwriteFMUState(i, h)
  PROVE  UpdateInv' /\ Modes!Next
<1>1. /\ heap \in [Cells -> Snapshot \cup {Null}]
      /\ heap' \in [Cells -> Snapshot \cup {Null}]
  BY GraphTypes DEF OwnershipInv, TypeInv, TypeOK
<1>2. PICK outcome \in Outcomes, c \in Cells \cup {Null} :
        /\ Calling(i, "FmuStateRead", outcome) /\ UNCHANGED buffer
        /\ outcome = "ok" => heap' = [heap EXCEPT ![c] = TakenNow(i)]
        /\ outcome # "ok" => heap' = heap
  <2>1. ASSUME NEW c \in Cells, GetFMUState(i, h, c)
        PROVE  \E outcome \in Outcomes :
                 /\ Calling(i, "FmuStateRead", outcome) /\ UNCHANGED buffer
                 /\ outcome = "ok" => heap' = [heap EXCEPT ![c] = TakenNow(i)]
                 /\ outcome # "ok" => heap' = heap
    BY <2>1, ResultTypes, CallsOnSlave DEF GetFMUState, Calls
  <2>2. ASSUME OverwriteFMUState(i, h)
        PROVE  \E outcome \in Outcomes :
                 /\ Calling(i, "FmuStateRead", outcome) /\ UNCHANGED buffer
                 /\ outcome = "ok" => heap' = [heap EXCEPT ![handle[h]] = TakenNow(i)]
                 /\ outcome # "ok" => heap' = heap
    <3>1. PICK outcome \in Outcomes :
            /\ Calling(i, "FmuStateRead", outcome) /\ UNCHANGED buffer
            /\ heap' = [heap EXCEPT ![handle[h]] = Overwritten(i, @, outcome)]
      BY <2>2, ResultTypes, CallsOnSlave DEF OverwriteFMUState, Calls
    <3>2. outcome # "ok" => heap' = heap
      BY <1>1, <3>1 DEF Overwritten
    <3>3. outcome = "ok" => heap' = [heap EXCEPT ![handle[h]] = TakenNow(i)]
      BY <3>1 DEF Overwritten
    <3> QED BY <3>1, <3>2, <3>3
  <2>3. handle[h] \in Cells \cup {Null}
    BY GraphTypes
  <2> QED BY <2>1, <2>2, <2>3
<1>3. CASE outcome # "ok"
  <2>1. Saved' \subseteq Saved
    BY <1>2, <1>3, SavedKept
  <2> QED BY <1>2, <2>1, StateCallFollows
<1>4. CASE outcome = "ok"
  <2>1. \A d \in Cells : heap'[d] = heap[d] \/ heap'[d].mode = lc[i].state
    BY <1>1, <1>2, <1>4 DEF TakenNow
  <2> DEFINE S == Saved \cup {lc[i].state}
  <2>2. /\ \A d \in Cells : heap'[d] # Null => heap'[d].mode \in S
        /\ buffer' # Null => ModeFromCode(buffer'.code) \in S
    BY <1>2, <2>1, SavedHolds
  <2> HIDE DEF S
  <2>3. Saved' \subseteq S
    BY <1>1, <2>2, SavedWithin
  <2> QED BY <1>2, <1>4, <2>3, StateCallFollows DEF S
<1> QED BY <1>3, <1>4

LEMMA RestoreFollows ==
  ASSUME GraphInv, NEW i \in Instances, NEW h \in Handles, SetFMUState(i, h)
  PROVE  UpdateInv' /\ Modes!Next
<1> DEFINE saved == heap[handle[h]].mode
<1>1. PICK outcome \in Outcomes :
        /\ lc' = [lc EXCEPT ![i] = Restored(@, saved, outcome)]
        /\ stack' = [stack EXCEPT ![i] = Marked(@, "FmuStateRestore", outcome)]
  BY ResultTypes DEF SetFMUState
<1>2. /\ Served(i, "FmuStateRestore") /\ MayCall(i) /\ i \in alive
      /\ "FmuStateRestore" \in Calls \ {"DoStep"} /\ UNCHANGED <<alive, heap, buffer>>
      /\ lc[i] \in LifecycleType /\ lc[i].state # "IntermediateUpdate"
  BY GraphTypes DEF SetFMUState, Served, MayCall, Calls, Allows, LegalStates, Readable,
                    Writable, Running
<1>3. saved \in Readable /\ saved \in Saved
  <2>1. handle[h] \in Cells /\ heap[handle[h]] # Null
    BY GraphTypes DEF SetFMUState, Owns, HandlesOwnStates
  <2> QED BY <2>1, GraphTypes, SavedHolds DEF Snapshot
<1> HIDE DEF saved
<1>4. CASE outcome # "ok"
  <2>1. Calling(i, "FmuStateRestore", outcome)
    BY <1>1, <1>2, <1>4 DEF Calling, Restored
  <2> QED BY <1>2, <2>1, CallingFollows
<1>5. CASE outcome = "ok"
  <2> DEFINE l == Restored(lc[i], saved, outcome)
  <2>1. l.state = saved
    <3>1. Completed(lc[i], "FmuStateRestore", outcome) \in LifecycleType
      BY <1>2, LifecycleTypes
    <3> QED BY <1>3, <1>5, <3>1
            DEF Restored, RestoreFromSnapshot, IsSnapshotMode, LegalStates, LifecycleType
  <2>2. /\ lc' = [lc EXCEPT ![i] = l]
        /\ lc'[i] = l /\ \A j \in Instances \ {i} : lc'[j] = lc[j]
    BY <1>1, GraphTypes
  <2> HIDE DEF l
  <2>3. l.state # "IntermediateUpdate"
    BY <1>3, <2>1, ModesAreModes
  <2>4. UpdateInv'
    BY <1>1, <1>2, <2>2, <2>3, CallKeepsUpdates
  <2>5. Mode' = [Mode EXCEPT ![i] = saved]
    BY <1>2, <2>1, <2>2, ModeBecomes
  <2>6. Mode[i] \notin {"None", "IntermediateUpdate"}
    BY <1>2, ModeOf
  <2> QED BY <1>2, <1>3, <2>4, <2>5, <2>6, SavedKept, GraphMovesOfModes
<1> QED BY <1>4, <1>5

LEMMA MemoryFollows ==
  ASSUME GraphInv, OwnershipInv', NEW i \in Instances, NEW h \in Handles,
         \/ FreeFMUState(i, h) \/ SerializedFMUStateSize(i, h) \/ SerializeFMUState(i, h)
         \/ \E c \in Cells : DeserializeFMUState(i, h, c)
  PROVE  UpdateInv' /\ Modes!Next
<1>1. /\ heap \in [Cells -> Snapshot \cup {Null}]
      /\ heap' \in [Cells -> Snapshot \cup {Null}]
      /\ Owns(i, h) => handle[h] \in Cells /\ heap[handle[h]] \in Snapshot
  BY GraphTypes DEF OwnershipInv, TypeInv, TypeOK, Owns, HandlesOwnStates
<1>2. /\ \E outcome \in Outcomes : Calling(i, "SnapshotMemory", outcome)
      /\ \A c \in Cells : heap'[c] # Null => heap'[c].mode \in Saved
      /\ buffer' # Null => ModeFromCode(buffer'.code) \in Saved
  <2>1. CASE FreeFMUState(i, h)
    <3>1. PICK outcome \in Outcomes :
            /\ Calling(i, "SnapshotMemory", outcome) /\ UNCHANGED buffer
            /\ heap' = IF outcome = "ok" THEN [heap EXCEPT ![handle[h]] = Null] ELSE heap
      BY <2>1, ResultTypes, CallsOnSlave DEF FreeFMUState, Calls
    <3>2. \A c \in Cells : heap'[c] = heap[c] \/ heap'[c] = Null
      BY <1>1, <3>1
    <3> QED BY <3>1, <3>2, SavedHolds
  <2>2. CASE SerializedFMUStateSize(i, h)
    BY <2>2, ResultTypes, CallsOnSlave, SavedHolds
       DEF SerializedFMUStateSize, Dispatch, Calls, snapshotVars
  <2>3. CASE SerializeFMUState(i, h)
    <3>1. PICK outcome \in Outcomes :
            /\ Calling(i, "SnapshotMemory", outcome) /\ UNCHANGED heap
            /\ buffer' = IF outcome = "ok"
                           THEN [code |-> ModeCode(heap[handle[h]].mode),
                                 slave |-> heap[handle[h]].slave]
                           ELSE Null
      BY <2>3, ResultTypes, CallsOnSlave DEF SerializeFMUState, Calls
    <3>2. ModeFromCode(ModeCode(heap[handle[h]].mode)) = heap[handle[h]].mode
      BY <1>1, <2>3, CodesAreInverse DEF SerializeFMUState, Snapshot
    <3>3. heap[handle[h]].mode \in Saved
      BY <1>1, <2>3, SavedHolds, ConstantsAssumption DEF SerializeFMUState
    <3> QED BY <3>1, <3>2, <3>3, SavedHolds
  <2>4. CASE \E c \in Cells : DeserializeFMUState(i, h, c)
    <3>1. PICK c \in Cells : DeserializeFMUState(i, h, c)
      BY <2>4
    <3>2. PICK outcome \in Outcomes :
            /\ Calling(i, "SnapshotMemory", outcome) /\ UNCHANGED buffer
            /\ heap' = IF outcome = "ok"
                         THEN [heap EXCEPT ![c] =
                                 [owner |-> i, mode |-> ModeFromCode(buffer.code),
                                  slave |-> buffer.slave]]
                         ELSE heap
      BY <3>1, ResultTypes, CallsOnSlave DEF DeserializeFMUState, Calls
    <3>3. \A d \in Cells :
            heap'[d] = heap[d] \/ heap'[d].mode = ModeFromCode(buffer.code)
      BY <1>1, <3>2
    <3> QED BY <3>1, <3>2, <3>3, SavedHolds DEF DeserializeFMUState
  <2> QED BY <2>1, <2>2, <2>3, <2>4
<1>3. Saved' \subseteq Saved
  BY <1>1, <1>2, SavedWithin
<1> QED BY <1>2, <1>3, StateCallFollows

LEMMA FMUStateCallFollows ==
  ASSUME GraphInv, OwnershipInv', NEW i \in Instances, FMUStateCall(i)
  PROVE  UpdateInv' /\ Modes!Next
<1>1. CASE RejectBytes(i)
  <2>1. /\ lc' = [lc EXCEPT ![i] = lc[i]]
        /\ UNCHANGED <<alive, stack, heap, buffer>>
    BY <1>1 DEF RejectBytes, Completed, Failures
  <2>2. lc' = lc
    BY <2>1, GraphTypes
  <2>3. Mode' = Mode /\ Saved' = Saved /\ UpdateInv'
    BY <2>1, <2>2, SavedKept, GraphTypes DEF Mode, UpdateInv, Top
  <2> QED BY <2>3, GraphMoves
<1>2. CASE ~RejectBytes(i)
  BY <1>2, TakeFollows, RestoreFollows, MemoryFollows DEF FMUStateCall
<1> QED BY <1>1, <1>2

-----------------------------------------------------------------------------
(* Steps and their updates.                                                *)

(* What a step inside DoStep, or the beginning or end of one, has to do    *)
(* to the stack of its instance.                                           *)
LEMMA StepKeepsUpdates ==
  ASSUME GraphInv, NEW i \in alive, UNCHANGED alive,
         \A j \in Instances \ {i} : lc'[j] = lc[j] /\ stack'[j] = stack[j],
         lc'[i].state = "IntermediateUpdate" =>
           stack'[i] # <<>> /\ Top(i)'.update # Null
  PROVE  UpdateInv'
BY GraphTypes DEF UpdateInv, Top

LEMMA BeginDoStepFollows ==
  ASSUME GraphInv, NEW i \in Instances, NEW t, NEW end, BeginDoStep(i, t, end)
  PROVE  UpdateInv' /\ Modes!Next
<1>1. /\ i \in alive /\ UNCHANGED <<alive, lc, heap, buffer>>
      /\ lc[i].state = "Step" /\ \A j \in Instances \ {i} : stack'[j] = stack[j]
  BY GraphTypes DEF BeginDoStep, Served, MayCall, Allows, LegalStates
<1>2. Mode' = Mode /\ Saved' = Saved
  BY <1>1, SavedKept DEF Mode
<1> QED BY <1>1, <1>2, StepKeepsUpdates, GraphMoves

LEMMA SlaveRunsFacts ==
  ASSUME GraphInv, NEW i \in Instances, SlaveRuns(i)
  PROVE  i \in alive /\ lc[i].state # "IntermediateUpdate"
BY GraphTypes DEF SlaveRuns, UpdateInv

LEMMA SlaveCodeFollows ==
  ASSUME GraphInv, NEW i \in Instances, RejectUpdate(i) \/ CatchException(i)
  PROVE  UpdateInv' /\ Modes!Next
<1>1. PICK p :
        /\ SlaveRuns(i) /\ UNCHANGED <<alive, lc, heap, buffer>>
        /\ stack' = [stack EXCEPT ![i][Len(stack[i])].pending = p]
  BY DEF RejectUpdate, CatchException
<1>2. i \in alive /\ lc[i].state # "IntermediateUpdate"
  BY <1>1, SlaveRunsFacts
<1>3. \A j \in Instances \ {i} : stack'[j] = stack[j]
  BY <1>1, GraphTypes
<1>4. Mode' = Mode /\ Saved' = Saved
  BY <1>1, SavedKept DEF Mode
<1> QED BY <1>1, <1>2, <1>3, <1>4, StepKeepsUpdates, GraphMoves

LEMMA OpenUpdateFollows ==
  ASSUME GraphInv, NEW i \in Instances, NEW u \in NewUpdates, OpenUpdate(i, u)
  PROVE  UpdateInv' /\ Modes!Next
<1> DEFINE f == [Top(i) EXCEPT !.update = u]
           l == EnterIntermediateUpdate(lc[i], u.set, u.get)
<1>1. /\ SlaveRuns(i) /\ stack[i] # <<>> /\ UNCHANGED <<alive, heap, buffer>>
      /\ lc' = [lc EXCEPT ![i] = l]
      /\ stack' = [stack EXCEPT ![i] = [@ EXCEPT ![Len(@)] = f]]
  BY DEF OpenUpdate, SlaveRuns, Top
<1>2. i \in alive /\ lc[i].state # "IntermediateUpdate" /\ lc[i] \in LifecycleType
  BY <1>1, SlaveRunsFacts, GraphTypes
<1>3. u \in Update /\ u # Null
  BY ConstantsAssumption DEF NewUpdates
<1>4. Top(i) \in Frame
  BY <1>1, GraphTypes, TopFrame DEF Top
<1>5. f \in Frame /\ f.update = u
  BY <1>3, <1>4 DEF Frame
<1>6. l.state = IF lc[i].state = "Step" THEN "IntermediateUpdate" ELSE lc[i].state
  BY <1>2 DEF EnterIntermediateUpdate, LifecycleType
<1> HIDE DEF f, l
<1>7. stack'[i] # <<>> /\ Top(i)'.update # Null
  <2>1. stack[i] \in Seq(Frame) /\ stack'[i] = [stack[i] EXCEPT ![Len(stack[i])] = f]
    BY <1>1, GraphTypes
  <2>2. Len(stack'[i]) = Len(stack[i]) /\ Len(stack[i]) \in Nat \ {0}
    BY <1>1, <1>5, <2>1, ReplaceTop, TopFrame
  <2>3. stack'[i][Len(stack'[i])] = f
    BY <1>5, <2>1, <2>2
  <2> QED BY <1>3, <1>5, <2>2, <2>3 DEF Top
<1>8. /\ lc'[i] = l
      /\ \A j \in Instances \ {i} : lc'[j] = lc[j] /\ stack'[j] = stack[j]
  BY <1>1, GraphTypes
<1>9. UpdateInv'
  BY <1>1, <1>2, <1>7, <1>8, StepKeepsUpdates
<1>10. /\ Mode' = [Mode EXCEPT ![i] = l.state]
       /\ l.state = lc[i].state => Mode' = Mode
       /\ Mode[i] = lc[i].state
  BY <1>1, <1>2, <1>8, ModeBecomes, ModeOf
<1>11. Saved' = Saved
  BY <1>1, SavedKept
<1>12. CASE lc[i].state = "Step"
  <2>1. Mode[i] = "Step" /\ l.state = "IntermediateUpdate"
    BY <1>6, <1>10, <1>12
  <2> QED BY <1>9, <1>10, <1>11, <2>1, GraphMovesOfModes
<1>13. CASE lc[i].state # "Step"
  BY <1>6, <1>9, <1>10, <1>11, <1>13, GraphMoves
<1> QED BY <1>12, <1>13

LEMMA CallbackReturnsFollows ==
  ASSUME GraphInv, NEW i \in Instances, NEW request, CallbackReturns(i, request)
  PROVE  UpdateInv' /\ Modes!Next
<1> DEFINE l == LeaveIntermediateUpdate(lc[i])
<1>1. /\ stack[i] # <<>> /\ UNCHANGED <<alive, heap, buffer>>
      /\ lc' = [lc EXCEPT ![i] = l]
      /\ stack' = [stack EXCEPT ![i][Len(stack[i])] = AfterUpdate(i, request)]
  BY DEF CallbackReturns
<1>2. i \in alive /\ lc[i] \in LifecycleType
  BY <1>1, GraphTypes DEF UpdateInv
<1>3. l.state = IF lc[i].state = "IntermediateUpdate" THEN "Step" ELSE lc[i].state
  BY <1>2 DEF LeaveIntermediateUpdate, LifecycleType
<1> HIDE DEF l
<1>4. /\ lc'[i] = l
      /\ \A j \in Instances \ {i} : lc'[j] = lc[j] /\ stack'[j] = stack[j]
  BY <1>1, GraphTypes
<1>5. UpdateInv'
  BY <1>1, <1>2, <1>3, <1>4, StepKeepsUpdates
<1>6. /\ Mode' = [Mode EXCEPT ![i] = l.state]
      /\ l.state = lc[i].state => Mode' = Mode
      /\ Mode[i] = lc[i].state
  BY <1>1, <1>2, <1>4, ModeBecomes, ModeOf
<1>7. Saved' = Saved
  BY <1>1, SavedKept
<1>8. CASE lc[i].state = "IntermediateUpdate"
  <2>1. Mode[i] = "IntermediateUpdate" /\ l.state = "Step"
    BY <1>3, <1>6, <1>8
  <2> QED BY <1>5, <1>6, <1>7, <2>1, GraphMovesOfModes
<1>9. CASE lc[i].state # "IntermediateUpdate"
  BY <1>3, <1>5, <1>6, <1>7, <1>9, GraphMoves
<1> QED BY <1>8, <1>9

LEMMA EndDoStepFollows ==
  ASSUME GraphInv, NEW i \in Instances, NEW outcome, EndDoStep(i, outcome)
  PROVE  UpdateInv' /\ Modes!Next
<1> DEFINE l == AfterStep(lc[i], outcome)
<1>1. /\ SlaveRuns(i) /\ UNCHANGED <<alive, heap, buffer>>
      /\ lc' = [lc EXCEPT ![i] = l]
      /\ stack' = [stack EXCEPT ![i] = Returned(@, outcome)]
  BY DEF EndDoStep
<1>2. i \in alive /\ lc[i].state # "IntermediateUpdate" /\ lc[i] \in LifecycleType
  BY <1>1, SlaveRunsFacts, GraphTypes
<1>3. l.state \in {lc[i].state, "Failed"}
  BY <1>2 DEF AfterStep, Fail, LifecycleType
<1> HIDE DEF l
<1>4. /\ lc'[i] = l
      /\ \A j \in Instances \ {i} : lc'[j] = lc[j] /\ stack'[j] = stack[j]
  BY <1>1, GraphTypes
<1>5. UpdateInv'
  BY <1>1, <1>2, <1>3, <1>4, StepKeepsUpdates
<1>6. /\ Mode' = [Mode EXCEPT ![i] = l.state]
      /\ l.state = lc[i].state => Mode' = Mode
      /\ Mode[i] # "None"
  BY <1>1, <1>2, <1>4, ModeBecomes, ModeOf
<1>7. Saved' = Saved
  BY <1>1, SavedKept
<1> QED BY <1>3, <1>5, <1>6, <1>7, GraphMoves

-----------------------------------------------------------------------------
(* The wrapper implements the FMI 3.0 state graph.                         *)

LEMMA StepsFollowGraph ==
  ASSUME GraphInv, OwnershipInv', [Next]_vars
  PROVE  GraphInv' /\ [Modes!Next]_(Modes!vars)
<1>1. ASSUME NEW i \in Instances,
             Manage(i) \/ Call(i) \/ FMUStateCall(i) \/ Stepping(i)
      PROVE  UpdateInv' /\ Modes!Next
  <2>1. Stepping(i) => UpdateInv' /\ Modes!Next
    BY BeginDoStepFollows, SlaveCodeFollows, OpenUpdateFollows,
       CallbackReturnsFollows, EndDoStepFollows DEF Stepping
  <2> QED BY <1>1, <2>1, ManageFollows, CallFollows, FMUStateCallFollows
<1>2. CASE UNCHANGED vars
  <2>1. UpdateInv'
    BY <1>2, GraphTypes DEF vars, UpdateInv, Top
  <2>2. UNCHANGED Modes!vars
    BY <1>2 DEF vars, Modes!vars
  <2> QED BY <2>1, <2>2 DEF GraphInv
<1>3. CASE Next
  BY <1>1, <1>3 DEF Next, GraphInv
<1> QED BY <1>2, <1>3

(* An instance is in Intermediate Update Mode only while the importer's    *)
(* callback runs on it, also when that calls on after a failure or begins  *)
(* a DoStep of its own (Lifecycle::LeaveIntermediateUpdate).               *)
THEOREM GraphInvariant == Spec => []GraphInv
<1>1. Init /\ OwnershipInv => GraphInv
  BY DEF Init, NewLifecycle, GraphInv, UpdateInv
<1>2. GraphInv /\ OwnershipInv' /\ [Next]_vars => GraphInv'
  BY StepsFollowGraph
<1> QED BY <1>1, <1>2, OwnershipInvariant, PTL DEF Spec

(* Whatever calls are made, from whatever depth of callbacks and however   *)
(* they fail, each instance follows the FMI 3.0 state graph, and a restore *)
(* leads only to a mode that was really recorded                           *)
(* (cppfmu_lifecycle_fmi3.cpp, fmi3_functions.cpp).                        *)
THEOREM GraphIsFollowed == Spec => FollowsStateGraph
<1>1. Init => Modes!Init
  BY DEF Init, Modes!Init
<1>2. GraphInv /\ OwnershipInv' /\ [Next]_vars => [Modes!Next]_(Modes!vars)
  BY StepsFollowGraph
<1> QED BY <1>1, <1>2, GraphInvariant, OwnershipInvariant, PTL
        DEF Spec, FollowsStateGraph, Modes!Spec
=============================================================================
