--------------------------- MODULE Fmi3Modes_proofs ---------------------------
(***************************************************************************)
(* Proofs that the wrapper's record of the mode is right: no slave gets a  *)
(* call that its mode does not allow.  They hold for an importer that      *)
(* leaves an instance alone from the moment a call in its callback failed  *)
(* it until fmi3DoStep returns (Polite); without that they are false.      *)
(***************************************************************************)
EXTENDS Fmi3Wrapper_proofs

Polite == ImporterCallsOn = FALSE

(***************************************************************************)
(* The inductive invariant.  An instance does not exist, is at rest, or    *)
(* runs one DoStep.  In the last case the flags of Component and Lifecycle *)
(* say what the frame of that DoStep says.                                 *)
(***************************************************************************)
Absent(i) ==
  /\ i \notin alive
  /\ stack[i] = <<>>
  /\ slave[i] = "Gone"
  /\ lc[i].state = "Instantiated"
  /\ ~scope[i].inDoStep

AtRest(i) ==
  /\ i \in alive
  /\ stack[i] = <<>>
  /\ ~scope[i].inDoStep
  /\ \/ lc[i].state \in Readable /\ slave[i] = lc[i].state
     \/ lc[i].state = "Failed" /\ slave[i] = "Broken"

(* The frame f of a running DoStep against lifecycle l, slave mode p and   *)
(* scope s.                                                                *)
UpdateMirrored(f, l) ==
  IF f.update = Null
    THEN l.state = "Step"
    ELSE /\ l.state = "IntermediateUpdate"
         /\ l.setRequested = f.update.set
         /\ l.getAllowed = f.update.get
         /\ l.setStarted = f.update.wrote

ModeMirrored(f, l, p) ==
  IF f.hurt THEN l.state = "Failed" /\ p = "Broken"
            ELSE p = "Step" /\ UpdateMirrored(f, l)

TimesMirrored(f, s) ==
  /\ s.inDoStep
  /\ s.start = f.start /\ s.end = f.end /\ s.lastFinished = f.finished

InStep(i) ==
  /\ i \in alive
  /\ Len(stack[i]) = 1
  /\ ModeMirrored(stack[i][1], lc[i], slave[i])
  /\ TimesMirrored(stack[i][1], scope[i])

InstanceInv(i) == Absent(i) \/ AtRest(i) \/ InStep(i)

ModeInv == (\A i \in Instances : InstanceInv(i)) /\ SnapshotsCoherent

FullInv == OwnershipInv /\ ModeInv

-----------------------------------------------------------------------------
(* The table against what a slave expects.                                 *)

LEMMA TableServesSlave ==
  ASSUME NEW call \in Calls, NEW state \in Readable, state \in LegalStates(call)
  PROVE  call \in SlaveExpects(state)
BY DEF Calls, LegalStates, SlaveExpects, Readable, Writable, Running

LEMMA TableServesBroken ==
  ASSUME NEW call \in Calls, "Failed" \in LegalStates(call)
  PROVE  call \in {"Reset", "SnapshotMemory", "FmuStateRestore"}
BY DEF Calls, LegalStates, Readable, Writable, Running

LEMMA TableInUpdate ==
  ASSUME NEW call \in Calls, "IntermediateUpdate" \in LegalStates(call)
  PROVE  call \in {"ReadVariable", "WriteVariable", "OutputDerivatives"}
BY DEF Calls, LegalStates, Readable, Writable, Running

LEMMA ModesAreModes ==
  /\ Readable \subseteq States
  /\ "Failed" \notin Readable /\ "IntermediateUpdate" \notin Readable
  /\ "Broken" \notin Readable /\ "Misused" \notin Readable /\ "Gone" \notin Readable
  /\ {"Instantiated", "Step", "Event"} \subseteq Readable
BY DEF Readable, Writable, Running, States

(* A success moves the slave and the record of its mode together.          *)
LEMMA SuccessMovesBoth ==
  ASSUME TypeInv, NEW i \in Instances, NEW call \in Calls,
         lc[i].state \in Readable, slave[i] = lc[i].state
  PROVE  /\ OnSuccess(lc[i], call).state = SlaveMoves(i, call)
         /\ SlaveMoves(i, call) \in Readable
BY DEF TypeInv, TypeOK, LifecycleType, OnSuccess, SlaveMoves, Transition, Calls,
       Readable, Writable, Running

-----------------------------------------------------------------------------
(* Only the instance a step is about changes.                              *)

OnlyTouches(i) ==
  \A j \in Instances \ {i} :
    /\ lc'[j] = lc[j] /\ scope'[j] = scope[j]
    /\ stack'[j] = stack[j] /\ slave'[j] = slave[j]
    /\ j \in alive' <=> j \in alive

LEMMA OthersKept ==
  ASSUME NEW i \in Instances, \A j \in Instances : InstanceInv(j),
         OnlyTouches(i), InstanceInv(i)'
  PROVE  \A j \in Instances : InstanceInv(j)'
BY DEF OnlyTouches, InstanceInv, Absent, AtRest, InStep

LEMMA CallTouches ==
  ASSUME TypeInv, NEW i \in Instances, NEW call, NEW outcome, NEW next,
         RunLegalCall(i, call, outcome, next)
  PROVE  OnlyTouches(i)
BY DEF RunLegalCall, OnlyTouches, TypeInv, TypeOK

-----------------------------------------------------------------------------
(* A call at rest.                                                         *)

LEMMA CallAtRest ==
  ASSUME TypeInv, NEW i \in Instances, AtRest(i), NEW call \in Calls,
         NEW outcome \in Outcomes, NEW next, Served(i, call)
  PROVE  /\ SlaveAccepts(i, call)
         /\ SlaveAfter(i, call, outcome, next) =
              IF outcome = "ok" THEN next
              ELSE IF outcome \in Failures THEN "Broken" ELSE slave[i]
<1>1. lc[i].state \in LegalStates(call) /\ stack[i] = <<>>
  BY DEF Served, Allows, AtRest
<1>2. call \in SlaveExpects(slave[i])
  <2>1. CASE lc[i].state \in Readable /\ slave[i] = lc[i].state
    BY <1>1, <2>1, TableServesSlave
  <2>2. CASE lc[i].state = "Failed" /\ slave[i] = "Broken"
    <3>1. call \in {"Reset", "SnapshotMemory", "FmuStateRestore"}
      BY <1>1, <2>2, TableServesBroken
    <3> QED BY <2>2, <3>1 DEF SlaveExpects
  <2> QED BY <2>1, <2>2 DEF AtRest
<1>3. SlaveAccepts(i, call)
  BY <1>1, <1>2 DEF SlaveAccepts
<1>4. slave[i] # "Misused"
  BY ModesAreModes DEF AtRest
<1> QED BY <1>3, <1>4 DEF SlaveAfter, Outcomes, Failures

LEMMA DispatchAtRest ==
  ASSUME TypeInv, NEW i \in Instances, AtRest(i), NEW call \in Calls,
         NEW outcome \in Outcomes,
         RunLegalCall(i, call, outcome, SlaveMoves(i, call))
  PROVE  AtRest(i)'
<1> DEFINE next == SlaveMoves(i, call)
<1>1. /\ lc[i] \in LifecycleType
      /\ lc'[i] = Completed(lc[i], call, outcome)
      /\ slave'[i] = SlaveAfter(i, call, outcome, next)
      /\ stack'[i] = <<>> /\ scope'[i] = scope[i] /\ i \in alive'
  BY DEF TypeInv, TypeOK, RunLegalCall, AtRest, Marked
<1>2. Served(i, call)
  BY DEF RunLegalCall
<1>3. slave'[i] = IF outcome = "ok" THEN next
                  ELSE IF outcome \in Failures THEN "Broken" ELSE slave[i]
  BY <1>1, <1>2, CallAtRest
<1>4. CASE outcome \in Failures
  BY <1>1, <1>3, <1>4 DEF AtRest, Completed, Fail, Failures, LifecycleType
<1>5. CASE outcome = "ok" /\ lc[i].state \in Readable
  <2>1. slave[i] = lc[i].state
    BY <1>5, ModesAreModes DEF AtRest
  <2>2. OnSuccess(lc[i], call).state = next /\ next \in Readable
    BY <1>5, <2>1, SuccessMovesBoth
  <2> QED BY <1>1, <1>3, <1>5, <2>2 DEF AtRest, Completed, Failures
<1>6. CASE outcome = "ok" /\ lc[i].state \notin Readable
  <2>1. lc[i].state = "Failed" /\ slave[i] = "Broken"
    BY <1>6 DEF AtRest
  <2>2. call \in {"Reset", "SnapshotMemory", "FmuStateRestore"}
    BY <1>2, <2>1, TableServesBroken DEF Served, Allows
  <2>3. CASE call = "Reset"
    <3>1. next = "Instantiated" /\ OnSuccess(lc[i], call).state = "Instantiated"
      BY <1>1, <2>1, <2>3
         DEF SlaveMoves, OnSuccess, Transition, LifecycleType
    <3> QED BY <1>1, <1>3, <1>6, <3>1, ModesAreModes DEF AtRest, Completed, Failures
  <2>4. CASE call # "Reset"
    <3>1. next = "Broken" /\ OnSuccess(lc[i], call).state = "Failed"
      BY <1>1, <2>1, <2>2, <2>4
         DEF SlaveMoves, OnSuccess, Transition, LifecycleType
    <3> QED BY <1>1, <1>3, <1>6, <3>1 DEF AtRest, Completed, Failures
  <2> QED BY <2>3, <2>4
<1>7. CASE outcome \notin Failures \cup {"ok"}
  BY <1>1, <1>3, <1>7 DEF AtRest, Completed
<1> QED BY <1>4, <1>5, <1>6, <1>7

-----------------------------------------------------------------------------
(* A call from a callback.                                                 *)

LEMMA CallerInStep ==
  ASSUME Polite, TypeInv, NEW i \in Instances, InStep(i), NEW call \in Calls,
         Served(i, call)
  PROVE  /\ stack[i] # <<>> /\ stack[i][1] \in Frame /\ Top(i) = stack[i][1]
         /\ Top(i).update \in Update /\ ~Top(i).hurt
         /\ slave[i] = "Step" /\ lc[i].state = "IntermediateUpdate"
         /\ UpdateMirrored(Top(i), lc[i])
         /\ call \in {"ReadVariable", "WriteVariable", "OutputDerivatives"}
<1>1. stack[i] \in Seq(Frame) /\ Len(stack[i]) = 1
  BY DEF TypeInv, TypeOK, InStep
<1>2. stack[i] # <<>> /\ stack[i][1] \in Frame /\ Top(i) = stack[i][1]
  BY <1>1 DEF Top
<1>3. Top(i).update # Null /\ lc[i].state # "Failed"
  BY <1>2 DEF Served, MayCall, Polite
<1>4. Top(i).update \in Update
  BY <1>2, <1>3 DEF Frame
<1>5. /\ ~Top(i).hurt /\ slave[i] = "Step" /\ lc[i].state = "IntermediateUpdate"
      /\ UpdateMirrored(Top(i), lc[i])
  BY <1>2, <1>3 DEF InStep, ModeMirrored, UpdateMirrored
<1>6. call \in {"ReadVariable", "WriteVariable", "OutputDerivatives"}
  BY <1>5, TableInUpdate DEF Served, Allows
<1> QED BY <1>2, <1>4, <1>5, <1>6

LEMMA DispatchInStep ==
  ASSUME Polite, TypeInv, NEW i \in Instances, InStep(i), NEW call \in Calls,
         NEW outcome \in Outcomes,
         RunLegalCall(i, call, outcome, SlaveMoves(i, call))
  PROVE  InStep(i)'
<1> DEFINE f == stack[i][1]
           u == f.update
           g == MarkedFrame(f, call, outcome)
           wrote == call = "WriteVariable" /\ outcome = "ok"
<1>1. Served(i, call)
  BY DEF RunLegalCall
<1>2. /\ stack[i] # <<>> /\ f \in Frame /\ Top(i) = f
      /\ u \in Update /\ ~f.hurt
      /\ slave[i] = "Step" /\ lc[i].state = "IntermediateUpdate"
      /\ UpdateMirrored(f, lc[i])
      /\ call \in {"ReadVariable", "WriteVariable", "OutputDerivatives"}
  BY <1>1, CallerInStep
<1>3. u # Null
  BY <1>2, ConstantsAssumption
<1>4. lc[i].setRequested = u.set /\ lc[i].getAllowed = u.get /\ lc[i].setStarted = u.wrote
  BY <1>2, <1>3 DEF UpdateMirrored
<1>5. SlaveAccepts(i, call)
  BY <1>1, <1>2, <1>4 DEF SlaveAccepts, Served, Allows
<1>6. SlaveMoves(i, call) = "Step"
  BY <1>2 DEF SlaveMoves
<1>7. stack[i] \in Seq(Frame) /\ Len(stack[i]) = 1 /\ lc[i] \in LifecycleType
  BY DEF TypeInv, TypeOK, InStep
<1>8. /\ i \in alive' /\ scope'[i] = scope[i]
      /\ lc'[i] = Completed(lc[i], call, outcome)
      /\ slave'[i] = SlaveAfter(i, call, outcome, "Step")
      /\ stack'[i] = Marked(stack[i], call, outcome)
  BY <1>6 DEF RunLegalCall, TypeInv, TypeOK, InStep
<1>9. Len(stack'[i]) = 1 /\ stack'[i][1] = g
  <2> HIDE DEF g
  <2>1. g \in Frame
    BY <1>2, <1>3, MarkFrame DEF g
  <2>2. stack'[i] = [stack[i] EXCEPT ![1] = g]
    BY <1>2, <1>7, <1>8 DEF Marked, g
  <2> QED BY <1>7, <2>1, <2>2
<1>10. slave'[i] = IF outcome \in Failures THEN "Broken" ELSE "Step"
  BY <1>2, <1>5, <1>8 DEF SlaveAfter, Outcomes, Failures
<1>11. /\ g.update = MarkedUpdate(u, wrote)
       /\ g.hurt <=> outcome \in Failures
       /\ g.start = f.start /\ g.end = f.end /\ g.finished = f.finished
  BY <1>2 DEF MarkedFrame, Frame
<1>12. TimesMirrored(g, scope'[i])
  BY <1>8, <1>11 DEF InStep, TimesMirrored
<1>13. CASE outcome \in Failures
  <2>1. lc'[i].state = "Failed"
    BY <1>7, <1>8, <1>13 DEF Completed, Failures, Fail, LifecycleType
  <2> QED BY <1>8, <1>9, <1>10, <1>11, <1>12, <1>13, <2>1 DEF InStep, ModeMirrored
<1>14. CASE outcome \notin Failures
  <2>1. /\ g.update.set = u.set /\ g.update.get = u.get
        /\ g.update.wrote = (u.wrote \/ wrote)
    <3> HIDE DEF wrote
    <3> QED BY <1>2, <1>11 DEF MarkedUpdate, Update
  <2>2. g.update # Null
    BY <1>2, <1>3, MarkFrame
  <2>3. /\ lc'[i].state = "IntermediateUpdate"
        /\ lc'[i].setRequested = lc[i].setRequested
        /\ lc'[i].getAllowed = lc[i].getAllowed
        /\ lc'[i].setStarted = (lc[i].setStarted \/ wrote)
    <3>1. CASE outcome = "ok"
      <4>1. lc'[i] = [lc[i] EXCEPT !.setStarted = lc[i].setStarted \/ call = "WriteVariable"]
        BY <1>2, <1>8, <3>1 DEF Completed, OnSuccess, Failures
      <4>2. wrote <=> call = "WriteVariable"
        BY <3>1
      <4> HIDE DEF wrote
      <4> QED BY <1>2, <1>7, <4>1, <4>2 DEF LifecycleType
    <3>2. CASE outcome # "ok"
      BY <1>2, <1>7, <1>8, <1>14, <3>2 DEF Completed, LifecycleType
    <3> QED BY <3>1, <3>2
  <2>4. UpdateMirrored(g, lc'[i])
    <3> HIDE DEF g, wrote
    <3> QED BY <1>4, <2>1, <2>2, <2>3 DEF UpdateMirrored
  <2> QED BY <1>8, <1>9, <1>10, <1>11, <1>12, <1>14, <2>4 DEF InStep, ModeMirrored
<1> QED BY <1>13, <1>14

LEMMA DispatchInstance ==
  ASSUME Polite, TypeInv, NEW i \in Instances, InstanceInv(i), NEW call \in Calls,
         NEW outcome \in Outcomes,
         RunLegalCall(i, call, outcome, SlaveMoves(i, call))
  PROVE  InstanceInv(i)'
<1>1. ~Absent(i)
  BY DEF Absent, RunLegalCall, Served, MayCall
<1> QED BY <1>1, DispatchAtRest, DispatchInStep DEF InstanceInv

-----------------------------------------------------------------------------
(* FMU states.                                                             *)

LEMMA StateCallMovesNothing ==
  ASSUME NEW i \in Instances
  PROVE  /\ SlaveMoves(i, "FmuStateRead") = slave[i]
         /\ SlaveMoves(i, "SnapshotMemory") = slave[i]
BY DEF SlaveMoves

(* A state is taken at rest, so it records one mode for both.              *)
LEMMA TakenCoherent ==
  ASSUME Polite, TypeInv, NEW i \in Instances, InstanceInv(i),
         Served(i, "FmuStateRead")
  PROVE  TakenNow(i).mode = TakenNow(i).slave /\ IsSnapshotMode(TakenNow(i).mode)
<1>1. ~InStep(i)
  BY CallerInStep, "FmuStateRead" \in Calls DEF Calls
<1>2. AtRest(i)
  BY <1>1 DEF InstanceInv, Absent, Served, MayCall
<1>3. lc[i].state \in LegalStates("FmuStateRead")
  BY DEF Served, Allows
<1>4. "Failed" \notin LegalStates("FmuStateRead")
  BY DEF LegalStates, Readable, Writable, Running
<1> QED BY <1>2, <1>3, <1>4 DEF AtRest, TakenNow, IsSnapshotMode

LEMMA SetFMUStateInstance ==
  ASSUME Polite, OwnershipInv, SnapshotsCoherent, NEW i \in Instances,
         InstanceInv(i), NEW h \in Handles, SetFMUState(i, h)
  PROVE  InstanceInv(i)' /\ OnlyTouches(i)
<1> DEFINE state == heap[handle[h]]
<1>1. PICK outcome \in Outcomes :
        /\ lc' = [lc EXCEPT ![i] = Restored(@, state.mode, outcome)]
        /\ slave' = [slave EXCEPT ![i] =
                       SlaveAfter(i, "FmuStateRestore", outcome, state.slave)]
        /\ stack' = [stack EXCEPT ![i] = Marked(@, "FmuStateRestore", outcome)]
  BY ResultTypes DEF SetFMUState
<1>2. /\ TypeInv /\ Served(i, "FmuStateRestore") /\ "FmuStateRestore" \in Calls
      /\ UNCHANGED <<alive, scope>>
  BY DEF OwnershipInv, SetFMUState, Calls
<1>3. OnlyTouches(i)
  BY <1>1, <1>2 DEF OnlyTouches, TypeInv, TypeOK
<1>4. AtRest(i)
  <2>1. ~InStep(i)
    BY <1>2, CallerInStep
  <2> QED BY <1>2, <2>1 DEF InstanceInv, Absent, Served, MayCall
<1>5. state.mode = state.slave /\ state.mode \in Readable /\ IsSnapshotMode(state.mode)
  BY DEF OwnershipInv, HandlesOwnStates, TypeInv, TypeOK, SetFMUState, Owns,
         SnapshotsCoherent, IsSnapshotMode, LegalStates
<1> HIDE DEF state
<1>6. /\ lc[i] \in LifecycleType
      /\ lc'[i] = Restored(lc[i], state.mode, outcome)
      /\ slave'[i] = SlaveAfter(i, "FmuStateRestore", outcome, state.slave)
      /\ stack'[i] = <<>> /\ scope'[i] = scope[i] /\ i \in alive'
  BY <1>1, <1>2, <1>4 DEF TypeInv, TypeOK, AtRest, Marked
<1>7. slave'[i] = IF outcome = "ok" THEN state.slave
                  ELSE IF outcome \in Failures THEN "Broken" ELSE slave[i]
  BY <1>2, <1>4, <1>6, CallAtRest
<1> DEFINE done == Completed(lc[i], "FmuStateRestore", outcome)
<1>8. done \in LifecycleType
  BY <1>2, <1>6, LifecycleTypes
<1> SUFFICES AtRest(i)'
  BY <1>3 DEF InstanceInv
<1>9. CASE outcome = "ok"
  <2>1. lc'[i] = RestoreFromSnapshot(done, state.mode)
    BY <1>6, <1>9 DEF Restored
  <2> HIDE DEF done
  <2>2. lc'[i].state = state.mode
    BY <1>5, <1>8, <2>1 DEF RestoreFromSnapshot, LifecycleType
  <2>3. slave'[i] = lc'[i].state /\ lc'[i].state \in Readable
    BY <1>5, <1>7, <1>9, <2>2
  <2> QED BY <1>4, <1>6, <2>3 DEF AtRest
<1>10. CASE outcome \in Failures
  <2>1. lc'[i] = Fail(lc[i]) /\ slave'[i] = "Broken"
    BY <1>6, <1>7, <1>10 DEF Restored, Completed, Failures
  <2>2. lc'[i].state = "Failed"
    BY <1>6, <2>1 DEF Fail, LifecycleType
  <2> QED BY <1>4, <1>6, <2>1, <2>2 DEF AtRest
<1>11. CASE outcome \notin Failures \cup {"ok"}
  <2>1. lc'[i] = lc[i] /\ slave'[i] = slave[i]
    BY <1>6, <1>7, <1>11 DEF Restored, Completed
  <2> QED BY <1>4, <1>6, <2>1 DEF AtRest
<1> QED BY <1>9, <1>10, <1>11

(* A step of RunLegalCall that leaves the FMU states as they are, or       *)
(* changes them coherently.                                                *)
LEMMA CallKeepsModes ==
  ASSUME Polite, TypeInv, NEW i \in Instances, \A j \in Instances : InstanceInv(j),
         NEW call \in Calls, NEW outcome \in Outcomes,
         RunLegalCall(i, call, outcome, SlaveMoves(i, call)),
         SnapshotsCoherent'
  PROVE  ModeInv'
BY DispatchInstance, CallTouches, OthersKept DEF ModeInv

LEMMA CoherentKept ==
  ASSUME SnapshotsCoherent, UNCHANGED snapshotVars
  PROVE  SnapshotsCoherent'
BY DEF SnapshotsCoherent, snapshotVars

LEMMA CoherentCell ==
  ASSUME TypeInv, SnapshotsCoherent, NEW c \in Cells, NEW state,
         state = Null \/ (state.mode = state.slave /\ IsSnapshotMode(state.mode)),
         heap' = [heap EXCEPT ![c] = state], UNCHANGED buffer
  PROVE  SnapshotsCoherent'
<1>1. heap \in [Cells -> Snapshot \cup {Null}]
  BY DEF TypeInv, TypeOK
<1>2. heap'[c] = state /\ \A d \in Cells \ {c} : heap'[d] = heap[d]
  BY <1>1
<1>3. buffer' = buffer
  OBVIOUS
<1> QED BY <1>2, <1>3 DEF SnapshotsCoherent

LEMMA FMUStateCallModes ==
  ASSUME Polite, OwnershipInv, ModeInv, NEW i \in Instances, FMUStateCall(i)
  PROVE  ModeInv'
<1>0. /\ TypeInv /\ SnapshotsCoherent /\ \A j \in Instances : InstanceInv(j)
      /\ heap \in [Cells -> Snapshot \cup {Null}]
      /\ buffer \in Buffer \cup {Null}
      /\ \A h \in Handles : Owns(i, h) =>
           handle[h] \in Cells /\ heap[handle[h]] \in Snapshot
  BY DEF OwnershipInv, HandlesOwnStates, TypeInv, TypeOK, ModeInv, Owns
<1>c. {"FmuStateRead", "FmuStateRestore", "SnapshotMemory"} \subseteq Calls
  BY DEF Calls
<1>m. /\ SlaveMoves(i, "FmuStateRead") = slave[i]
      /\ SlaveMoves(i, "SnapshotMemory") = slave[i]
  BY StateCallMovesNothing
<1>1. ASSUME NEW h \in Handles, NEW c \in Cells, GetFMUState(i, h, c) PROVE ModeInv'
  <2>1. PICK outcome \in Outcomes :
          /\ RunLegalCall(i, "FmuStateRead", outcome, slave[i])
          /\ heap' = IF outcome = "ok" THEN [heap EXCEPT ![c] = TakenNow(i)] ELSE heap
    BY <1>1, ResultTypes DEF GetFMUState
  <2>2. TakenNow(i).mode = TakenNow(i).slave /\ IsSnapshotMode(TakenNow(i).mode)
    BY <1>0, <2>1, TakenCoherent DEF RunLegalCall
  <2>3. UNCHANGED buffer
    BY <1>1 DEF GetFMUState
  <2>4. CASE outcome = "ok"
    <3>1. SnapshotsCoherent'
      BY <1>0, <2>1, <2>2, <2>3, <2>4, CoherentCell
    <3> QED BY <1>0, <1>c, <1>m, <2>1, <3>1, CallKeepsModes
  <2>5. CASE outcome # "ok"
    <3>1. SnapshotsCoherent'
      BY <1>0, <2>1, <2>3, <2>5 DEF SnapshotsCoherent
    <3> QED BY <1>0, <1>c, <1>m, <2>1, <3>1, CallKeepsModes
  <2> QED BY <2>4, <2>5
<1>2. ASSUME NEW h \in Handles, OverwriteFMUState(i, h) PROVE ModeInv'
  <2>1. PICK outcome \in Outcomes :
          /\ RunLegalCall(i, "FmuStateRead", outcome, slave[i])
          /\ heap' = [heap EXCEPT ![handle[h]] = Overwritten(i, @, outcome)]
    BY <1>2, ResultTypes DEF OverwriteFMUState
  <2>2. TakenNow(i).mode = TakenNow(i).slave /\ IsSnapshotMode(TakenNow(i).mode)
    BY <1>0, <2>1, TakenCoherent DEF RunLegalCall
  <2> DEFINE old == heap[handle[h]]
             new == Overwritten(i, old, outcome)
  <2>3. handle[h] \in Cells /\ old.mode = old.slave /\ IsSnapshotMode(old.mode)
    BY <1>0, <1>2, ConstantsAssumption DEF SnapshotsCoherent, OverwriteFMUState
  <2>4. new.mode = new.slave /\ IsSnapshotMode(new.mode)
    BY <2>2, <2>3 DEF Overwritten
  <2>5. heap' = [heap EXCEPT ![handle[h]] = new] /\ UNCHANGED buffer
    BY <1>2, <2>1 DEF OverwriteFMUState
  <2> HIDE DEF old, new
  <2>6. SnapshotsCoherent'
    BY <1>0, <2>3, <2>4, <2>5, CoherentCell
  <2> QED BY <1>0, <1>c, <1>m, <2>1, <2>6, CallKeepsModes
<1>3. ASSUME NEW h \in Handles, SetFMUState(i, h) PROVE ModeInv'
  <2>1. InstanceInv(i)' /\ OnlyTouches(i)
    BY <1>0, <1>3, SetFMUStateInstance
  <2>2. UNCHANGED snapshotVars
    BY <1>3 DEF SetFMUState, snapshotVars
  <2> QED BY <1>0, <2>1, <2>2, OthersKept, CoherentKept DEF ModeInv
<1>4. ASSUME NEW h \in Handles, FreeFMUState(i, h) PROVE ModeInv'
  <2>1. PICK outcome \in Outcomes :
          /\ RunLegalCall(i, "SnapshotMemory", outcome, slave[i])
          /\ heap' = IF outcome = "ok" THEN [heap EXCEPT ![handle[h]] = Null] ELSE heap
    BY <1>4, ResultTypes DEF FreeFMUState
  <2>2. handle[h] \in Cells /\ UNCHANGED buffer
    BY <1>0, <1>4 DEF FreeFMUState
  <2>3. SnapshotsCoherent'
    <3>1. CASE outcome = "ok"
      BY <1>0, <2>1, <2>2, <3>1, CoherentCell
    <3>2. CASE outcome # "ok"
      BY <1>0, <2>1, <2>2, <3>2 DEF SnapshotsCoherent
    <3> QED BY <3>1, <3>2
  <2> QED BY <1>0, <1>c, <1>m, <2>1, <2>3, CallKeepsModes
<1>5. ASSUME NEW h \in Handles, SerializedFMUStateSize(i, h) PROVE ModeInv'
  <2>1. Dispatch(i, "SnapshotMemory")
    BY <1>5 DEF SerializedFMUStateSize
  <2>2. PICK outcome \in Outcomes :
          RunLegalCall(i, "SnapshotMemory", outcome, SlaveMoves(i, "SnapshotMemory"))
    BY <2>1, ResultTypes DEF Dispatch
  <2>3. SnapshotsCoherent'
    BY <1>0, <2>1, CoherentKept DEF Dispatch
  <2> QED BY <1>0, <1>c, <2>2, <2>3, CallKeepsModes
<1>6. ASSUME NEW h \in Handles, SerializeFMUState(i, h) PROVE ModeInv'
  <2> DEFINE state == heap[handle[h]]
  <2>1. PICK outcome \in Outcomes :
          /\ RunLegalCall(i, "SnapshotMemory", outcome, slave[i])
          /\ buffer' = IF outcome = "ok"
                         THEN [code |-> ModeCode(state.mode), slave |-> state.slave]
                         ELSE Null
    BY <1>6, ResultTypes DEF SerializeFMUState
  <2>2. /\ state.mode \in Readable /\ state.mode = state.slave
        /\ IsSnapshotMode(state.mode)
    BY <1>0, <1>6, ConstantsAssumption
       DEF SerializeFMUState, SnapshotsCoherent, Snapshot
  <2> HIDE DEF state
  <2>3. buffer' # Null =>
          ModeFromCode(buffer'.code) = buffer'.slave /\ IsSnapshotMode(buffer'.slave)
    BY <2>1, <2>2, CodesAreInverse
  <2>4. heap' = heap
    BY <1>6 DEF SerializeFMUState
  <2>5. SnapshotsCoherent'
    BY <1>0, <2>3, <2>4 DEF SnapshotsCoherent
  <2> QED BY <1>0, <1>c, <1>m, <2>1, <2>5, CallKeepsModes
<1>7. ASSUME NEW h \in Handles, NEW c \in Cells, DeserializeFMUState(i, h, c)
      PROVE  ModeInv'
  <2> DEFINE read == [owner |-> i, mode |-> ModeFromCode(buffer.code),
                      slave |-> buffer.slave]
  <2>1. PICK outcome \in Outcomes :
          /\ RunLegalCall(i, "SnapshotMemory", outcome, slave[i])
          /\ heap' = IF outcome = "ok" THEN [heap EXCEPT ![c] = read] ELSE heap
    BY <1>7, ResultTypes DEF DeserializeFMUState
  <2>2. read.mode = read.slave /\ IsSnapshotMode(read.mode)
    BY <1>0, <1>7 DEF DeserializeFMUState, SnapshotsCoherent
  <2>3. UNCHANGED buffer
    BY <1>7 DEF DeserializeFMUState
  <2> HIDE DEF read
  <2>4. SnapshotsCoherent'
    <3>1. CASE outcome = "ok"
      BY <1>0, <2>1, <2>2, <2>3, <3>1, CoherentCell
    <3>2. CASE outcome # "ok"
      BY <1>0, <2>1, <2>3, <3>2 DEF SnapshotsCoherent
    <3> QED BY <3>1, <3>2
  <2> QED BY <1>0, <1>c, <1>m, <2>1, <2>4, CallKeepsModes
<1>8. ASSUME RejectBytes(i) PROVE ModeInv'
  <2>1. /\ lc' = [lc EXCEPT ![i] = lc[i]]
        /\ UNCHANGED <<alive, scope, stack, slave, heap, buffer>>
    BY <1>8 DEF RejectBytes, Completed, Failures
  <2>2. lc' = lc
    BY <1>0, <2>1 DEF TypeInv, TypeOK
  <2> QED BY <1>0, <2>1, <2>2
          DEF ModeInv, InstanceInv, Absent, AtRest, InStep, SnapshotsCoherent
<1> QED BY <1>1, <1>2, <1>3, <1>4, <1>5, <1>6, <1>7, <1>8 DEF FMUStateCall

-----------------------------------------------------------------------------
(* Creation, destruction and the other calls.                              *)

LEMMA ManageModes ==
  ASSUME TypeInv, ModeInv, NEW i \in Instances, Manage(i)
  PROVE  ModeInv'
<1>0. SnapshotsCoherent /\ \A j \in Instances : InstanceInv(j)
  BY DEF ModeInv
<1>1. ASSUME NEW e \in EventModes, NEW callback \in Callbacks,
             InstantiateCoSimulation(i, e, callback)
      PROVE  ModeInv'
  <2>1. /\ alive' = alive \cup {i} /\ i \notin alive
        /\ lc' = [lc EXCEPT ![i] = NewLifecycle(e)]
        /\ scope' = [scope EXCEPT ![i] = NewScope]
        /\ slave' = [slave EXCEPT ![i] = "Instantiated"]
        /\ UNCHANGED <<stack, heap, buffer>>
    BY <1>1 DEF InstantiateCoSimulation
  <2>2. OnlyTouches(i)
    BY <2>1 DEF OnlyTouches, TypeInv, TypeOK
  <2>3. stack[i] = <<>>
    BY <1>0, <2>1 DEF InstanceInv, Absent, AtRest, InStep
  <2>4. AtRest(i)'
    BY <2>1, <2>3, ModesAreModes
       DEF AtRest, TypeInv, TypeOK, NewLifecycle, NewScope
  <2>5. SnapshotsCoherent'
    BY <1>0, <2>1 DEF SnapshotsCoherent
  <2> QED BY <1>0, <2>2, <2>4, <2>5, OthersKept DEF ModeInv, InstanceInv
<1>2. ASSUME FreeInstance(i) PROVE ModeInv'
  <2>1. /\ alive' = alive \ {i} /\ stack[i] = <<>>
        /\ lc' = [lc EXCEPT ![i] = NewLifecycle(FALSE)]
        /\ scope' = [scope EXCEPT ![i] = NewScope]
        /\ slave' = [slave EXCEPT ![i] = "Gone"]
        /\ UNCHANGED <<stack, heap, buffer>>
    BY <1>2 DEF FreeInstance
  <2>2. OnlyTouches(i)
    BY <2>1 DEF OnlyTouches, TypeInv, TypeOK
  <2>3. Absent(i)'
    BY <2>1 DEF Absent, TypeInv, TypeOK, NewLifecycle, NewScope
  <2>4. SnapshotsCoherent'
    BY <1>0, <2>1 DEF SnapshotsCoherent
  <2> QED BY <1>0, <2>2, <2>3, <2>4, OthersKept DEF ModeInv, InstanceInv
<1> QED BY <1>1, <1>2 DEF Manage

LEMMA CallModes ==
  ASSUME Polite, TypeInv, ModeInv, NEW i \in Instances, Call(i)
  PROVE  ModeInv'
<1>0. SnapshotsCoherent /\ \A j \in Instances : InstanceInv(j)
  BY DEF ModeInv
<1>1. CASE RefuseCall(i)
  BY <1>0, <1>1
     DEF RefuseCall, ModeInv, InstanceInv, Absent, AtRest, InStep, SnapshotsCoherent
<1>2. ASSUME NEW call \in Calls \ {"DoStep"}, Dispatch(i, call) PROVE ModeInv'
  <2>1. PICK outcome \in Outcomes : RunLegalCall(i, call, outcome, SlaveMoves(i, call))
    BY <1>2, ResultTypes DEF Dispatch
  <2>2. SnapshotsCoherent'
    BY <1>0, <1>2, CoherentKept DEF Dispatch
  <2> QED BY <1>0, <2>1, <2>2, CallKeepsModes
<1>3. \/ RefuseCall(i)
      \/ \E call \in Calls \ {"DoStep"} : Dispatch(i, call)
  BY DEF Call, ChangeMode, EnterStepMode, GetVariable, SetVariable, QueryDerivative,
         GetOutputDerivatives, EvaluateDiscreteStates, UpdateDiscreteStates, Calls
<1> QED BY <1>1, <1>2, <1>3

-----------------------------------------------------------------------------
(* DoStep and its updates.                                                 *)

LEMMA BeginDoStepInstance ==
  ASSUME Polite, TypeInv, NEW i \in Instances, InstanceInv(i),
         NEW t \in Times \cup {NaN}, NEW end \in StepEnds(t), BeginDoStep(i, t, end)
  PROVE  InStep(i)' /\ OnlyTouches(i)
<1> DEFINE f == [start |-> t, end |-> end, finished |-> t, update |-> Null,
                 pending |-> "none", early |-> Null, hurt |-> FALSE]
<1>0. /\ Served(i, "DoStep") /\ "DoStep" \in Calls
      /\ stack' = [stack EXCEPT ![i] = Append(@, f)]
      /\ scope' = [scope EXCEPT ![i] = NewStep(t, end)]
      /\ slave' = [slave EXCEPT ![i] = SlaveAfter(i, "DoStep", "ok", @)]
      /\ UNCHANGED <<alive, lc>>
  BY DEF BeginDoStep, Calls
<1>1. OnlyTouches(i)
  BY <1>0 DEF OnlyTouches, TypeInv, TypeOK
<1>2. AtRest(i)
  <2>1. ~InStep(i)
    BY <1>0, CallerInStep
  <2> QED BY <1>0, <2>1 DEF InstanceInv, Absent, Served, MayCall
<1>3. lc[i].state = "Step" /\ slave[i] = "Step"
  BY <1>0, <1>2 DEF Served, Allows, LegalStates, AtRest
<1>4. slave'[i] = "Step"
  BY <1>0, <1>2, <1>3, CallAtRest DEF TypeInv, TypeOK, Outcomes
<1>5. stack[i] = <<>> /\ stack \in [Instances -> Seq(Frame)]
  BY <1>2 DEF AtRest, TypeInv, TypeOK
<1>6. f.update = Null /\ ~f.hurt /\ f.start = t /\ f.end = end /\ f.finished = t
  OBVIOUS
<1> HIDE DEF f
<1>7. Len(stack'[i]) = 1 /\ stack'[i][1] = f
  BY <1>0, <1>5
<1>8. scope'[i] = NewStep(t, end)
  BY <1>0 DEF TypeInv, TypeOK
<1>9. TimesMirrored(f, scope'[i])
  BY <1>6, <1>8 DEF TimesMirrored, NewStep
<1>10. ModeMirrored(f, lc'[i], slave'[i])
  BY <1>0, <1>3, <1>4, <1>6 DEF ModeMirrored, UpdateMirrored
<1> QED BY <1>0, <1>1, <1>2, <1>7, <1>9, <1>10 DEF InStep, AtRest

(* The frame of the one running DoStep is replaced.                        *)
LEMMA RunningFrame ==
  ASSUME TypeInv, NEW i \in Instances, InstanceInv(i), stack[i] # <<>>
  PROVE  /\ InStep(i) /\ Len(stack[i]) = 1
         /\ Top(i) = stack[i][1] /\ Top(i) \in Frame
BY TopOfRunning DEF InstanceInv, Absent, AtRest, InStep, Top

LEMMA FrameReplaced ==
  ASSUME TypeInv, NEW i \in Instances, Len(stack[i]) = 1, NEW f \in Frame,
         stack' = [stack EXCEPT ![i] = [@ EXCEPT ![Len(@)] = f]]
  PROVE  /\ Len(stack'[i]) = 1 /\ stack'[i][1] = f
         /\ \A j \in Instances \ {i} : stack'[j] = stack[j]
<1>1. stack[i] \in Seq(Frame) /\ stack \in [Instances -> Seq(Frame)]
  BY DEF TypeInv, TypeOK
<1>2. stack' = [stack EXCEPT ![i] = [stack[i] EXCEPT ![1] = f]]
  OBVIOUS
<1>3. stack'[i] = [stack[i] EXCEPT ![1] = f]
  BY <1>1, <1>2
<1> QED BY <1>1, <1>2, <1>3

LEMMA SlaveCodeInstance ==
  ASSUME TypeInv, NEW i \in Instances, InstanceInv(i),
         RejectUpdate(i) \/ CatchException(i)
  PROVE  InStep(i)' /\ OnlyTouches(i)
<1>1. PICK p \in {"none", "logic"} :
        stack' = [stack EXCEPT ![i][Len(stack[i])].pending = p]
  BY DEF RejectUpdate, CatchException
<1>2. stack[i] # <<>> /\ UNCHANGED <<alive, lc, scope, slave>>
  BY DEF RejectUpdate, CatchException, SlaveRuns
<1> DEFINE f == [Top(i) EXCEPT !.pending = p]
<1>3. InStep(i) /\ Len(stack[i]) = 1 /\ Top(i) = stack[i][1] /\ Top(i) \in Frame
  BY <1>2, RunningFrame
<1>4. /\ f \in Frame /\ f.update = Top(i).update /\ f.hurt = Top(i).hurt
      /\ f.start = Top(i).start /\ f.end = Top(i).end /\ f.finished = Top(i).finished
  BY <1>3 DEF Frame
<1>5. stack' = [stack EXCEPT ![i] = [@ EXCEPT ![Len(@)] = f]]
  BY <1>1 DEF Top
<1> HIDE DEF f
<1>6. /\ Len(stack'[i]) = 1 /\ stack'[i][1] = f
      /\ \A j \in Instances \ {i} : stack'[j] = stack[j]
  BY <1>3, <1>4, <1>5, FrameReplaced
<1>7. OnlyTouches(i)
  BY <1>2, <1>6 DEF OnlyTouches
<1>8. ModeMirrored(f, lc'[i], slave'[i]) /\ TimesMirrored(f, scope'[i])
  BY <1>2, <1>3, <1>4 DEF InStep, ModeMirrored, UpdateMirrored, TimesMirrored
<1> QED BY <1>2, <1>3, <1>6, <1>7, <1>8 DEF InStep

LEMMA OpenUpdateInstance ==
  ASSUME TypeInv, NEW i \in Instances, InstanceInv(i),
         NEW u \in NewUpdates, OpenUpdate(i, u)
  PROVE  InStep(i)' /\ OnlyTouches(i)
<1> DEFINE f == [Top(i) EXCEPT !.update = u]
<1>1. /\ stack[i] # <<>> /\ Top(i).update = Null
      /\ lc' = [lc EXCEPT ![i] = EnterIntermediateUpdate(@, u.set, u.get)]
      /\ stack' = [stack EXCEPT ![i] = [@ EXCEPT ![Len(@)] = f]]
      /\ UNCHANGED <<alive, scope, slave>>
  BY DEF OpenUpdate, SlaveRuns, Top
<1>2. u \in Update /\ u # Null /\ ~u.wrote
  BY ConstantsAssumption DEF NewUpdates
<1>3. InStep(i) /\ Len(stack[i]) = 1 /\ Top(i) = stack[i][1] /\ Top(i) \in Frame
  BY <1>1, RunningFrame
<1>4. /\ f \in Frame /\ f.update = u /\ f.hurt = Top(i).hurt
      /\ f.start = Top(i).start /\ f.end = Top(i).end /\ f.finished = Top(i).finished
  BY <1>2, <1>3 DEF Frame
<1> HIDE DEF f
<1>5. /\ Len(stack'[i]) = 1 /\ stack'[i][1] = f
      /\ \A j \in Instances \ {i} : stack'[j] = stack[j]
  BY <1>1, <1>3, <1>4, FrameReplaced
<1>6. OnlyTouches(i) /\ lc[i] \in LifecycleType
      /\ lc'[i] = EnterIntermediateUpdate(lc[i], u.set, u.get)
  BY <1>1, <1>5 DEF OnlyTouches, TypeInv, TypeOK
<1>7. TimesMirrored(f, scope'[i])
  BY <1>1, <1>3, <1>4 DEF InStep, TimesMirrored
<1>8. ModeMirrored(f, lc'[i], slave'[i])
  <2>1. CASE Top(i).hurt
    BY <1>1, <1>3, <1>4, <1>6, <2>1 DEF InStep, ModeMirrored, EnterIntermediateUpdate
  <2>2. CASE ~Top(i).hurt
    <3>1. slave[i] = "Step" /\ lc[i].state = "Step"
      BY <1>1, <1>3, <2>2 DEF InStep, ModeMirrored, UpdateMirrored
    <3>2. /\ lc'[i].state = "IntermediateUpdate" /\ lc'[i].setRequested = u.set
          /\ lc'[i].getAllowed = u.get /\ lc'[i].setStarted = FALSE
      BY <1>2, <1>6, <3>1 DEF EnterIntermediateUpdate, LifecycleType
    <3> QED BY <1>1, <1>2, <1>4, <2>2, <3>1, <3>2
            DEF ModeMirrored, UpdateMirrored, Update
  <2> QED BY <2>1, <2>2
<1> QED BY <1>1, <1>3, <1>5, <1>6, <1>7, <1>8 DEF InStep

LEMMA CallbackReturnsInstance ==
  ASSUME TypeInv, NEW i \in Instances, InstanceInv(i),
         NEW request \in Times \cup {NaN, Null}, CallbackReturns(i, request)
  PROVE  InStep(i)' /\ OnlyTouches(i)
<1> DEFINE f == AfterUpdate(i, request)
           u == Top(i).update
           recorded == ~FailedInUpdate(i) /\ u.stepFinished
<1>1. /\ stack[i] # <<>> /\ u # Null
      /\ lc' = [lc EXCEPT ![i] = LeaveIntermediateUpdate(@)]
      /\ stack' = [stack EXCEPT ![i] = [@ EXCEPT ![Len(@)] = f]]
      /\ scope' = [scope EXCEPT ![i].lastFinished = IF recorded THEN u.time ELSE @]
      /\ UNCHANGED <<alive, slave>>
  BY DEF CallbackReturns
<1>2. InStep(i) /\ Len(stack[i]) = 1 /\ Top(i) = stack[i][1] /\ Top(i) \in Frame
  BY <1>1, RunningFrame
<1>3. u \in Update
  BY <1>1, <1>2 DEF Frame
<1>4. ~EarlyReturnRejected(i, request) => request # NaN
  BY DEF EarlyReturnRejected, Leq
<1>5. f \in Frame
  BY <1>2, <1>3, <1>4 DEF AfterUpdate, Frame, Update
<1>6. /\ f.update = Null /\ f.hurt = Top(i).hurt
      /\ f.start = Top(i).start /\ f.end = Top(i).end
      /\ f.finished = IF recorded THEN u.time ELSE Top(i).finished
  BY <1>2 DEF AfterUpdate, Frame
<1> HIDE DEF f
<1>7. /\ Len(stack'[i]) = 1 /\ stack'[i][1] = f
      /\ \A j \in Instances \ {i} : stack'[j] = stack[j]
  BY <1>1, <1>2, <1>5, FrameReplaced
<1>8. /\ lc[i] \in LifecycleType /\ scope[i] \in Scope
      /\ lc'[i] = LeaveIntermediateUpdate(lc[i])
      /\ scope'[i] = [scope[i] EXCEPT !.lastFinished =
                        IF recorded THEN u.time ELSE scope[i].lastFinished]
      /\ OnlyTouches(i)
  BY <1>1, <1>7 DEF OnlyTouches, TypeInv, TypeOK
<1>9. TimesMirrored(f, scope'[i])
  <2> HIDE DEF recorded
  <2> QED BY <1>2, <1>6, <1>8 DEF InStep, TimesMirrored, Scope
<1>10. ModeMirrored(f, lc'[i], slave'[i])
  BY <1>1, <1>2, <1>6, <1>8
     DEF InStep, ModeMirrored, UpdateMirrored, LeaveIntermediateUpdate, LifecycleType
<1> QED BY <1>1, <1>2, <1>7, <1>8, <1>9, <1>10 DEF InStep

LEMMA EndDoStepInstance ==
  ASSUME TypeInv, NEW i \in Instances, InstanceInv(i),
         NEW outcome \in StepOutcomes, EndDoStep(i, outcome)
  PROVE  AtRest(i)' /\ OnlyTouches(i)
<1>1. /\ stack[i] # <<>> /\ Top(i).update = Null
      /\ lc' = [lc EXCEPT ![i] = AfterStep(@, outcome)]
      /\ scope' = [scope EXCEPT ![i].inDoStep = FALSE]
      /\ stack' = [stack EXCEPT ![i] = Returned(@, outcome)]
      /\ slave' = [slave EXCEPT ![i] =
           IF outcome \in StepFailures /\ slave[i] # "Misused" THEN "Broken" ELSE slave[i]]
      /\ UNCHANGED alive
  BY DEF EndDoStep, SlaveRuns
<1>2. InStep(i) /\ Len(stack[i]) = 1 /\ Top(i) = stack[i][1]
  BY <1>1, RunningFrame
<1>3. stack[i] \in Seq(Frame) /\ lc[i] \in LifecycleType /\ scope[i] \in Scope
  BY DEF TypeInv, TypeOK
<1>4. Returned(stack[i], outcome) = <<>>
  <2>1. SubSeq(stack[i], 1, 0) \in Seq(Frame) /\ Len(SubSeq(stack[i], 1, 0)) = 0
    BY <1>1, <1>2, <1>3, PopFrame
  <2>2. SubSeq(stack[i], 1, Len(stack[i]) - 1) = <<>>
    BY <1>2, <2>1
  <2> QED BY <2>2 DEF Returned, Marked
<1>5. /\ OnlyTouches(i) /\ stack'[i] = <<>> /\ lc'[i] = AfterStep(lc[i], outcome)
      /\ slave'[i] = IF outcome \in StepFailures /\ slave[i] # "Misused"
                       THEN "Broken" ELSE slave[i]
      /\ scope'[i] = [scope[i] EXCEPT !.inDoStep = FALSE]
  BY <1>1, <1>4 DEF OnlyTouches, TypeInv, TypeOK
<1>6. ~scope'[i].inDoStep
  BY <1>3, <1>5 DEF Scope
<1>7. \/ lc[i].state = "Failed" /\ slave[i] = "Broken"
      \/ lc[i].state = "Step" /\ slave[i] = "Step"
  BY <1>1, <1>2 DEF InStep, ModeMirrored, UpdateMirrored
<1>8. \/ lc'[i].state = "Failed" /\ slave'[i] = "Broken"
      \/ lc'[i].state = "Step" /\ slave'[i] = "Step"
  BY <1>3, <1>5, <1>7 DEF AfterStep, Fail, LifecycleType
<1> QED BY <1>1, <1>2, <1>5, <1>6, <1>8, ModesAreModes DEF AtRest, InStep

LEMMA SteppingModes ==
  ASSUME Polite, TypeInv, ModeInv, NEW i \in Instances, Stepping(i)
  PROVE  ModeInv'
<1>0. SnapshotsCoherent /\ \A j \in Instances : InstanceInv(j)
  BY DEF ModeInv
<1>1. InstanceInv(i)' /\ OnlyTouches(i)
  BY <1>0, BeginDoStepInstance, SlaveCodeInstance, OpenUpdateInstance,
     CallbackReturnsInstance, EndDoStepInstance DEF Stepping, InstanceInv
<1>2. UNCHANGED <<heap, buffer>>
  BY DEF Stepping, BeginDoStep, RejectUpdate, OpenUpdate, CallbackReturns,
         CatchException, EndDoStep
<1>3. SnapshotsCoherent'
  BY <1>0, <1>2 DEF SnapshotsCoherent
<1> QED BY <1>0, <1>1, <1>3, OthersKept DEF ModeInv

-----------------------------------------------------------------------------
(* The invariant, and the properties that follow from it.                  *)

LEMMA InitModes == Init => ModeInv
BY DEF Init, ModeInv, InstanceInv, Absent, NewLifecycle, NewScope, SnapshotsCoherent

(* Whatever the calls and however they end, the flags of Component and     *)
(* Lifecycle say in which mode the slave is, what the running update       *)
(* allows, and which step it belongs to.                                   *)
THEOREM ModeInvariant ==
  ASSUME Polite
  PROVE  Spec => []FullInv
<1>1. Init => FullInv
  BY InitTypeInv, InitModes DEF FullInv, OwnershipInv, Init, HandlesOwnStates
<1>2. FullInv /\ [Next]_vars /\ OwnershipInv' => FullInv'
  <2> SUFFICES ASSUME FullInv, [Next]_vars, OwnershipInv' PROVE FullInv'
    OBVIOUS
  <2>0. OwnershipInv /\ TypeInv /\ ModeInv
    BY DEF FullInv, OwnershipInv
  <2>1. ASSUME NEW i \in Instances,
               Manage(i) \/ Call(i) \/ FMUStateCall(i) \/ Stepping(i)
        PROVE  ModeInv'
    BY <2>0, <2>1, ManageModes, CallModes, FMUStateCallModes, SteppingModes
  <2>2. ASSUME UNCHANGED vars PROVE ModeInv'
    BY <2>0, <2>2
       DEF vars, ModeInv, InstanceInv, Absent, AtRest, InStep, SnapshotsCoherent
  <2>3. ASSUME Next PROVE ModeInv'
    <3>1. PICK i \in Instances :
            Manage(i) \/ Call(i) \/ FMUStateCall(i) \/ Stepping(i)
      BY <2>3 DEF Next
    <3> QED BY <2>1, <3>1
  <2>4. ModeInv'
    BY <2>2, <2>3
  <2> QED BY <2>4 DEF FullInv
<1> QED BY <1>1, <1>2, OwnershipInvariant, PTL DEF Spec

(* No slave ever receives a call that its mode does not allow.             *)
THEOREM CallsAreLegal ==
  ASSUME Polite
  PROVE  Spec => []SlaveNeverMisused
<1>1. FullInv => SlaveNeverMisused
  BY ModesAreModes
     DEF FullInv, ModeInv, SlaveNeverMisused, InstanceInv, Absent, AtRest, InStep,
         ModeMirrored
<1> QED BY <1>1, ModeInvariant, PTL

(* Between calls, the mode the wrapper records is the slave's.             *)
THEOREM ModesAgree ==
  ASSUME Polite
  PROVE  Spec => []ModeAgreesWithSlave
<1>1. FullInv => ModeAgreesWithSlave
  <2> SUFFICES ASSUME FullInv, NEW i \in alive, stack[i] = <<>>
               PROVE  slave[i] = IF lc[i].state = "Failed" THEN "Broken"
                                                           ELSE lc[i].state
    BY DEF ModeAgreesWithSlave
  <2>1. i \in Instances /\ InstanceInv(i)
    BY DEF FullInv, OwnershipInv, TypeInv, TypeOK, ModeInv
  <2>2. AtRest(i)
    BY <2>1 DEF InstanceInv, Absent, InStep
  <2> QED BY <2>2, ModesAreModes DEF AtRest
<1> QED BY <1>1, ModeInvariant, PTL

(* No DoStep runs inside another, and updates run only inside a DoStep.    *)
THEOREM StepsDoNotNest ==
  ASSUME Polite
  PROVE  Spec => []OneStepAtATime
<1>1. FullInv => OneStepAtATime
  <2> SUFFICES ASSUME FullInv, NEW i \in Instances
               PROVE  /\ Len(stack[i]) <= 1
                      /\ scope[i].inDoStep <=> stack[i] # <<>>
                      /\ lc[i].state = "IntermediateUpdate" =>
                           stack[i] # <<>> /\ Top(i).update # Null
    BY DEF OneStepAtATime
  <2>1. TypeInv /\ InstanceInv(i)
    BY DEF FullInv, OwnershipInv, ModeInv
  <2>2. CASE Absent(i) \/ AtRest(i)
    BY <2>2, ModesAreModes DEF Absent, AtRest
  <2>3. CASE InStep(i)
    BY <2>3 DEF InStep, TimesMirrored, ModeMirrored, UpdateMirrored, Top
  <2> QED BY <2>1, <2>2, <2>3 DEF InstanceInv
<1> QED BY <1>1, ModeInvariant, PTL

(* Restoring an FMU state puts slave and wrapper in the same mode.         *)
THEOREM StatesAreCoherent ==
  ASSUME Polite
  PROVE  Spec => []SnapshotsCoherent
<1>1. FullInv => SnapshotsCoherent
  BY DEF FullInv, ModeInv
<1> QED BY <1>1, ModeInvariant, PTL
=============================================================================
