-------------------------- MODULE Fmi3Wrapper_proofs --------------------------
(***************************************************************************)
(* Proofs about Fmi3Wrapper, for any number of instances, handles, cells,  *)
(* times and any nesting of DoStep calls.                                  *)
(***************************************************************************)
EXTENDS Fmi3Wrapper, SequenceTheorems, TLAPS

-----------------------------------------------------------------------------
(* A call on a slave ends in one of the ways that RunLegalCall knows,      *)
(* whether the model or the base class answers it.                         *)
LEMMA ResultTypes ==
  /\ \A call \in Calls \ {"DoStep"} : Results(call) \subseteq Outcomes
  /\ {"FmuStateRead", "FmuStateRestore", "SnapshotMemory"} \subseteq Calls
<1>1. ASSUME NEW call \in Calls \ {"DoStep"}
      PROVE  DefaultResults(call) \subseteq Outcomes
  <2>1. CASE call \in ModeMethods
    <3>1. DefaultResults(call) = DoesNothing
      BY <2>1 DEF DefaultResults, ModeMethods, SetMethods, GetMethods,
                  OptionalMethods
    <3> QED BY <3>1 DEF DoesNothing, Outcomes
  <2>2. CASE call \in SetMethods
    <3>1. DefaultResults(call) = RefusesToSet
      BY <2>2 DEF DefaultResults, ModeMethods, SetMethods, GetMethods,
                  OptionalMethods
    <3> QED BY <3>1 DEF RefusesToSet, Outcomes
  <2>3. CASE call \in GetMethods
    <3>1. DefaultResults(call) = RefusesToGet
      BY <2>3 DEF DefaultResults, ModeMethods, SetMethods, GetMethods,
                  OptionalMethods
    <3> QED BY <3>1 DEF RefusesToGet, Outcomes
  <2>4. CASE call \in OptionalMethods
    <3>1. DefaultResults(call) = IsUnsupported
      BY <2>4 DEF DefaultResults, ModeMethods, SetMethods, GetMethods,
                  OptionalMethods
    <3> QED BY <3>1 DEF IsUnsupported, Outcomes
  <2>5. \/ call \in ModeMethods \/ call \in SetMethods \/ call \in GetMethods
        \/ call \in OptionalMethods
    BY DEF ModeMethods, SetMethods, GetMethods, OptionalMethods, Calls
  <2> QED BY <2>1, <2>2, <2>3, <2>4, <2>5
<1> QED BY <1>1 DEF Results, Calls

-----------------------------------------------------------------------------
(* Lifecycle: its operators keep a lifecycle well typed, and no call but   *)
(* those the wrapper treats apart is legal outside the modes.              *)

LEMMA LifecycleTypes ==
  ASSUME NEW l \in LifecycleType, NEW call \in Calls, NEW outcome \in Outcomes
  PROVE  /\ Transition(call, l.state) \in States
         /\ Completed(l, call, outcome) \in LifecycleType
         /\ Fail(l) \in LifecycleType
<1>1. Transition(call, l.state) \in States
  BY DEF Transition, LifecycleType, States, Calls
<1>2. OnSuccess(l, call) \in LifecycleType
  BY <1>1 DEF OnSuccess, LifecycleType, States
<1>3. Fail(l) \in LifecycleType
  BY DEF Fail, LifecycleType, States
<1>4. Completed(l, call, outcome) \in LifecycleType
  BY <1>2, <1>3 DEF Completed, Outcomes, Failures
<1> QED BY <1>1, <1>3, <1>4

LEMMA RestoreTypes ==
  ASSUME NEW l \in LifecycleType, NEW saved \in Readable
  PROVE  RestoreFromSnapshot(l, saved) \in LifecycleType
BY DEF RestoreFromSnapshot, IsSnapshotMode, LegalStates, Readable, Writable,
       Running, LifecycleType, States

LEMMA UpdateModeTypes ==
  ASSUME NEW l \in LifecycleType, NEW set \in BOOLEAN, NEW get \in BOOLEAN
  PROVE  /\ EnterIntermediateUpdate(l, set, get) \in LifecycleType
         /\ LeaveIntermediateUpdate(l) \in LifecycleType
BY DEF EnterIntermediateUpdate, LeaveIntermediateUpdate, LifecycleType, States

LEMMA NewLifecycleType ==
  ASSUME NEW e \in BOOLEAN
  PROVE  NewLifecycle(e) \in LifecycleType
BY DEF NewLifecycle, LifecycleType, States

LEMMA CodesAreInverse ==
  ASSUME NEW mode \in Readable
  PROVE  ModeCode(mode) \in 1..5 /\ ModeFromCode(ModeCode(mode)) = mode
BY DEF ModeCode, ModeFromCode, Readable, Writable, Running

LEMMA CodeTypes ==
  ASSUME NEW code \in 1..5
  PROVE  ModeFromCode(code) \in Readable
BY DEF ModeFromCode, Readable, Writable, Running

-----------------------------------------------------------------------------
(* Call stacks.                                                            *)

LEMMA TopFrame ==
  ASSUME NEW s \in Seq(Frame), s # <<>>
  PROVE  Len(s) \in Nat \ {0} /\ s[Len(s)] \in Frame
OBVIOUS

LEMMA ReplaceTop ==
  ASSUME NEW s \in Seq(Frame), s # <<>>, NEW f \in Frame
  PROVE  /\ [s EXCEPT ![Len(s)] = f] \in Seq(Frame)
         /\ Len([s EXCEPT ![Len(s)] = f]) = Len(s)
OBVIOUS

LEMMA PopFrame ==
  ASSUME NEW s \in Seq(Frame), s # <<>>
  PROVE  /\ SubSeq(s, 1, Len(s) - 1) \in Seq(Frame)
         /\ Len(SubSeq(s, 1, Len(s) - 1)) = Len(s) - 1
         /\ \A k \in 1..Len(s) - 1 : SubSeq(s, 1, Len(s) - 1)[k] = s[k]
<1>1. Len(s) \in Nat \ {0} /\ \A k \in 1..Len(s) - 1 : s[k] \in Frame
  OBVIOUS
<1> DEFINE n == Len(s) - 1
<1>2. n \in Nat /\ \A k \in 1..n : s[k] \in Frame
  BY <1>1
<1>3. \A k \in 1..n - 1 + 1 : 1 + k - 1 = k
  BY <1>2
<1> HIDE DEF n
<1>4. /\ SubSeq(s, 1, n) \in Seq(Frame)
      /\ Len(SubSeq(s, 1, n)) = IF 1 <= n THEN n - 1 + 1 ELSE 0
      /\ \A k \in 1..n - 1 + 1 : SubSeq(s, 1, n)[k] = s[1 + k - 1]
  BY <1>2, SubSeqProperties, 1 \in Int, n \in Int
<1>5. (IF 1 <= n THEN n - 1 + 1 ELSE 0) = n /\ n - 1 + 1 = n
  BY <1>2
<1>6. \A k \in 1..n : SubSeq(s, 1, n)[k] = s[k]
  BY <1>3, <1>4, <1>5
<1> QED BY <1>4, <1>5, <1>6 DEF n

(* Every DoStep but the innermost is waiting in its callback.              *)
AllInCallback(s) == \A k \in 1..Len(s) : s[k].update # Null
OuterInCallback(s) == \A k \in 1..Len(s) - 1 : s[k].update # Null

LEMMA MarkFrame ==
  ASSUME NEW f \in Frame, f.update # Null, NEW call, NEW outcome
  PROVE  /\ MarkedFrame(f, call, outcome) \in Frame
         /\ MarkedFrame(f, call, outcome).update # Null
<1> DEFINE wrote == call = "WriteVariable" /\ outcome = "ok"
<1>1. f.update \in Update
  BY DEF Frame
<1>2. MarkedUpdate(f.update, wrote) \in Update
  <2> wrote \in BOOLEAN
    OBVIOUS
  <2> HIDE DEF wrote
  <2> QED BY <1>1 DEF Update, MarkedUpdate
<1>3. MarkedUpdate(f.update, wrote) # Null
  BY <1>2, ConstantsAssumption
<1>4. (f.hurt \/ outcome \in Failures) \in BOOLEAN
  OBVIOUS
<1> HIDE DEF wrote
<1>5. MarkedFrame(f, call, outcome) =
        [f EXCEPT !.hurt = f.hurt \/ outcome \in Failures,
                  !.update = MarkedUpdate(f.update, wrote)]
  BY DEF MarkedFrame, wrote
<1> QED BY <1>2, <1>3, <1>4, <1>5 DEF Frame

LEMMA MarkedStack ==
  ASSUME NEW s \in Seq(Frame), AllInCallback(s), NEW call, NEW outcome
  PROVE  /\ Marked(s, call, outcome) \in Seq(Frame)
         /\ AllInCallback(Marked(s, call, outcome))
<1>1. CASE s = <<>>
  BY <1>1 DEF Marked
<1>2. CASE s # <<>>
  <2> DEFINE g == MarkedFrame(s[Len(s)], call, outcome)
  <2>1. Len(s) \in Nat \ {0} /\ s[Len(s)] \in Frame
    BY <1>2, TopFrame
  <2>2. s[Len(s)].update # Null
    BY <2>1 DEF AllInCallback
  <2>3. g \in Frame /\ g.update # Null
    BY <2>1, <2>2, MarkFrame
  <2>4. Marked(s, call, outcome) = [s EXCEPT ![Len(s)] = g]
    BY <1>2 DEF Marked
  <2> HIDE DEF g
  <2>5. [s EXCEPT ![Len(s)] = g] \in Seq(Frame)
    BY <1>2, <2>3, ReplaceTop
  <2>6. AllInCallback([s EXCEPT ![Len(s)] = g])
    BY <1>2, <2>3, ReplaceTop DEF AllInCallback
  <2> QED BY <2>4, <2>5, <2>6
<1> QED BY <1>1, <1>2

-----------------------------------------------------------------------------
(* Type correctness.  The type of a marked stack needs the callback to be  *)
(* running in each frame but the innermost, so the two are shown together. *)

NestedInCallback == \A i \in Instances : OuterInCallback(stack[i])

TypeInv == TypeOK /\ NestedInCallback

LEMMA InitTypeInv == Init => TypeInv
<1> SUFFICES ASSUME Init PROVE TypeInv
  OBVIOUS
<1>1. NewLifecycle(FALSE) \in LifecycleType
  BY NewLifecycleType
<1>2. NewScope \in Scope
  BY ConstantsAssumption DEF NewScope, Scope, Times
<1>3. /\ lc \in [Instances -> LifecycleType]
      /\ scope \in [Instances -> Scope]
      /\ stack \in [Instances -> Seq(Frame)]
  <2>1. <<>> \in Seq(Frame)
    OBVIOUS
  <2> HIDE DEF Frame
  <2> QED BY <1>1, <1>2, <2>1 DEF Init
<1>4. TypeOK
  BY <1>3 DEF Init, TypeOK, Phases, Statuses
<1>5. NestedInCallback
  BY DEF Init, NestedInCallback, OuterInCallback
<1> QED BY <1>4, <1>5 DEF TypeInv

LEMMA CallerStack ==
  ASSUME TypeInv, NEW i \in Instances, MayCall(i)
  PROVE  AllInCallback(stack[i])
<1>1. stack[i] \in Seq(Frame) /\ OuterInCallback(stack[i])
  BY DEF TypeInv, TypeOK, NestedInCallback
<1>2. stack[i] # <<>> => stack[i][Len(stack[i])].update # Null
  BY DEF MayCall, Top
<1> QED BY <1>1, <1>2 DEF AllInCallback, OuterInCallback

LEMMA SlaveTypes ==
  ASSUME TypeInv, NEW i \in Instances, NEW call, NEW outcome, NEW next \in Phases
  PROVE  SlaveAfter(i, call, outcome, next) \in Phases /\ SlaveMoves(i, call) \in Phases
BY DEF TypeInv, TypeOK, SlaveAfter, SlaveMoves, Phases, Readable, Writable, Running

(* What a call leaves of the state it may touch.                           *)
CallEffectTyped ==
  /\ lc' \in [Instances -> LifecycleType]
  /\ slave' \in [Instances -> Phases]
  /\ stack' \in [Instances -> Seq(Frame)]
  /\ stepStatus' \in [Instances -> Statuses]
  /\ NestedInCallback'
  /\ alive' \subseteq Instances
  /\ hasCallback' \in [Instances -> BOOLEAN]
  /\ scope' \in [Instances -> Scope]

LEMMA MarkedStacks ==
  ASSUME TypeInv, NEW i \in Instances, MayCall(i), NEW call, NEW outcome,
         stack' = [stack EXCEPT ![i] = Marked(@, call, outcome)]
  PROVE  stack' \in [Instances -> Seq(Frame)] /\ NestedInCallback'
<1>1. stack \in [Instances -> Seq(Frame)]
  BY DEF TypeInv, TypeOK
<1>2. /\ Marked(stack[i], call, outcome) \in Seq(Frame)
      /\ AllInCallback(Marked(stack[i], call, outcome))
  BY <1>1, CallerStack, MarkedStack
<1>3. stack' \in [Instances -> Seq(Frame)]
  BY <1>1, <1>2
<1>4. \A j \in Instances : OuterInCallback(stack'[j])
  <2> TAKE j \in Instances
  <2>1. CASE j = i
    <3>1. stack'[j] = Marked(stack[i], call, outcome)
      BY <1>1, <2>1
    <3> QED BY <1>2, <3>1 DEF AllInCallback, OuterInCallback
  <2>2. CASE j # i
    BY <1>1, <2>2 DEF TypeInv, NestedInCallback
  <2> QED BY <2>1, <2>2
<1> QED BY <1>3, <1>4 DEF NestedInCallback

LEMMA RunLegalCallTyped ==
  ASSUME TypeInv, NEW i \in Instances, NEW call \in Calls,
         NEW outcome \in Outcomes, NEW next \in Phases,
         RunLegalCall(i, call, outcome, next)
  PROVE  CallEffectTyped
<1> USE DEF RunLegalCall
<1>1. MayCall(i)
  BY DEF Served
<1>2. lc[i] \in LifecycleType
  BY DEF TypeInv, TypeOK
<1>3. Completed(lc[i], call, outcome) \in LifecycleType
  BY <1>2, LifecycleTypes
<1>4. SlaveAfter(i, call, outcome, next) \in Phases
  BY SlaveTypes
<1>5. stack' \in [Instances -> Seq(Frame)] /\ NestedInCallback'
  BY <1>1, MarkedStacks
<1> QED BY <1>3, <1>4, <1>5 DEF TypeInv, TypeOK, CallEffectTyped, Statuses

LEMMA EffectTypeInv ==
  ASSUME TypeInv, CallEffectTyped,
         heap' \in [Cells -> Snapshot \cup {Null}],
         handle' \in [Handles -> Cells \cup {Null}],
         buffer' \in Buffer \cup {Null}
  PROVE  TypeInv'
BY DEF CallEffectTyped, TypeInv, TypeOK

LEMMA DispatchTypeInv ==
  ASSUME TypeInv, NEW i \in Instances, NEW call \in Calls \ {"DoStep"},
         Dispatch(i, call)
  PROVE  TypeInv'
<1>1. PICK outcome \in Outcomes : RunLegalCall(i, call, outcome, SlaveMoves(i, call))
  BY ResultTypes DEF Dispatch
<1>2. SlaveMoves(i, call) \in Phases
  BY SlaveTypes, "Gone" \in Phases DEF Phases
<1>3. CallEffectTyped
  BY <1>1, <1>2, RunLegalCallTyped
<1>4. UNCHANGED snapshotVars
  BY DEF Dispatch
<1> QED BY <1>3, <1>4, EffectTypeInv DEF snapshotVars, TypeInv, TypeOK

LEMMA ManageTypeInv ==
  ASSUME TypeInv, NEW i \in Instances, Manage(i)
  PROVE  TypeInv'
<1>1. NewScope \in Scope
  BY ConstantsAssumption DEF NewScope, Scope, Times
<1>2. "Instantiated" \in Phases /\ "Gone" \in Phases /\ "None" \in Statuses
  BY DEF Phases, Readable, Writable, Statuses
<1>3. ASSUME NEW e \in EventModes, NEW cb \in Callbacks,
             InstantiateCoSimulation(i, e, cb)
      PROVE  TypeInv'
  <2>1. e \in BOOLEAN /\ cb \in BOOLEAN /\ NewLifecycle(e) \in LifecycleType
    BY ConstantsAssumption, NewLifecycleType
  <2>2. CallEffectTyped
    BY <1>1, <1>2, <1>3, <2>1
       DEF InstantiateCoSimulation, CallEffectTyped, TypeInv, TypeOK, NestedInCallback
  <2> QED BY <1>3, <2>2, EffectTypeInv DEF InstantiateCoSimulation, TypeInv, TypeOK
<1>4. ASSUME FreeInstance(i) PROVE TypeInv'
  <2>1. NewLifecycle(FALSE) \in LifecycleType
    BY NewLifecycleType
  <2>2. CallEffectTyped
    BY <1>1, <1>2, <1>4, <2>1
       DEF FreeInstance, CallEffectTyped, TypeInv, TypeOK, NestedInCallback
  <2> QED BY <1>4, <2>2, EffectTypeInv DEF FreeInstance, TypeInv, TypeOK
<1> QED BY <1>3, <1>4 DEF Manage

LEMMA CallTypeInv ==
  ASSUME TypeInv, NEW i \in Instances, Call(i)
  PROVE  TypeInv'
<1>1. ASSUME RefuseCall(i) PROVE TypeInv'
  BY <1>1 DEF RefuseCall, TypeInv, TypeOK, NestedInCallback, Statuses
<1>2. ASSUME ~RefuseCall(i)
      PROVE  \E call \in Calls \ {"DoStep"} : Dispatch(i, call)
  BY <1>2 DEF Call, ChangeMode, EnterStepMode, GetVariable, SetVariable,
     QueryDerivative, GetOutputDerivatives, EvaluateDiscreteStates,
     UpdateDiscreteStates, Calls
<1> QED BY <1>1, <1>2, DispatchTypeInv

-----------------------------------------------------------------------------
(* FMU states.                                                             *)

LEMMA TakenNowType ==
  ASSUME TypeInv, NEW i \in Instances, Served(i, "FmuStateRead")
  PROVE  TakenNow(i) \in Snapshot
BY DEF TypeInv, TypeOK, Served, Allows, LegalStates, TakenNow, Snapshot

LEMMA OwnedState ==
  ASSUME TypeInv, NEW i \in Instances, NEW h \in Handles, Owns(i, h)
  PROVE  handle[h] \in Cells
BY DEF TypeInv, TypeOK, Owns

LEMMA FMUStateCallTypeInv ==
  ASSUME TypeInv, HandlesOwnStates, NEW i \in Instances, FMUStateCall(i)
  PROVE  TypeInv'
<1>0. /\ heap \in [Cells -> Snapshot \cup {Null}]
      /\ handle \in [Handles -> Cells \cup {Null}]
      /\ buffer \in Buffer \cup {Null}
      /\ slave[i] \in Phases /\ lc[i] \in LifecycleType
  BY DEF TypeInv, TypeOK
<1>a. \A h \in Handles : Owns(i, h) => heap[handle[h]] # Null
  BY DEF Owns, HandlesOwnStates
<1>c. {"FmuStateRead", "FmuStateRestore", "SnapshotMemory"} \subseteq Calls
  BY DEF Calls
<1>1. ASSUME NEW h \in Handles, NEW c \in Cells, GetFMUState(i, h, c) PROVE TypeInv'
  <2>1. PICK outcome \in Outcomes :
          /\ RunLegalCall(i, "FmuStateRead", outcome, slave[i])
          /\ heap' = IF outcome = "ok" THEN [heap EXCEPT ![c] = TakenNow(i)] ELSE heap
          /\ handle' = IF outcome = "ok" THEN [handle EXCEPT ![h] = c] ELSE handle
    BY <1>1, ResultTypes DEF GetFMUState
  <2>2. CallEffectTyped
    BY <1>0, <1>c, <2>1, RunLegalCallTyped
  <2>3. TakenNow(i) \in Snapshot
    BY <2>1, TakenNowType DEF RunLegalCall
  <2> QED BY <1>0, <1>1, <2>1, <2>2, <2>3, EffectTypeInv DEF GetFMUState
<1>2. ASSUME NEW h \in Handles, OverwriteFMUState(i, h) PROVE TypeInv'
  <2>1. PICK outcome \in Outcomes :
          /\ RunLegalCall(i, "FmuStateRead", outcome, slave[i])
          /\ heap' = [heap EXCEPT ![handle[h]] = Overwritten(i, @, outcome)]
    BY <1>2, ResultTypes DEF OverwriteFMUState
  <2>2. CallEffectTyped
    BY <1>0, <1>c, <2>1, RunLegalCallTyped
  <2>3. TakenNow(i) \in Snapshot
    BY <2>1, TakenNowType DEF RunLegalCall
  <2>4. handle[h] \in Cells
    BY <1>2, OwnedState DEF OverwriteFMUState
  <2>5. Overwritten(i, heap[handle[h]], outcome) \in Snapshot \cup {Null}
    BY <1>0, <2>3, <2>4 DEF Overwritten
  <2> QED BY <1>0, <1>2, <2>1, <2>2, <2>4, <2>5, EffectTypeInv DEF OverwriteFMUState
<1>3. ASSUME NEW h \in Handles, SetFMUState(i, h) PROVE TypeInv'
  <2> DEFINE state == heap[handle[h]]
  <2>1. PICK outcome \in Outcomes :
          /\ lc' = [lc EXCEPT ![i] = Restored(@, state.mode, outcome)]
          /\ slave' = [slave EXCEPT ![i] =
                         SlaveAfter(i, "FmuStateRestore", outcome, state.slave)]
          /\ stack' = [stack EXCEPT ![i] = Marked(@, "FmuStateRestore", outcome)]
    BY <1>3, ResultTypes DEF SetFMUState
  <2>2. state \in Snapshot
    BY <1>0, <1>a, <1>3, OwnedState DEF SetFMUState
  <2>3. state.mode \in Readable /\ state.slave \in Phases
    BY <2>2 DEF Snapshot
  <2> HIDE DEF state
  <2>4. Completed(lc[i], "FmuStateRestore", outcome) \in LifecycleType
    BY <1>0, <1>c, LifecycleTypes
  <2>5. Restored(lc[i], state.mode, outcome) \in LifecycleType
    BY <2>3, <2>4, RestoreTypes DEF Restored
  <2>6. SlaveAfter(i, "FmuStateRestore", outcome, state.slave) \in Phases
    BY <2>3, SlaveTypes
  <2>7. MayCall(i)
    BY <1>3 DEF SetFMUState, Served
  <2>8. stack' \in [Instances -> Seq(Frame)] /\ NestedInCallback'
    BY <2>1, <2>7, MarkedStacks
  <2>9. CallEffectTyped
    BY <1>3, <2>1, <2>5, <2>6, <2>8
       DEF SetFMUState, CallEffectTyped, TypeInv, TypeOK, Statuses
  <2> QED BY <1>0, <1>3, <2>9, EffectTypeInv DEF SetFMUState
<1>4. ASSUME NEW h \in Handles, FreeFMUState(i, h) PROVE TypeInv'
  <2>1. PICK outcome \in Outcomes :
          /\ RunLegalCall(i, "SnapshotMemory", outcome, slave[i])
          /\ heap' = IF outcome = "ok" THEN [heap EXCEPT ![handle[h]] = Null] ELSE heap
          /\ handle' = [handle EXCEPT ![h] = HandleAfterFree(@, outcome)]
    BY <1>4, ResultTypes DEF FreeFMUState
  <2>2. CallEffectTyped
    BY <1>0, <1>c, <2>1, RunLegalCallTyped
  <2> QED BY <1>0, <1>4, <2>1, <2>2, EffectTypeInv DEF FreeFMUState, HandleAfterFree
<1>5. ASSUME NEW h \in Handles, SerializedFMUStateSize(i, h) PROVE TypeInv'
  BY <1>c, <1>5, DispatchTypeInv DEF SerializedFMUStateSize
<1>6. ASSUME NEW h \in Handles, SerializeFMUState(i, h) PROVE TypeInv'
  <2>1. PICK outcome \in Outcomes :
          /\ RunLegalCall(i, "SnapshotMemory", outcome, slave[i])
          /\ buffer' = IF outcome = "ok"
                         THEN [code |-> ModeCode(heap[handle[h]].mode),
                               slave |-> heap[handle[h]].slave]
                         ELSE Null
    BY <1>6, ResultTypes DEF SerializeFMUState
  <2>2. CallEffectTyped
    BY <1>0, <1>c, <2>1, RunLegalCallTyped
  <2>3. heap[handle[h]] \in Snapshot
    BY <1>0, <1>a, <1>6, OwnedState DEF SerializeFMUState
  <2>4. buffer' \in Buffer \cup {Null}
    BY <2>1, <2>3, CodesAreInverse DEF Snapshot, Buffer
  <2> QED BY <1>0, <1>6, <2>2, <2>4, EffectTypeInv DEF SerializeFMUState
<1>7. ASSUME NEW h \in Handles, NEW c \in Cells, DeserializeFMUState(i, h, c)
      PROVE  TypeInv'
  <2> DEFINE read == [owner |-> i, mode |-> ModeFromCode(buffer.code),
                      slave |-> buffer.slave]
  <2>1. PICK outcome \in Outcomes :
          /\ RunLegalCall(i, "SnapshotMemory", outcome, slave[i])
          /\ heap' = IF outcome = "ok" THEN [heap EXCEPT ![c] = read] ELSE heap
          /\ handle' = IF outcome = "ok" THEN [handle EXCEPT ![h] = c] ELSE handle
    BY <1>7, ResultTypes DEF DeserializeFMUState
  <2>2. CallEffectTyped
    BY <1>0, <1>c, <2>1, RunLegalCallTyped
  <2>3. read \in Snapshot
    BY <1>0, <1>7, CodeTypes DEF DeserializeFMUState, Buffer, Snapshot
  <2> HIDE DEF read
  <2> QED BY <1>0, <1>7, <2>1, <2>2, <2>3, EffectTypeInv DEF DeserializeFMUState
<1>8. ASSUME RejectBytes(i) PROVE TypeInv'
  <2>1. lc[i] = Completed(lc[i], "SnapshotMemory", "logic")
    BY DEF Completed, Failures
  <2> QED BY <1>0, <1>8, <2>1
          DEF RejectBytes, TypeInv, TypeOK, NestedInCallback, Statuses
<1> QED BY <1>1, <1>2, <1>3, <1>4, <1>5, <1>6, <1>7, <1>8 DEF FMUStateCall

-----------------------------------------------------------------------------
(* DoStep and its updates.                                                 *)

LEMMA ReplacedTop ==
  ASSUME TypeInv, NEW i \in Instances, stack[i] # <<>>, NEW f \in Frame,
         stack' = [stack EXCEPT ![i] = [@ EXCEPT ![Len(@)] = f]]
  PROVE  stack' \in [Instances -> Seq(Frame)] /\ NestedInCallback'
<1>1. stack \in [Instances -> Seq(Frame)]
  BY DEF TypeInv, TypeOK
<1> DEFINE s == [stack[i] EXCEPT ![Len(stack[i])] = f]
<1>2. s \in Seq(Frame) /\ Len(s) = Len(stack[i])
  BY <1>1, ReplaceTop
<1>3. stack' = [stack EXCEPT ![i] = s]
  OBVIOUS
<1>4. OuterInCallback(s)
  <2>1. Len(stack[i]) \in Nat
    BY <1>1
  <2>2. \A k \in 1..Len(s) - 1 : s[k] = stack[i][k]
    BY <1>1, <1>2, <2>1
  <2> QED BY <1>2, <2>2 DEF TypeInv, NestedInCallback, OuterInCallback
<1> HIDE DEF s
<1>5. \A j \in Instances : OuterInCallback(stack'[j])
  BY <1>1, <1>3, <1>4 DEF TypeInv, NestedInCallback
<1> QED BY <1>1, <1>2, <1>3, <1>5 DEF NestedInCallback

LEMMA TopOfRunning ==
  ASSUME TypeInv, NEW i \in Instances, stack[i] # <<>>
  PROVE  Top(i) \in Frame
BY TopFrame DEF TypeInv, TypeOK, Top

LEMMA BeginDoStepTypeInv ==
  ASSUME TypeInv, NEW i \in Instances, NEW t \in Times \cup {NaN},
         NEW end \in StepEnds(t), BeginDoStep(i, t, end)
  PROVE  TypeInv'
<1> DEFINE f == [start |-> t, end |-> end, finished |-> t, update |-> Null,
                 pending |-> "none", early |-> Null, hurt |-> FALSE]
<1>0. stack \in [Instances -> Seq(Frame)] /\ slave[i] \in Phases
  BY DEF TypeInv, TypeOK
<1>1. end \in Times \cup {NaN}
  <2>1. CASE t = NaN
    BY <2>1 DEF StepEnds
  <2>2. CASE t # NaN
    BY <2>2, ConstantsAssumption DEF StepEnds, Times
  <2> QED BY <2>1, <2>2
<1>2. f \in Frame
  BY <1>1 DEF Frame
<1>3. NewStep(t, end) \in Scope
  BY <1>1 DEF NewStep, Scope
<1>4. stack' = [stack EXCEPT ![i] = Append(@, f)]
  BY DEF BeginDoStep
<1> HIDE DEF f
<1>5. Append(stack[i], f) \in Seq(Frame) /\ OuterInCallback(Append(stack[i], f))
  <2>1. AllInCallback(stack[i])
    BY CallerStack DEF BeginDoStep, Served
  <2> QED BY <1>0, <1>2, <2>1 DEF AllInCallback, OuterInCallback
<1>6. stack' \in [Instances -> Seq(Frame)]
  BY <1>0, <1>4, <1>5
<1>7. NestedInCallback'
  BY <1>0, <1>4, <1>5 DEF TypeInv, NestedInCallback
<1>8. SlaveAfter(i, "DoStep", "ok", slave[i]) \in Phases
  BY <1>0, SlaveTypes
<1>9. CallEffectTyped
  BY <1>3, <1>6, <1>7, <1>8
     DEF BeginDoStep, CallEffectTyped, TypeInv, TypeOK, Statuses
<1> QED BY <1>9, EffectTypeInv DEF BeginDoStep, TypeInv, TypeOK

LEMMA SlaveCodeTypeInv ==
  ASSUME TypeInv, NEW i \in Instances, RejectUpdate(i) \/ CatchException(i)
  PROVE  TypeInv'
<1>1. stack[i] # <<>>
  BY DEF RejectUpdate, CatchException, SlaveRuns
<1>2. PICK p \in {"none", "logic"} :
        stack' = [stack EXCEPT ![i][Len(stack[i])].pending = p]
  BY DEF RejectUpdate, CatchException
<1> DEFINE f == [Top(i) EXCEPT !.pending = p]
<1>3. f \in Frame
  BY <1>1, TopOfRunning DEF Frame
<1>4. stack' = [stack EXCEPT ![i] = [@ EXCEPT ![Len(@)] = f]]
  BY <1>2 DEF Top
<1> HIDE DEF f
<1>5. stack' \in [Instances -> Seq(Frame)] /\ NestedInCallback'
  BY <1>1, <1>3, <1>4, ReplacedTop
<1>6. UNCHANGED <<alive, lc, hasCallback, scope, slave, stepStatus, heap, handle, buffer>>
  BY DEF RejectUpdate, CatchException
<1> QED BY <1>5, <1>6 DEF TypeInv, TypeOK

LEMMA OpenUpdateTypeInv ==
  ASSUME TypeInv, NEW i \in Instances, NEW u \in NewUpdates, OpenUpdate(i, u)
  PROVE  TypeInv'
<1> DEFINE f == [Top(i) EXCEPT !.update = u]
<1>1. stack[i] # <<>> /\ lc[i] \in LifecycleType
  BY DEF OpenUpdate, SlaveRuns, TypeInv, TypeOK
<1>2. u \in Update
  BY DEF NewUpdates
<1>3. f \in Frame
  BY <1>1, <1>2, TopOfRunning DEF Frame
<1>4. stack' = [stack EXCEPT ![i] = [@ EXCEPT ![Len(@)] = f]]
  BY DEF OpenUpdate, Top
<1> HIDE DEF f
<1>5. stack' \in [Instances -> Seq(Frame)] /\ NestedInCallback'
  BY <1>1, <1>3, <1>4, ReplacedTop
<1>6. EnterIntermediateUpdate(lc[i], u.set, u.get) \in LifecycleType
  BY <1>1, <1>2, UpdateModeTypes DEF Update
<1> QED BY <1>5, <1>6 DEF OpenUpdate, TypeInv, TypeOK

LEMMA CallbackReturnsTypeInv ==
  ASSUME TypeInv, NEW i \in Instances, NEW request \in Times \cup {NaN, Null},
         CallbackReturns(i, request)
  PROVE  TypeInv'
<1>1. stack[i] # <<>> /\ lc[i] \in LifecycleType /\ scope[i] \in Scope
  BY DEF CallbackReturns, TypeInv, TypeOK
<1>2. Top(i) \in Frame /\ Top(i).update \in Update
  BY <1>1, TopOfRunning DEF CallbackReturns, Frame
<1>3. ~EarlyReturnRejected(i, request) => request # NaN
  BY DEF EarlyReturnRejected, Leq
<1>4. AfterUpdate(i, request) \in Frame
  BY <1>2, <1>3 DEF AfterUpdate, Frame, Update
<1>5. stack' = [stack EXCEPT ![i] = [@ EXCEPT ![Len(@)] = AfterUpdate(i, request)]]
  BY DEF CallbackReturns
<1>6. stack' \in [Instances -> Seq(Frame)] /\ NestedInCallback'
  BY <1>1, <1>4, <1>5, ReplacedTop
<1>7. LeaveIntermediateUpdate(lc[i]) \in LifecycleType
  BY <1>1, UpdateModeTypes
<1>8. scope' \in [Instances -> Scope]
  BY <1>1, <1>2 DEF CallbackReturns, TypeInv, TypeOK, Scope, Update
<1> QED BY <1>6, <1>7, <1>8 DEF CallbackReturns, TypeInv, TypeOK

LEMMA EndDoStepTypeInv ==
  ASSUME TypeInv, NEW i \in Instances, NEW outcome \in StepOutcomes,
         EndDoStep(i, outcome)
  PROVE  TypeInv'
<1> DEFINE mark == IF outcome \in StepFailures THEN "error" ELSE "ok"
           s    == SubSeq(stack[i], 1, Len(stack[i]) - 1)
<1>1. /\ stack \in [Instances -> Seq(Frame)] /\ stack[i] # <<>>
      /\ lc[i] \in LifecycleType /\ scope \in [Instances -> Scope]
      /\ OuterInCallback(stack[i])
  BY DEF EndDoStep, SlaveRuns, TypeInv, TypeOK, NestedInCallback
<1>2. s \in Seq(Frame) /\ AllInCallback(s)
  BY <1>1, PopFrame DEF AllInCallback, OuterInCallback
<1>3. Returned(stack[i], outcome) = Marked(s, "DoStep", mark)
  BY DEF Returned
<1> HIDE DEF s, mark
<1>4. /\ Returned(stack[i], outcome) \in Seq(Frame)
      /\ AllInCallback(Returned(stack[i], outcome))
  BY <1>2, <1>3, MarkedStack
<1>5. OuterInCallback(Returned(stack[i], outcome))
  BY <1>4 DEF AllInCallback, OuterInCallback
<1>6. stack' = [stack EXCEPT ![i] = Returned(@, outcome)]
  BY DEF EndDoStep
<1>7. stack' \in [Instances -> Seq(Frame)] /\ NestedInCallback'
  BY <1>1, <1>4, <1>5, <1>6 DEF TypeInv, NestedInCallback
<1>8. AfterStep(lc[i], outcome) \in LifecycleType
  BY <1>1 DEF AfterStep, Fail, LifecycleType, States
<1>9. scope' \in [Instances -> Scope]
  BY <1>1 DEF EndDoStep, Scope
<1>10. StepStatus(outcome) \in Statuses
  BY DEF StepStatus, StepOutcomes, Outcomes, Statuses
<1>11. slave' \in [Instances -> Phases]
  BY DEF EndDoStep, TypeInv, TypeOK, Phases
<1> QED BY <1>7, <1>8, <1>9, <1>10, <1>11 DEF EndDoStep, TypeInv, TypeOK

LEMMA SteppingTypeInv ==
  ASSUME TypeInv, NEW i \in Instances, Stepping(i)
  PROVE  TypeInv'
BY BeginDoStepTypeInv, SlaveCodeTypeInv, OpenUpdateTypeInv,
   CallbackReturnsTypeInv, EndDoStepTypeInv DEF Stepping

-----------------------------------------------------------------------------
(* Ownership of FMU states, and with it type correctness.                  *)

LEMMA HandlesKept ==
  ASSUME HandlesOwnStates, UNCHANGED <<heap, handle>>, alive \subseteq alive'
  PROVE  HandlesOwnStates'
BY DEF HandlesOwnStates

LEMMA ManageHandles ==
  ASSUME TypeInv, HandlesOwnStates, NEW i \in Instances, Manage(i)
  PROVE  HandlesOwnStates'
<1>1. ASSUME NEW e \in EventModes, NEW cb \in Callbacks,
             InstantiateCoSimulation(i, e, cb)
      PROVE  HandlesOwnStates'
  BY <1>1, HandlesKept DEF InstantiateCoSimulation
<1>2. ASSUME FreeInstance(i) PROVE HandlesOwnStates'
  <2>1. \A c \in Cells : heap[c] # Null => heap[c].owner # i
    BY <1>2 DEF FreeInstance
  <2>2. \A h \in Handles : handle[h] # Null =>
          handle[h] \in Cells /\ heap[handle[h]].owner \in alive \ {i}
    BY <2>1 DEF HandlesOwnStates, TypeInv, TypeOK
  <2> QED BY <1>2, <2>2 DEF FreeInstance, HandlesOwnStates
<1> QED BY <1>1, <1>2 DEF Manage

(* A new state in a free cell, held by a handle that was null.             *)
LEMMA NewStateHeld ==
  ASSUME TypeInv, HandlesOwnStates, NEW i \in alive, NEW h \in Handles,
         NEW c \in Cells, NEW state \in Snapshot, state.owner = i,
         handle[h] = Null, heap[c] = Null,
         heap' = [heap EXCEPT ![c] = state], handle' = [handle EXCEPT ![h] = c],
         UNCHANGED alive
  PROVE  HandlesOwnStates'
<1>1. state # Null /\ c # Null
  BY ConstantsAssumption
<1>2. /\ heap \in [Cells -> Snapshot \cup {Null}]
      /\ handle \in [Handles -> Cells \cup {Null}]
  BY DEF TypeInv, TypeOK
<1>3. \A g \in Handles : handle[g] # c
  BY <1>1 DEF HandlesOwnStates
<1>4. /\ handle'[h] = c /\ \A g \in Handles \ {h} : handle'[g] = handle[g]
      /\ heap'[c] = state /\ \A d \in Cells \ {c} : heap'[d] = heap[d]
      /\ alive' = alive
  BY <1>2
<1>5. \A g \in Handles : handle'[g] # Null =>
        heap'[handle'[g]] # Null /\ heap'[handle'[g]].owner \in alive'
  <2>1. \A g \in Handles \ {h} : handle[g] # Null => handle[g] \in Cells \ {c}
    BY <1>2, <1>3
  <2> QED BY <1>1, <1>4, <2>1 DEF HandlesOwnStates
<1>6. \A d \in Cells : heap'[d] # Null => \E g \in Handles : handle'[g] = d
  <2> SUFFICES ASSUME NEW d \in Cells, heap'[d] # Null
               PROVE  \E g \in Handles : handle'[g] = d
    OBVIOUS
  <2>1. CASE d = c
    BY <1>4, <2>1
  <2>2. CASE d # c
    <3>1. PICK g \in Handles : handle[g] = d
      BY <1>4, <2>2 DEF HandlesOwnStates
    <3>2. g # h
      BY <3>1, ConstantsAssumption
    <3> QED BY <1>4, <3>1, <3>2
  <2> QED BY <2>1, <2>2
<1>7. \A f, g \in Handles : f # g /\ handle'[f] # Null => handle'[f] # handle'[g]
  BY <1>1, <1>3, <1>4 DEF HandlesOwnStates
<1> QED BY <1>5, <1>6, <1>7 DEF HandlesOwnStates

LEMMA FMUStateCallHandles ==
  ASSUME TypeInv, HandlesOwnStates, NEW i \in Instances, FMUStateCall(i)
  PROVE  HandlesOwnStates'
<1>0. /\ heap \in [Cells -> Snapshot \cup {Null}]
      /\ handle \in [Handles -> Cells \cup {Null}]
      /\ buffer \in Buffer \cup {Null}
      /\ \A h \in Handles : Owns(i, h) =>
           handle[h] \in Cells /\ heap[handle[h]] \in Snapshot
  BY DEF TypeInv, TypeOK, Owns, HandlesOwnStates
<1>1. ASSUME NEW h \in Handles, NEW c \in Cells, GetFMUState(i, h, c)
      PROVE  HandlesOwnStates'
  <2>1. PICK outcome \in Outcomes :
          /\ RunLegalCall(i, "FmuStateRead", outcome, slave[i])
          /\ heap' = IF outcome = "ok" THEN [heap EXCEPT ![c] = TakenNow(i)] ELSE heap
          /\ handle' = IF outcome = "ok" THEN [handle EXCEPT ![h] = c] ELSE handle
    BY <1>1, ResultTypes DEF GetFMUState
  <2>2. TakenNow(i) \in Snapshot /\ TakenNow(i).owner = i /\ i \in alive
    BY <2>1, TakenNowType DEF RunLegalCall, TakenNow, Served, MayCall
  <2>3. UNCHANGED alive
    BY <2>1 DEF RunLegalCall
  <2>4. CASE outcome = "ok"
    BY <1>1, <2>1, <2>2, <2>3, <2>4, NewStateHeld DEF GetFMUState
  <2>5. CASE outcome # "ok"
    BY <2>1, <2>3, <2>5, HandlesKept
  <2> QED BY <2>4, <2>5
<1>2. ASSUME NEW h \in Handles, OverwriteFMUState(i, h) PROVE HandlesOwnStates'
  <2>1. PICK outcome \in Outcomes :
          /\ RunLegalCall(i, "FmuStateRead", outcome, slave[i])
          /\ heap' = [heap EXCEPT ![handle[h]] = Overwritten(i, @, outcome)]
    BY <1>2, ResultTypes DEF OverwriteFMUState
  <2>2. UNCHANGED <<alive, handle>> /\ i \in alive
    BY <1>2, <2>1 DEF RunLegalCall, OverwriteFMUState, Served, MayCall
  <2>3. handle[h] \in Cells /\ heap[handle[h]] \in Snapshot /\ heap[handle[h]].owner = i
    BY <1>0, <1>2 DEF OverwriteFMUState, Owns
  <2>4. TakenNow(i) \in Snapshot /\ TakenNow(i).owner = i
    BY <2>1, TakenNowType DEF RunLegalCall, TakenNow
  <2> DEFINE new == Overwritten(i, heap[handle[h]], outcome)
  <2>5. new # Null /\ new.owner \in alive
    BY <2>2, <2>3, <2>4, ConstantsAssumption DEF Overwritten
  <2>6. heap' = [heap EXCEPT ![handle[h]] = new]
    BY <2>1
  <2> HIDE DEF new
  <2>7. \A c \in Cells :
          /\ heap'[c] # Null <=> heap[c] # Null
          /\ heap[c].owner \in alive => heap'[c].owner \in alive
    BY <1>0, <2>3, <2>5, <2>6, ConstantsAssumption
  <2>8. \A g \in Handles : handle[g] # Null => handle[g] \in Cells
    BY <1>0
  <2>9. handle' = handle /\ alive' = alive
    BY <2>2
  <2>10. \A g \in Handles : handle'[g] # Null =>
           heap'[handle'[g]] # Null /\ heap'[handle'[g]].owner \in alive'
    BY <2>7, <2>8, <2>9 DEF HandlesOwnStates
  <2>11. \A c \in Cells : heap'[c] # Null => \E g \in Handles : handle'[g] = c
    BY <2>7, <2>9 DEF HandlesOwnStates
  <2>12. \A f, g \in Handles :
           f # g /\ handle'[f] # Null => handle'[f] # handle'[g]
    BY <2>9 DEF HandlesOwnStates
  <2> QED BY <2>10, <2>11, <2>12 DEF HandlesOwnStates
<1>3. ASSUME NEW h \in Handles, SetFMUState(i, h) PROVE HandlesOwnStates'
  BY <1>3, HandlesKept DEF SetFMUState
<1>4. ASSUME NEW h \in Handles, FreeFMUState(i, h) PROVE HandlesOwnStates'
  <2>1. PICK outcome \in Outcomes :
          /\ RunLegalCall(i, "SnapshotMemory", outcome, slave[i])
          /\ heap' = IF outcome = "ok" THEN [heap EXCEPT ![handle[h]] = Null] ELSE heap
          /\ handle' = [handle EXCEPT ![h] = HandleAfterFree(@, outcome)]
    BY <1>4, ResultTypes DEF FreeFMUState
  <2>2. UNCHANGED alive
    BY <2>1 DEF RunLegalCall
  <2>3. handle[h] \in Cells /\ handle[h] # Null
    BY <1>0, <1>4 DEF FreeFMUState, Owns
  <2>4. CASE outcome = "ok"
    <3>1. /\ heap' = [heap EXCEPT ![handle[h]] = Null]
          /\ handle' = [handle EXCEPT ![h] = Null]
      BY <2>1, <2>4 DEF HandleAfterFree
    <3>2. \A g \in Handles \ {h} : handle[g] # handle[h]
      BY <2>3 DEF HandlesOwnStates
    <3> QED BY <1>0, <2>2, <2>3, <3>1, <3>2 DEF HandlesOwnStates
  <2>5. CASE outcome # "ok"
    <3>1. handle' = handle /\ heap' = heap
      BY <1>0, <2>1, <2>5 DEF HandleAfterFree
    <3> QED BY <2>2, <3>1, HandlesKept
  <2> QED BY <2>4, <2>5
<1>5. ASSUME NEW h \in Handles, SerializedFMUStateSize(i, h) PROVE HandlesOwnStates'
  BY <1>5, HandlesKept DEF SerializedFMUStateSize, Dispatch, RunLegalCall, snapshotVars
<1>6. ASSUME NEW h \in Handles, SerializeFMUState(i, h) PROVE HandlesOwnStates'
  BY <1>6, HandlesKept DEF SerializeFMUState, RunLegalCall
<1>7. ASSUME NEW h \in Handles, NEW c \in Cells, DeserializeFMUState(i, h, c)
      PROVE  HandlesOwnStates'
  <2> DEFINE read == [owner |-> i, mode |-> ModeFromCode(buffer.code),
                      slave |-> buffer.slave]
  <2>1. PICK outcome \in Outcomes :
          /\ RunLegalCall(i, "SnapshotMemory", outcome, slave[i])
          /\ heap' = IF outcome = "ok" THEN [heap EXCEPT ![c] = read] ELSE heap
          /\ handle' = IF outcome = "ok" THEN [handle EXCEPT ![h] = c] ELSE handle
    BY <1>7, ResultTypes DEF DeserializeFMUState
  <2>2. read \in Snapshot /\ read.owner = i
    BY <1>0, <1>7, CodeTypes DEF DeserializeFMUState, Buffer, Snapshot
  <2>3. UNCHANGED alive /\ i \in alive
    BY <2>1 DEF RunLegalCall, Served, MayCall
  <2> HIDE DEF read
  <2>4. CASE outcome = "ok"
    BY <1>7, <2>1, <2>2, <2>3, <2>4, NewStateHeld DEF DeserializeFMUState
  <2>5. CASE outcome # "ok"
    BY <2>1, <2>3, <2>5, HandlesKept
  <2> QED BY <2>4, <2>5
<1>8. ASSUME RejectBytes(i) PROVE HandlesOwnStates'
  BY <1>8, HandlesKept DEF RejectBytes
<1> QED BY <1>1, <1>2, <1>3, <1>4, <1>5, <1>6, <1>7, <1>8 DEF FMUStateCall

LEMMA OtherStepsHandles ==
  ASSUME HandlesOwnStates, NEW i \in Instances, Call(i) \/ Stepping(i)
  PROVE  HandlesOwnStates'
<1>1. UNCHANGED <<heap, handle, alive>>
  BY DEF Call, Stepping, RefuseCall, ChangeMode, EnterStepMode, GetVariable,
     SetVariable, QueryDerivative, GetOutputDerivatives,
     EvaluateDiscreteStates, UpdateDiscreteStates, Dispatch, RunLegalCall,
     snapshotVars, BeginDoStep, RejectUpdate, OpenUpdate, CallbackReturns,
     CatchException, EndDoStep
<1> QED BY <1>1, HandlesKept

OwnershipInv == TypeInv /\ HandlesOwnStates

(* The two are inductive together: a state may only be taken, restored or  *)
(* freed through a handle that holds one of the right type.                *)
THEOREM OwnershipInvariant == Spec => []OwnershipInv
<1>1. Init => OwnershipInv
  <2>1. ASSUME Init PROVE HandlesOwnStates
    BY <2>1 DEF Init, HandlesOwnStates
  <2> QED BY <2>1, InitTypeInv DEF OwnershipInv
<1>2. OwnershipInv /\ [Next]_vars => OwnershipInv'
  <2> SUFFICES ASSUME OwnershipInv, [Next]_vars PROVE OwnershipInv'
    OBVIOUS
  <2>1. CASE UNCHANGED vars
    BY <2>1 DEF vars, OwnershipInv, TypeInv, TypeOK, NestedInCallback, HandlesOwnStates
  <2>2. ASSUME NEW i \in Instances,
               Manage(i) \/ Call(i) \/ FMUStateCall(i) \/ Stepping(i)
        PROVE  OwnershipInv'
    BY <2>2, ManageTypeInv, CallTypeInv, FMUStateCallTypeInv, SteppingTypeInv,
       ManageHandles, FMUStateCallHandles, OtherStepsHandles DEF OwnershipInv
  <2> QED BY <2>1, <2>2 DEF Next
<1> QED BY <1>1, <1>2, PTL DEF Spec

(* Every variable keeps its type, whatever the importer and the slaves do. *)
THEOREM TypeCorrect == Spec => []TypeOK
<1>1. OwnershipInv => TypeOK
  BY DEF OwnershipInv, TypeInv
<1> QED BY <1>1, OwnershipInvariant, PTL

(* No FMU state leaks or dangles, whatever calls fail, also with an        *)
(* importer that calls on after a failure in its callback.                 *)
THEOREM StatesOwned == Spec => []HandlesOwnStates
<1>1. OwnershipInv => HandlesOwnStates
  BY DEF OwnershipInv
<1> QED BY <1>1, OwnershipInvariant, PTL
=============================================================================
