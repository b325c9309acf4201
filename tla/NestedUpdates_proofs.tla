------------------------- MODULE NestedUpdates_proofs -------------------------
(***************************************************************************)
(* Proofs about updates that are opened inside any call, for stacks of any *)
(* depth and a model that overrides any methods.                           *)
(***************************************************************************)
EXTENDS NestedUpdates, SequenceTheorems, TLAPS

FrameType ==
  [call : Calls \cup {"callback"}, set : BOOLEAN, get : BOOLEAN, wrote : BOOLEAN]

TypeOK ==
  /\ lc \in LifecycleType
  /\ inDoStep \in BOOLEAN
  /\ frames \in Seq(FrameType)
  /\ reentered \in BOOLEAN

StackInv == TypeOK /\ UpdatesFollowTheStack

-----------------------------------------------------------------------------
(* Until the slave opens an update outside the body of its DoStep, the     *)
(* stack has at most three frames: a call that is no step, or a DoStep,    *)
(* its callback, and a call from that.                                     *)
Outside == ~inDoStep /\ lc.state # "IntermediateUpdate"

Idle == frames = <<>> /\ Outside

InPlainCall == Len(frames) = 1 /\ frames[1].call # "DoStep"
                 /\ frames[1].call # "callback" /\ Outside

InDoStepBody ==
  Len(frames) = 1 /\ frames[1].call = "DoStep" /\ lc.state \in {"Step", "Failed"}

(* Lifecycle has what the update was opened for and whether a set was made.*)
Mirrored(f) ==
  /\ lc.state = "IntermediateUpdate"
  /\ lc.setRequested = f.set /\ lc.getAllowed = f.get /\ lc.setStarted = f.wrote

InItsCallback ==
  /\ Len(frames) = 2 /\ frames[1].call = "DoStep" /\ frames[2].call = "callback"
  /\ Mirrored(frames[2]) \/ lc.state = "Failed"

InNestedCall ==
  /\ Len(frames) = 3 /\ frames[1].call = "DoStep" /\ frames[2].call = "callback"
  /\ frames[3].call \in {"ReadVariable", "WriteVariable", "OutputDerivatives"}
  /\ Mirrored(frames[2])

ShapeInv ==
  ~reentered =>
    Idle \/ InPlainCall \/ InDoStepBody \/ InItsCallback \/ InNestedCall

Inv == StackInv /\ ShapeInv

-----------------------------------------------------------------------------
(* Lifecycle.                                                              *)

LEMMA ModesAreModes ==
  /\ Readable \subseteq States
  /\ "Failed" \notin Readable /\ "IntermediateUpdate" \notin Readable
BY DEF Readable, Writable, Running, States

LEMMA CompletedFacts ==
  ASSUME NEW l \in LifecycleType, NEW call \in Calls, NEW outcome
  PROVE  /\ Completed(l, call, outcome) \in LifecycleType
         /\ Completed(l, call, outcome).state = "IntermediateUpdate"
              <=> l.state = "IntermediateUpdate" /\ outcome \notin Failures
         /\ l.state # "Failed" /\ outcome \notin Failures
              => Completed(l, call, outcome).state # "Failed"
         /\ outcome \in Failures => Completed(l, call, outcome).state = "Failed"
<1>1. Transition(call, l.state) \in States
  BY DEF Transition, LifecycleType, States
<1>2. /\ OnSuccess(l, call) \in LifecycleType
      /\ OnSuccess(l, call).state = "IntermediateUpdate"
           <=> l.state = "IntermediateUpdate"
      /\ l.state # "Failed" => OnSuccess(l, call).state # "Failed"
  BY <1>1 DEF OnSuccess, LifecycleType, States, Transition
<1>3. Fail(l) \in LifecycleType /\ Fail(l).state = "Failed"
  BY DEF Fail, LifecycleType, States
<1> QED BY <1>2, <1>3 DEF Completed, Failures

LEMMA RestoreFacts ==
  ASSUME NEW l \in LifecycleType, NEW saved \in Readable
  PROVE  /\ RestoreFromSnapshot(l, saved) \in LifecycleType
         /\ RestoreFromSnapshot(l, saved).state = saved
BY ModesAreModes
   DEF RestoreFromSnapshot, IsSnapshotMode, LegalStates, LifecycleType

LEMMA EnterFacts ==
  ASSUME NEW l \in LifecycleType, NEW set \in BOOLEAN, NEW get \in BOOLEAN
  PROVE  LET m == EnterIntermediateUpdate(l, set, get) IN
         /\ m \in LifecycleType
         /\ m.state = IF l.state = "Step" THEN "IntermediateUpdate" ELSE l.state
         /\ l.state = "Step" => /\ m.setRequested = set /\ m.getAllowed = get
                                /\ m.setStarted = FALSE
BY DEF EnterIntermediateUpdate, LifecycleType, States

LEMMA LeaveFacts ==
  ASSUME NEW l \in LifecycleType
  PROVE  /\ LeaveIntermediateUpdate(l) \in LifecycleType
         /\ LeaveIntermediateUpdate(l).state =
              IF l.state = "IntermediateUpdate" THEN "Step" ELSE l.state
BY DEF LeaveIntermediateUpdate, LifecycleType, States

LEMMA NewLifecycleFacts ==
  ASSUME NEW e \in BOOLEAN
  PROVE  NewLifecycle(e) \in LifecycleType /\ NewLifecycle(e).state = "Instantiated"
BY DEF NewLifecycle, LifecycleType, States

LEMMA TableInUpdate ==
  ASSUME NEW call \in Calls, "IntermediateUpdate" \in LegalStates(call)
  PROVE  call \in {"ReadVariable", "WriteVariable", "OutputDerivatives"}
BY DEF Calls, LegalStates, Readable, Writable, Running

(* The base class throws nothing but std::logic_error.                     *)
LEMMA DefaultsNeverFail ==
  ASSUME NEW call \in Calls \ {"DoStep"}
  PROVE  DefaultResults(call) \cap Failures = {}
<1>1. CASE call \in ModeMethods
  BY <1>1 DEF DefaultResults, ModeMethods, SetMethods, GetMethods,
              OptionalMethods, DoesNothing, Failures
<1>2. CASE call \in SetMethods
  BY <1>2 DEF DefaultResults, ModeMethods, SetMethods, GetMethods,
              OptionalMethods, RefusesToSet, Failures
<1>3. CASE call \in GetMethods
  BY <1>3 DEF DefaultResults, ModeMethods, SetMethods, GetMethods,
              OptionalMethods, RefusesToGet, Failures
<1>4. CASE call \in OptionalMethods
  BY <1>4 DEF DefaultResults, ModeMethods, SetMethods, GetMethods,
              OptionalMethods, IsUnsupported, Failures
<1>5. \/ call \in ModeMethods \/ call \in SetMethods \/ call \in GetMethods
      \/ call \in OptionalMethods
  BY DEF ModeMethods, SetMethods, GetMethods, OptionalMethods, Calls
<1> QED BY <1>1, <1>2, <1>3, <1>4, <1>5

-----------------------------------------------------------------------------
(* Call stacks.                                                            *)

LEMMA LastFrame ==
  ASSUME NEW s \in Seq(FrameType), s # <<>>
  PROVE  Len(s) \in Nat \ {0} /\ Last(s) = s[Len(s)] /\ Last(s) \in FrameType
BY DEF Last

LEMMA FrontFrames ==
  ASSUME NEW s \in Seq(FrameType), s # <<>>
  PROVE  /\ Front(s) \in Seq(FrameType)
         /\ Len(Front(s)) = Len(s) - 1
         /\ \A k \in 1..Len(s) - 1 : Front(s)[k] = s[k]
<1>1. Len(s) \in Nat \ {0} /\ \A k \in 1..Len(s) - 1 : s[k] \in FrameType
  OBVIOUS
<1> DEFINE n == Len(s) - 1
<1>2. n \in Nat /\ \A k \in 1..n : s[k] \in FrameType
  BY <1>1
<1>3. \A k \in 1..n - 1 + 1 : 1 + k - 1 = k
  BY <1>2
<1> HIDE DEF n
<1>4. /\ SubSeq(s, 1, n) \in Seq(FrameType)
      /\ Len(SubSeq(s, 1, n)) = IF 1 <= n THEN n - 1 + 1 ELSE 0
      /\ \A k \in 1..n - 1 + 1 : SubSeq(s, 1, n)[k] = s[1 + k - 1]
  BY <1>2, SubSeqProperties, 1 \in Int, n \in Int
<1>5. (IF 1 <= n THEN n - 1 + 1 ELSE 0) = n /\ n - 1 + 1 = n
  BY <1>2
<1> QED BY <1>3, <1>4, <1>5 DEF Front, n

LEMMA PushFrame ==
  ASSUME NEW s \in Seq(FrameType), NEW f \in FrameType
  PROVE  /\ Append(s, f) \in Seq(FrameType)
         /\ Len(Append(s, f)) = Len(s) + 1
         /\ \A k \in 1..Len(s) : Append(s, f)[k] = s[k]
         /\ Append(s, f)[Len(s) + 1] = f
OBVIOUS

(* What the frames below a call that returns are left as: a set that       *)
(* succeeded has left its mark on the innermost.                           *)
LEMMA ReturnedFrames ==
  ASSUME TypeOK, frames # <<>>, NEW call, NEW outcome,
         NEW n, n = Len(frames) - 1
  PROVE  /\ Returned(call, outcome) \in Seq(FrameType)
         /\ Len(Returned(call, outcome)) = n
         /\ \A k \in 1..n : Returned(call, outcome)[k].call = frames[k].call
         /\ n > 0 =>
              Returned(call, outcome)[n] =
                [frames[n] EXCEPT !.wrote =
                   @ \/ (call = "WriteVariable" /\ outcome = "ok")]
<1> DEFINE below == Front(frames)
           wrote == call = "WriteVariable" /\ outcome = "ok"
<1>1. /\ below \in Seq(FrameType) /\ Len(below) = n /\ n \in Nat
      /\ \A k \in 1..n : below[k] = frames[k]
  BY FrontFrames DEF TypeOK
<1>2. Returned(call, outcome) =
        IF below = <<>> THEN below
        ELSE [below EXCEPT ![Len(below)].wrote = @ \/ wrote]
  BY DEF Returned
<1>3. wrote \in BOOLEAN
  OBVIOUS
<1> HIDE DEF below, wrote
<1>4. CASE n = 0
  <2>1. below = <<>>
    BY <1>1, <1>4, EmptySeq
  <2>2. Returned(call, outcome) = below
    BY <1>2, <2>1
  <2> QED BY <1>1, <1>4, <2>2
<1>5. CASE n > 0
  <2> DEFINE f == [below[n] EXCEPT !.wrote = @ \/ wrote]
  <2>1. below # <<>> /\ below[n] \in FrameType
    BY <1>1, <1>5
  <2>2. f \in FrameType /\ f.call = below[n].call
    BY <1>3, <2>1 DEF FrameType
  <2>3. Returned(call, outcome) = [below EXCEPT ![n] = f]
    BY <1>1, <1>2, <2>1
  <2> HIDE DEF f
  <2>4. /\ [below EXCEPT ![n] = f] \in Seq(FrameType)
        /\ Len([below EXCEPT ![n] = f]) = n
        /\ \A k \in 1..n : [below EXCEPT ![n] = f][k] = IF k = n THEN f ELSE below[k]
    BY <1>1, <1>5, <2>2
  <2>5. f = [frames[n] EXCEPT !.wrote = @ \/ wrote]
    BY <1>1, <1>5 DEF f
  <2> QED BY <1>1, <1>5, <2>2, <2>3, <2>4, <2>5 DEF wrote
<1> QED BY <1>1, <1>4, <1>5

-----------------------------------------------------------------------------
LEMMA InitInv == Init => Inv
<1> SUFFICES ASSUME Init PROVE Inv
  OBVIOUS
<1>1. lc \in LifecycleType /\ lc.state = "Instantiated"
  BY NewLifecycleFacts DEF Init
<1>2. frames \in Seq(FrameType)
  BY EmptySeq DEF Init
<1>3. StackInv
  BY <1>1, <1>2 DEF Init, StackInv, TypeOK, UpdatesFollowTheStack
<1>4. ShapeInv
  BY <1>1 DEF Init, ShapeInv, Idle, Outside
<1> QED BY <1>3, <1>4 DEF Inv

LEMMA BeginCallInv ==
  ASSUME Inv, NEW call \in Calls, BeginCall(call)
  PROVE  Inv'
<1> DEFINE f == Serving(call)
<1>1. f \in FrameType /\ f.call = call /\ call # "callback"
  BY DEF Serving, FrameType, Calls
<1>2. /\ frames' = Append(frames, f) /\ lc' = lc /\ reentered' = reentered
      /\ inDoStep' = (inDoStep \/ call = "DoStep")
      /\ frames \in Seq(FrameType) /\ lc.state \in LegalStates(call)
  BY DEF BeginCall, Allows, Inv, StackInv, TypeOK
<1> HIDE DEF f
<1>3. /\ frames' \in Seq(FrameType) /\ Len(frames') = Len(frames) + 1
      /\ \A k \in 1..Len(frames) : frames'[k] = frames[k]
      /\ frames'[Len(frames) + 1] = f
      /\ Len(frames) \in Nat
  BY <1>1, <1>2, PushFrame
<1>4. TypeOK'
  BY <1>2, <1>3 DEF Inv, StackInv, TypeOK
<1>5. UpdatesFollowTheStack'
  <2>1. ASSUME inDoStep' PROVE \E k \in 1..Len(frames') : frames'[k].call = "DoStep"
    <3>1. CASE inDoStep
      <4>1. PICK k \in 1..Len(frames) : frames[k].call = "DoStep"
        BY <3>1 DEF Inv, StackInv, UpdatesFollowTheStack
      <4> QED BY <1>3, <4>1
    <3>2. CASE call = "DoStep"
      BY <1>1, <1>3, <3>2
    <3> QED BY <1>2, <2>1, <3>1, <3>2
  <2>2. ASSUME lc.state = "IntermediateUpdate"
        PROVE  \E k \in 1..Len(frames') : frames'[k].call = "callback"
    <3>1. PICK k \in 1..Len(frames) : frames[k].call = "callback"
      BY <2>2 DEF Inv, StackInv, UpdatesFollowTheStack
    <3> QED BY <1>3, <3>1
  <2> QED BY <1>2, <2>1, <2>2 DEF UpdatesFollowTheStack
<1>6. ASSUME ~reentered
      PROVE  Idle \/ (InItsCallback /\ Mirrored(frames[2]))
  <2>1. frames = <<>> \/ Last(frames).call = "callback"
    BY DEF BeginCall, ImporterRuns, SlaveRuns
  <2>2. frames # <<>> => lc.state # "Failed"
    BY DEF BeginCall
  <2>3. ~InPlainCall /\ ~InDoStepBody /\ ~InNestedCall
    BY <1>2, <2>1, EmptySeq DEF InPlainCall, InDoStepBody, InNestedCall, Last
  <2>4. InItsCallback => frames # <<>>
    BY <1>2, EmptySeq DEF InItsCallback
  <2>5. InItsCallback => Mirrored(frames[2])
    BY <2>2, <2>4 DEF InItsCallback
  <2> QED BY <1>6, <2>3, <2>5 DEF Inv, ShapeInv
<1>7. ShapeInv'
  <2> SUFFICES ASSUME ~reentered PROVE ShapeInv'
    BY <1>2 DEF ShapeInv
  <2>1. CASE Idle
    <3>1. Len(frames') = 1 /\ frames'[1] = f
      BY <1>3, <2>1, EmptySeq DEF Idle
    <3>2. CASE call = "DoStep"
      <4>1. lc.state = "Step"
        BY <1>2, <3>2 DEF LegalStates
      <4>2. InDoStepBody'
        BY <1>1, <1>2, <3>1, <3>2, <4>1 DEF InDoStepBody
      <4> QED BY <4>2 DEF ShapeInv
    <3>3. CASE call # "DoStep"
      <4>1. Outside'
        BY <1>2, <2>1, <3>3 DEF Idle, Outside
      <4>2. InPlainCall'
        BY <1>1, <3>1, <3>3, <4>1 DEF InPlainCall
      <4> QED BY <4>2 DEF ShapeInv
    <3> QED BY <3>2, <3>3
  <2>2. CASE InItsCallback /\ Mirrored(frames[2])
    <3>1. call \in {"ReadVariable", "WriteVariable", "OutputDerivatives"}
      BY <1>2, <2>2, TableInUpdate DEF Mirrored
    <3>2. /\ Len(frames') = 3 /\ frames'[1] = frames[1] /\ frames'[2] = frames[2]
          /\ frames'[3] = f
      BY <1>3, <2>2 DEF InItsCallback
    <3>3. Mirrored(frames[2])'
      BY <1>2, <2>2, <3>2 DEF Mirrored
    <3>4. InNestedCall'
      BY <1>1, <2>2, <3>1, <3>2, <3>3 DEF InNestedCall, InItsCallback
    <3> QED BY <3>4 DEF ShapeInv
  <2> QED BY <1>6, <2>1, <2>2
<1> QED BY <1>4, <1>5, <1>7 DEF Inv, StackInv

LEMMA OpenUpdateInv ==
  ASSUME Inv, NEW set \in BOOLEAN, NEW get \in BOOLEAN, OpenUpdate(set, get)
  PROVE  Inv'
<1> DEFINE f == Callback(set, get)
<1>1. /\ f \in FrameType /\ f.call = "callback"
      /\ f.set = set /\ f.get = get /\ f.wrote = FALSE
  BY DEF Callback, FrameType
<1>2. /\ frames' = Append(frames, f) /\ inDoStep' = inDoStep
      /\ lc' = EnterIntermediateUpdate(lc, set, get)
      /\ reentered' = (reentered \/ Last(frames).call # "DoStep")
      /\ frames \in Seq(FrameType) /\ lc \in LifecycleType
  BY DEF OpenUpdate, Inv, StackInv, TypeOK
<1> HIDE DEF f
<1>3. /\ frames' \in Seq(FrameType) /\ Len(frames') = Len(frames) + 1
      /\ \A k \in 1..Len(frames) : frames'[k] = frames[k]
      /\ frames'[Len(frames) + 1] = f
      /\ Len(frames) \in Nat
  BY <1>1, <1>2, PushFrame
<1>4. /\ lc' \in LifecycleType
      /\ lc'.state = IF lc.state = "Step" THEN "IntermediateUpdate" ELSE lc.state
      /\ lc.state = "Step" =>
           lc'.setRequested = set /\ lc'.getAllowed = get /\ lc'.setStarted = FALSE
  BY <1>2, EnterFacts
<1>5. TypeOK'
  BY <1>2, <1>3, <1>4 DEF Inv, StackInv, TypeOK
<1>6. UpdatesFollowTheStack'
  BY <1>1, <1>2, <1>3 DEF Inv, StackInv, UpdatesFollowTheStack
<1>7. ASSUME ~reentered'
      PROVE  InDoStepBody
  <2>1. ~reentered /\ frames # <<>> /\ Last(frames).call = "DoStep"
    BY <1>2, <1>7 DEF OpenUpdate, SlaveRuns, Inv, StackInv, TypeOK
  <2> QED BY <2>1
          DEF Inv, ShapeInv, Idle, InPlainCall, InItsCallback, InNestedCall, Last
<1>8. ShapeInv'
  <2> SUFFICES ASSUME ~reentered'
               PROVE  InItsCallback'
    BY DEF ShapeInv
  <2> InDoStepBody
    BY <1>7
  <2>1. Len(frames') = 2 /\ frames'[1].call = "DoStep" /\ frames'[2] = f
        /\ lc.state \in {"Step", "Failed"}
    BY <1>3 DEF InDoStepBody
  <2> QED BY <1>1, <1>4, <2>1 DEF InItsCallback, Mirrored
<1> QED BY <1>5, <1>6, <1>8 DEF Inv, StackInv

LEMMA CallbackReturnsInv ==
  ASSUME Inv, CallbackReturns
  PROVE  Inv'
<1>1. /\ frames # <<>> /\ Last(frames).call = "callback"
      /\ frames' = Front(frames) /\ lc' = LeaveIntermediateUpdate(lc)
      /\ UNCHANGED <<inDoStep, reentered>>
      /\ frames \in Seq(FrameType) /\ lc \in LifecycleType
  BY DEF CallbackReturns, InCallback, Inv, StackInv, TypeOK
<1>2. /\ frames' \in Seq(FrameType) /\ Len(frames') = Len(frames) - 1
      /\ \A k \in 1..Len(frames) - 1 : frames'[k] = frames[k]
      /\ Len(frames) \in Nat \ {0} /\ frames[Len(frames)].call = "callback"
  BY <1>1, FrontFrames, LastFrame
<1>3. /\ lc' \in LifecycleType
      /\ lc'.state = IF lc.state = "IntermediateUpdate" THEN "Step" ELSE lc.state
  BY <1>1, LeaveFacts
<1>4. TypeOK'
  BY <1>1, <1>2, <1>3 DEF Inv, StackInv, TypeOK
<1>5. UpdatesFollowTheStack'
  <2>1. lc'.state # "IntermediateUpdate"
    BY <1>3
  <2>2. inDoStep => \E k \in 1..Len(frames) - 1 : frames[k].call = "DoStep"
    BY <1>2 DEF Inv, StackInv, UpdatesFollowTheStack
  <2> QED BY <1>1, <1>2, <2>1, <2>2 DEF UpdatesFollowTheStack
<1>6. ShapeInv'
  <2> SUFFICES ASSUME ~reentered PROVE ShapeInv'
    BY <1>1 DEF ShapeInv
  <2>1. InItsCallback
    BY <1>1, <1>2
       DEF Inv, ShapeInv, Idle, InPlainCall, InDoStepBody, InNestedCall
  <2>2. Len(frames') = 1 /\ frames'[1].call = "DoStep"
    BY <1>2, <2>1 DEF InItsCallback
  <2>3. lc'.state \in {"Step", "Failed"}
    BY <1>3, <2>1 DEF InItsCallback, Mirrored
  <2> QED BY <2>2, <2>3 DEF ShapeInv, InDoStepBody
<1> QED BY <1>4, <1>5, <1>6 DEF Inv, StackInv

(* The lifecycle after a call that the slave has served.                   *)
LEMMA EndCallLifecycle ==
  ASSUME Inv, NEW outcome, EndCall(outcome)
  PROVE  /\ Last(frames).call \in Calls \ {"DoStep"}
         /\ outcome \in Results(Last(frames).call)
         /\ lc' \in LifecycleType
         /\ lc'.state = "IntermediateUpdate" => lc.state = "IntermediateUpdate"
         /\ lc.state # "Failed" /\ outcome \notin Failures => lc'.state # "Failed"
         /\ \/ lc' = Completed(lc, Last(frames).call, outcome)
            \/ Last(frames).call = "FmuStateRestore"
<1> DEFINE call == Last(frames).call
           after == Completed(lc, call, outcome)
<1>1. call \in Calls \ {"DoStep"} /\ outcome \in Results(call)
  BY LastFrame DEF EndCall, SlaveRuns, Inv, StackInv, TypeOK, FrameType
<1>2. \/ lc' = after
      \/ /\ call = "FmuStateRestore"
         /\ \E saved \in Readable : lc' = RestoreFromSnapshot(after, saved)
  BY DEF EndCall
<1> HIDE DEF call
<1>3. /\ after \in LifecycleType
      /\ after.state = "IntermediateUpdate" => lc.state = "IntermediateUpdate"
      /\ lc.state # "Failed" /\ outcome \notin Failures => after.state # "Failed"
  BY <1>1, CompletedFacts DEF Inv, StackInv, TypeOK
<1>4. CASE lc' = after
  BY <1>1, <1>3, <1>4 DEF call
<1>5. CASE /\ call = "FmuStateRestore"
           /\ \E saved \in Readable : lc' = RestoreFromSnapshot(after, saved)
  BY <1>1, <1>3, <1>5, RestoreFacts, ModesAreModes DEF call
<1> QED BY <1>2, <1>4, <1>5

LEMMA EndCallInv ==
  ASSUME Inv, NEW outcome, EndCall(outcome)
  PROVE  Inv'
<1> DEFINE call == Last(frames).call
           n == Len(frames) - 1
<1>1. /\ frames # <<>> /\ frames' = Returned(call, outcome)
      /\ UNCHANGED <<inDoStep, reentered>>
      /\ frames \in Seq(FrameType) /\ lc \in LifecycleType /\ TypeOK
  BY DEF EndCall, SlaveRuns, Inv, StackInv, TypeOK
<1>2. /\ frames' \in Seq(FrameType) /\ Len(frames') = n
      /\ \A k \in 1..n : frames'[k].call = frames[k].call
      /\ n > 0 => frames'[n] = [frames[n] EXCEPT !.wrote =
                                 @ \/ (call = "WriteVariable" /\ outcome = "ok")]
  BY <1>1, ReturnedFrames
<1>3. n \in Nat /\ Len(frames) = n + 1 /\ frames[n + 1].call = call
  BY <1>1, LastFrame
<1>4. /\ call \in Calls \ {"DoStep"} /\ lc' \in LifecycleType
      /\ lc'.state = "IntermediateUpdate" => lc.state = "IntermediateUpdate"
      /\ lc' = Completed(lc, call, outcome) \/ call = "FmuStateRestore"
  BY EndCallLifecycle
<1>5. call # "callback"
  BY <1>4 DEF Calls
<1> HIDE DEF call, n
<1>6. TypeOK'
  BY <1>1, <1>2, <1>4 DEF TypeOK
<1>7. UpdatesFollowTheStack'
  <2>1. /\ inDoStep => \E k \in 1..n : frames[k].call = "DoStep"
        /\ lc.state = "IntermediateUpdate" =>
             \E k \in 1..n : frames[k].call = "callback"
    BY <1>3, <1>4, <1>5 DEF Inv, StackInv, UpdatesFollowTheStack
  <2> QED BY <1>1, <1>2, <1>4, <2>1 DEF UpdatesFollowTheStack
<1>8. ShapeInv'
  <2> SUFFICES ASSUME ~reentered PROVE ShapeInv'
    BY <1>1 DEF ShapeInv
  <2>1. InPlainCall \/ InNestedCall
    BY <1>3, <1>4, <1>5 DEF Inv, ShapeInv, Idle, InDoStepBody, InItsCallback
  <2>2. CASE InPlainCall
    <3>1. Len(frames') = 0
      BY <1>2, <1>3, <2>2 DEF InPlainCall
    <3>2. frames' = <<>>
      BY <1>2, <3>1, EmptySeq
    <3> QED BY <1>1, <1>4, <2>2, <3>2 DEF InPlainCall, Outside, Idle, ShapeInv
  <2>3. CASE InNestedCall
    <3>1. /\ n = 2 /\ frames'[1].call = "DoStep" /\ frames'[2].call = "callback"
          /\ call \in {"ReadVariable", "WriteVariable", "OutputDerivatives"}
          /\ Mirrored(frames[2]) /\ frames[2] \in FrameType
      <4>1. n = 2
        BY <2>3 DEF InNestedCall, n
      <4>2. frames[2] \in FrameType
        BY <1>1, <2>3 DEF InNestedCall
      <4> QED BY <1>2, <1>3, <2>3, <4>1, <4>2 DEF InNestedCall
    <3>2. lc' = Completed(lc, call, outcome)
      BY <1>4, <3>1
    <3>3. frames'[2] = [frames[2] EXCEPT !.wrote =
                          @ \/ (call = "WriteVariable" /\ outcome = "ok")]
      BY <1>2, <3>1
    <3>4. CASE outcome = "ok"
      <4>1. lc' = [lc EXCEPT !.setStarted = @ \/ call = "WriteVariable"]
        <5>1. lc' = OnSuccess(lc, call)
          BY <3>2, <3>4 DEF Completed, Failures
        <5> QED BY <3>1, <5>1 DEF OnSuccess, Mirrored
      <4>2. Mirrored(frames[2])'
        BY <1>1, <3>1, <3>3, <3>4, <4>1 DEF Mirrored, LifecycleType, FrameType
      <4> QED BY <1>2, <3>1, <4>2 DEF ShapeInv, InItsCallback
    <3>5. CASE outcome \in Failures
      <4>1. lc'.state = "Failed"
        BY <1>1, <1>4, <3>2, <3>5, CompletedFacts
      <4> QED BY <1>2, <3>1, <4>1 DEF ShapeInv, InItsCallback
    <3>6. CASE outcome \notin Failures \cup {"ok"}
      <4>1. lc' = lc
        BY <3>2, <3>6 DEF Completed
      <4>2. Mirrored(frames[2])'
        BY <3>1, <3>3, <3>6, <4>1 DEF Mirrored, FrameType
      <4> QED BY <1>2, <3>1, <4>2 DEF ShapeInv, InItsCallback
    <3> QED BY <3>4, <3>5, <3>6
  <2> QED BY <2>1, <2>2, <2>3
<1> QED BY <1>6, <1>7, <1>8 DEF Inv, StackInv

LEMMA EndDoStepInv ==
  ASSUME Inv, NEW outcome, EndDoStep(outcome)
  PROVE  Inv'
<1>1. /\ frames # <<>> /\ Last(frames).call = "DoStep" /\ frames' = Front(frames)
      /\ inDoStep' = FALSE /\ reentered' = reentered
      /\ frames \in Seq(FrameType) /\ lc \in LifecycleType
  BY DEF EndDoStep, SlaveRuns, InDoStepAfter, Inv, StackInv, TypeOK
<1>2. /\ frames' \in Seq(FrameType) /\ Len(frames') = Len(frames) - 1
      /\ \A k \in 1..Len(frames) - 1 : frames'[k] = frames[k]
      /\ Len(frames) \in Nat \ {0} /\ frames[Len(frames)].call = "DoStep"
  BY <1>1, FrontFrames, LastFrame
<1>3. lc' \in LifecycleType /\ lc'.state \in {lc.state, "Failed"}
  BY <1>1 DEF EndDoStep, Fail, LifecycleType, States
<1>4. TypeOK'
  BY <1>1, <1>2, <1>3 DEF Inv, StackInv, TypeOK
<1>5. UpdatesFollowTheStack'
  <2>1. lc.state = "IntermediateUpdate" =>
          \E k \in 1..Len(frames) - 1 : frames[k].call = "callback"
    BY <1>2 DEF Inv, StackInv, UpdatesFollowTheStack
  <2> QED BY <1>1, <1>2, <1>3, <2>1 DEF UpdatesFollowTheStack
<1>6. ShapeInv'
  <2> SUFFICES ASSUME ~reentered PROVE Idle'
    BY <1>1 DEF ShapeInv
  <2>1. InDoStepBody
    BY <1>1, <1>2
       DEF Inv, ShapeInv, Idle, InPlainCall, InItsCallback, InNestedCall
  <2>2. frames' = <<>>
    BY <1>2, <2>1, EmptySeq DEF InDoStepBody
  <2> QED BY <1>1, <1>3, <2>1, <2>2 DEF Idle, Outside, InDoStepBody
<1> QED BY <1>4, <1>5, <1>6 DEF Inv, StackInv

LEMMA NextInv ==
  ASSUME Inv, [Next]_vars
  PROVE  Inv'
<1>1. CASE Next
  BY <1>1, BeginCallInv, OpenUpdateInv, CallbackReturnsInv, EndCallInv, EndDoStepInv
     DEF Next
<1>2. CASE UNCHANGED vars
  BY <1>2
     DEF vars, Inv, StackInv, TypeOK, UpdatesFollowTheStack, ShapeInv, Idle,
         InPlainCall, InDoStepBody, InItsCallback, InNestedCall, Outside, Mirrored
<1> QED BY <1>1, <1>2

-----------------------------------------------------------------------------
(* The stack and the lifecycle agree, and until the slave re-enters the    *)
(* stack has one of five shapes.                                           *)
THEOREM InvHolds == Spec => []Inv
BY InitInv, NextInv, PTL DEF Spec

(* However deep the calls nest and however they end, the flag that permits *)
(* updates is up only while some DoStep runs, and Intermediate Update Mode *)
(* lasts only while some callback does (DoStepScope).                      *)
THEOREM FlagsFollowTheStack == Spec => []UpdatesFollowTheStack
<1>1. Inv => UpdatesFollowTheStack
  BY DEF Inv, StackInv
<1> QED BY InvHolds, <1>1, PTL

(* A callback may do only what its own update was opened for, as long as   *)
(* the slave opens updates only from the body of its DoStep                *)
(* (Lifecycle::Allows, Component::IntermediateUpdate).                     *)
THEOREM CallbacksAreRestricted == Spec => []CallbackStaysRestricted
<1>1. ASSUME Inv, ~reentered, InCallback, lc.state # "Failed",
             NEW call \in Calls, Allows(lc, call)
      PROVE  \/ call = "WriteVariable" /\ Last(frames).set
             \/ /\ call \in {"ReadVariable", "OutputDerivatives"}
                /\ Last(frames).get /\ ~Last(frames).wrote
  <2>1. frames # <<>> /\ Last(frames).call = "callback"
    BY <1>1 DEF InCallback
  <2>2. InItsCallback
    BY <1>1, <2>1
       DEF Inv, ShapeInv, Idle, InPlainCall, InDoStepBody, InNestedCall, Last
  <2>3. Mirrored(Last(frames))
    BY <1>1, <2>2 DEF InItsCallback, Last
  <2>4. call \in {"ReadVariable", "WriteVariable", "OutputDerivatives"}
    BY <1>1, <2>3, TableInUpdate DEF Mirrored, Allows
  <2> QED BY <1>1, <2>3, <2>4 DEF Mirrored, Allows
<1>2. Inv => CallbackStaysRestricted
  BY <1>1 DEF CallbackStaysRestricted
<1> QED BY InvHolds, <1>2, PTL

(* Only a method that the model overrides, or its DoStep, can fail the     *)
(* instance: what the base class does not support is refused               *)
(* (cppfmu_cs_fmi3.hpp:383-385), at any depth of the stack.                *)
THEOREM FailuresAreTheModels == Spec => FailsOnlyByOwnMethods
<1>1. ASSUME Inv, [Next]_vars, lc.state # "Failed", lc'.state = "Failed"
      PROVE  Last(frames).call \in Overrides \cup {"DoStep"}
  <2>1. lc \in LifecycleType
    BY <1>1 DEF Inv, StackInv, TypeOK
  <2>2. CASE \E call \in Calls : BeginCall(call)
    BY <1>1, <2>2 DEF BeginCall
  <2>3. CASE \E set, get \in BOOLEAN : OpenUpdate(set, get)
    <3>1. PICK set \in BOOLEAN, get \in BOOLEAN : OpenUpdate(set, get)
      BY <2>3
    <3>2. lc' = EnterIntermediateUpdate(lc, set, get)
      BY <3>1 DEF OpenUpdate
    <3> QED BY <1>1, <2>1, <3>2, EnterFacts
  <2>4. CASE CallbackReturns
    <3>1. lc' = LeaveIntermediateUpdate(lc)
      BY <2>4 DEF CallbackReturns
    <3> QED BY <1>1, <2>1, <3>1, LeaveFacts
  <2>5. CASE \E outcome \in Outcomes : EndCall(outcome)
    <3>1. PICK outcome \in Outcomes : EndCall(outcome)
      BY <2>5
    <3>2. /\ Last(frames).call \in Calls \ {"DoStep"}
          /\ outcome \in Results(Last(frames).call)
          /\ outcome \in Failures
      BY <1>1, <3>1, EndCallLifecycle
    <3> QED BY <3>2, DefaultsNeverFail DEF Results
  <2>6. CASE \E outcome \in Outcomes : EndDoStep(outcome)
    BY <2>6 DEF EndDoStep
  <2>7. CASE UNCHANGED vars
    BY <1>1, <2>7 DEF vars
  <2> QED BY <1>1, <2>2, <2>3, <2>4, <2>5, <2>6, <2>7 DEF Next
<1>2. Inv /\ [Next]_vars =>
        (lc.state # "Failed" /\ lc'.state = "Failed"
           => Last(frames).call \in Overrides \cup {"DoStep"})
  BY <1>1
<1> QED BY InvHolds, <1>2, PTL DEF Spec, FailsOnlyByOwnMethods
=============================================================================
