---------------------------- MODULE NestedUpdates ----------------------------
(***************************************************************************)
(* Intermediate updates inside any call, not only directly inside DoStep.  *)
(*                                                                         *)
(* The wrapper takes a slave to be in DoStep while Component::inDoStep is  *)
(* up (fmi3_functions.cpp), and that is so during the importer's callback  *)
(* too.  So a slave whose Get or Set method the callback leads to can call *)
(* IntermediateUpdate from there.  Fmi3Wrapper has such calls as one step; *)
(* here every call on one instance is a frame of the call stack, with the  *)
(* updates opened inside it.  Times and the data of FMU states are left    *)
(* out.                                                                    *)
(***************************************************************************)
EXTENDS SlaveInstance3, Sequences, SequencesExt

CONSTANT MaxDepth  \* bound on the frames of the call stack

VARIABLES
  lc,        \* Component::lifecycle
  inDoStep,  \* Component::inDoStep
  frames,    \* the calls and callbacks that are running, innermost last
  reentered  \* has the slave opened an update outside the body of its DoStep?

vars == <<lc, inDoStep, frames, reentered>>

(* A frame is the call that the slave is serving, or a callback: what its  *)
(* update was opened for, and whether a set succeeded in it.               *)
Serving(call) == [call |-> call, set |-> FALSE, get |-> FALSE, wrote |-> FALSE]

Callback(set, get) ==
  [call |-> "callback", set |-> set, get |-> get, wrote |-> FALSE]

InCallback   == frames # <<>> /\ Last(frames).call = "callback"
SlaveRuns    == frames # <<>> /\ Last(frames).call # "callback"
ImporterRuns == ~SlaveRuns

Init ==
  /\ \E eventModeUsed \in BOOLEAN : lc = NewLifecycle(eventModeUsed)
  /\ inDoStep = FALSE
  /\ frames = <<>>
  /\ reentered = FALSE

(* The importer leaves an instance that a callback has seen fail alone     *)
(* until DoStep returns.                                                   *)
BeginCall(call) ==
  /\ ImporterRuns
  /\ frames # <<>> => lc.state # "Failed"
  /\ Len(frames) < MaxDepth
  /\ Allows(lc, call)
  /\ frames' = Append(frames, Serving(call))
  /\ inDoStep' = (inDoStep \/ call = "DoStep")
  /\ UNCHANGED <<lc, reentered>>

(* A call of IntermediateUpdate that is not rejected; the rejected ones    *)
(* throw std::logic_error into the slave and change nothing here.          *)
OpenUpdate(set, get) ==
  /\ SlaveRuns
  /\ inDoStep
  /\ Len(frames) < MaxDepth
  /\ lc' = EnterIntermediateUpdate(lc, set, get)
  /\ frames' = Append(frames, Callback(set, get))
  /\ reentered' = (reentered \/ Last(frames).call # "DoStep")
  /\ UNCHANGED inDoStep

CallbackReturns ==
  /\ InCallback
  /\ lc' = LeaveIntermediateUpdate(lc)
  /\ frames' = Front(frames)
  /\ UNCHANGED <<inDoStep, reentered>>

(* The callback below remembers that one of its sets succeeded.            *)
Returned(call, outcome) ==
  LET below == Front(frames) IN
  IF below = <<>>
    THEN below
    ELSE [below EXCEPT ![Len(below)].wrote =
            @ \/ (call = "WriteVariable" /\ outcome = "ok")]

(* The tail of RunLegalCall, and the mode that fmi3SetFMUState restores    *)
(* after it: any that an FMU state can have been taken in.                 *)
EndCall(outcome) ==
  /\ SlaveRuns
  /\ LET call  == Last(frames).call
         after == Completed(lc, call, outcome)
     IN /\ call # "DoStep"
        /\ outcome \in Results(call)
        /\ IF call = "FmuStateRestore" /\ outcome = "ok"
             THEN \E saved \in Readable : lc' = RestoreFromSnapshot(after, saved)
             ELSE lc' = after
        /\ frames' = Returned(call, outcome)
  /\ UNCHANGED <<inDoStep, reentered>>

(* A std::logic_error fails the instance here, unlike in RunLegalCall.     *)
StepFailures == Failures \cup {"logic"}

(* Mutant of InDoStepAfter: the flag is lowered where DoStep returns, not  *)
(* by a destructor.                                                        *)
InDoStepAfterReturn(outcome) == outcome \in StepFailures

(* DoStepScope's destructor, also when the slave throws.                   *)
InDoStepAfter(outcome) == FALSE

EndDoStep(outcome) ==
  /\ SlaveRuns
  /\ Last(frames).call = "DoStep"
  /\ lc' = IF outcome \in StepFailures THEN Fail(lc) ELSE lc
  /\ inDoStep' = InDoStepAfter(outcome)
  /\ frames' = Front(frames)
  /\ UNCHANGED reentered

Next ==
  \/ \E call \in Calls : BeginCall(call)
  \/ \E set, get \in BOOLEAN : OpenUpdate(set, get)
  \/ CallbackReturns
  \/ \E outcome \in Outcomes : EndCall(outcome)
  \/ \E outcome \in Outcomes : EndDoStep(outcome)

Spec == Init /\ [][Next]_vars

-----------------------------------------------------------------------------
(* Whatever the slave re-enters and however its calls end, the flag that   *)
(* permits updates is up only while some DoStep runs, and the instance is  *)
(* in Intermediate Update Mode only while some callback does (DoStepScope, *)
(* Lifecycle::LeaveIntermediateUpdate).                                    *)
UpdatesFollowTheStack ==
  /\ inDoStep => \E k \in 1..Len(frames) : frames[k].call = "DoStep"
  /\ lc.state = "IntermediateUpdate" =>
       \E k \in 1..Len(frames) : frames[k].call = "callback"

(* While the importer's callback runs on an instance that has not failed,  *)
(* and the slave has opened updates only from the body of its DoStep, only *)
(* the access that its own update was opened for is allowed, and no get    *)
(* after a set.                                                            *)
CallbackStaysRestricted ==
  ~reentered /\ InCallback /\ lc.state # "Failed" =>
    \A call \in Calls : Allows(lc, call) =>
      \/ call = "WriteVariable" /\ Last(frames).set
      \/ /\ call \in {"ReadVariable", "OutputDerivatives"}
         /\ Last(frames).get /\ ~Last(frames).wrote

(* A call that the model leaves to the base class never fails the          *)
(* instance: what the base class does not support is refused, as           *)
(* cppfmu_cs_fmi3.hpp:383-385 has it for derivatives, also within updates. *)
FailsOnlyByOwnMethods ==
  [][lc.state # "Failed" /\ lc'.state = "Failed"
       => Last(frames).call \in Overrides \cup {"DoStep"}]_vars

(* Whatever the updates around it were opened for, no call but gets and    *)
(* sets is allowed meanwhile (cppfmu_cs_fmi3.hpp:493-498: "Every other     *)
(* call is refused meanwhile").                                            *)
OthersRefusedMeanwhile ==
  InCallback /\ lc.state # "Failed" =>
    \A call \in Calls : Allows(lc, call) =>
      call \in {"WriteVariable", "ReadVariable", "OutputDerivatives"}
=============================================================================
