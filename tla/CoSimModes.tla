----------------------------- MODULE CoSimModes -----------------------------
(***************************************************************************)
(* What the lifecycle layer promises: each instance moves along the FMI    *)
(* 3.0 Co-Simulation state graph, and a restore takes it only to a mode    *)
(* that some instance was in when an FMU state that still exists was       *)
(* taken.  The calls, the callback, the slave and the memory behind the    *)
(* FMU states are not part of the promise; Fmi3Wrapper implements it.      *)
(***************************************************************************)
CONSTANT Instances

VARIABLES
  mode,   \* the mode of each instance, "None" while it does not exist
  saved   \* the modes recorded in the FMU states that exist

vars == <<mode, saved>>

Modes == {"Instantiated", "Initialization", "Step", "Event", "Terminated"}

Forward ==
  { <<"Instantiated", "Initialization">>,
    <<"Initialization", "Step">>, <<"Initialization", "Event">>,
    <<"Step", "Event">>, <<"Event", "Step">>,
    <<"Initialization", "Terminated">>, <<"Step", "Terminated">>,
    <<"Event", "Terminated">> }

Init ==
  /\ mode = [i \in Instances |-> "None"]
  /\ saved = {}

Move(i, m) == mode' = [mode EXCEPT ![i] = m] /\ UNCHANGED saved

Create(i) == mode[i] = "None" /\ Move(i, "Instantiated")

Destroy(i) == mode[i] \notin {"None", "IntermediateUpdate"} /\ Move(i, "None")

Advance(i) == \E m \in Modes : <<mode[i], m>> \in Forward /\ Move(i, m)

Fail(i) ==
  /\ mode[i] # "None"
  /\ mode' = [mode EXCEPT ![i] = "Failed"]
  /\ saved' \subseteq saved

Reset(i) ==
  mode[i] \notin {"None", "IntermediateUpdate"} /\ Move(i, "Instantiated")

Restore(i) ==
  /\ mode[i] \notin {"None", "IntermediateUpdate"}
  /\ \E m \in saved : Move(i, m)

OpenUpdate(i) == mode[i] = "Step" /\ Move(i, "IntermediateUpdate")

CloseUpdate(i) == mode[i] = "IntermediateUpdate" /\ Move(i, "Step")

Save(i) ==
  /\ mode[i] \in Modes
  /\ saved' \subseteq saved \cup {mode[i]}
  /\ UNCHANGED mode

Discard == saved' \subseteq saved /\ UNCHANGED mode

Next ==
  \/ Discard
  \/ \E i \in Instances :
       \/ Create(i) \/ Destroy(i) \/ Advance(i) \/ Fail(i) \/ Reset(i)
       \/ Restore(i) \/ OpenUpdate(i) \/ CloseUpdate(i) \/ Save(i)

Spec == Init /\ [][Next]_vars
=============================================================================
