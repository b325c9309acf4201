---------------------------- MODULE Construction ----------------------------
(***************************************************************************)
(* How an instance is put together and taken apart: the instantiation and  *)
(* freeing functions of the three interfaces, struct Component, and New,   *)
(* Delete, AllocateUnique and Memory (cppfmu_common.hpp), with which FMI   *)
(* 1.0 and 2.0 allocate from the importer's memory functions.              *)
(*                                                                         *)
(* Instantiation makes one part after the other and may fail at each.  The *)
(* parts made so far are then destroyed, last declared first, by the catch *)
(* clause of New, the deleter of a unique_ptr or Delete; all three come to *)
(* the same, one part at a time.  Calls on several instances may overlap.  *)
(***************************************************************************)
EXTENDS Naturals, Sequences

CONSTANT Instances

VARIABLES
  fmi,        \* the interface: "2.0" (and 1.0), or "3.0"; no step changes it
  stage,      \* what happens to each instance
  parts,      \* the parts of it that exist
  functions,  \* the functions of Component::memory, as Memory chose them
  blocks,     \* for each part, whose functions allocated its memory
  allocator   \* the copy of them with which Delete frees the Component

vars == <<fmi, stage, parts, functions, blocks, allocator>>

Stages == {"None", "Building", "Alive", "Destroying"}

(* Memory's constructor: a null callback is replaced by the C library's.   *)
Functions == {"Importer", "Default"}

(* Mutant of MemoryFor: null callbacks are kept.                           *)
MemoryAsGiven(hasCallbacks) == IF hasCallbacks THEN "Importer" ELSE "None"

MemoryFor(hasCallbacks) == IF hasCallbacks THEN "Importer" ELSE "Default"

(* A part that is only memory, or only an object in such memory, or both.  *)
(* "name" is the copy of the instance's name that the logger holds.        *)
Parts == {"component", "memory", "settings", "name", "logger", "slaveBlock",
          "slave", "logging"}

Allocated == {"component", "name", "slaveBlock"}

(* The parts in the order in which instantiation makes them, which is that *)
(* of the members in Component.  The FMI 3.0 Component comes from new and  *)
(* delete.                                                                 *)
(* Mutant of Order: the slave is declared before what it logs through.     *)
SlaveFirst ==
  IF fmi = "3.0"
    THEN <<"component", "slaveBlock", "slave", "logging">>
    ELSE <<"component", "memory", "settings", "name", "logger",
           "slaveBlock", "slave">>

Order ==
  IF fmi = "3.0"
    THEN <<"component", "logging", "slaveBlock", "slave">>
    ELSE <<"component", "memory", "settings", "name", "logger",
           "slaveBlock", "slave">>

(* What a part uses for as long as it exists: a slave logs, also from its  *)
(* destructor, through the settings it shares or through the Component.    *)
Needs(part) ==
  CASE part = "slave" /\ fmi = "3.0" -> {"component", "logging", "slaveBlock"}
    [] part = "slave" /\ fmi # "3.0" -> {"settings", "slaveBlock"}
    [] part = "logger"               -> {"component", "settings", "name"}
    [] part = "component"            -> {}
    [] OTHER                         -> {"component"}

Position(part) == CHOOSE k \in 1..Len(Order) : Order[k] = part

Members == {Order[k] : k \in 1..Len(Order)}

(* The next part to make, and the next one to destroy.                     *)
NextPart(i) ==
  CHOOSE p \in Members \ parts[i] :
    \A q \in Members \ parts[i] : Position(p) <= Position(q)

LastPart(i) ==
  CHOOSE p \in parts[i] : \A q \in parts[i] : Position(q) <= Position(p)

NoBlocks == [p \in Allocated |-> "None"]

Init ==
  /\ fmi \in {"2.0", "3.0"}
  /\ stage = [i \in Instances |-> "None"]
  /\ parts = [i \in Instances |-> {}]
  /\ functions = [i \in Instances |-> "Default"]
  /\ blocks = [i \in Instances |-> NoBlocks]
  /\ allocator = [i \in Instances |-> "None"]

-----------------------------------------------------------------------------
(* fmi?Instantiate is called.                                              *)
Begin(i, hasCallbacks) ==
  /\ stage[i] = "None"
  /\ fmi = "3.0" => ~hasCallbacks
  /\ stage' = [stage EXCEPT ![i] = "Building"]
  /\ functions' = [functions EXCEPT ![i] = MemoryFor(hasCallbacks)]
  /\ allocator' = [allocator EXCEPT ![i] = MemoryFor(hasCallbacks)]
  /\ UNCHANGED <<fmi, parts, blocks>>

Build(i) ==
  /\ stage[i] = "Building"
  /\ LET part == NextPart(i) IN
       /\ parts' = [parts EXCEPT ![i] = @ \cup {part}]
       /\ blocks' = IF part \in Allocated
                      THEN [blocks EXCEPT ![i][part] = functions[i]]
                      ELSE blocks
       /\ stage' = [stage EXCEPT ![i] = IF part = "slave" THEN "Alive" ELSE @]
  /\ UNCHANGED <<fmi, functions, allocator>>

(* Mutant of Unwound: New does not free what it allocated if the           *)
(* constructor throws.                                                     *)
UnwoundByCaller(i) ==
  IF fmi = "3.0" \/ "logger" \in parts[i] THEN parts[i]
                                          ELSE parts[i] \ {"component"}

(* What an exception takes apart.                                          *)
Unwound(i) == parts[i]

(* Memory runs out, or the model's code throws.                            *)
FailBuild(i) ==
  /\ stage[i] = "Building"
  /\ stage' = [stage EXCEPT ![i] = IF Unwound(i) = {} THEN "None" ELSE "Destroying"]
  /\ parts' = [parts EXCEPT ![i] = Unwound(i)]
  /\ UNCHANGED <<fmi, functions, blocks, allocator>>

(* fmi?FreeInstance: Delete first makes its copy of the memory functions.  *)
FreeInstance(i) ==
  /\ stage[i] = "Alive"
  /\ stage' = [stage EXCEPT ![i] = "Destroying"]
  /\ allocator' = [allocator EXCEPT ![i] = functions[i]]
  /\ UNCHANGED <<fmi, parts, functions, blocks>>

(* Mutant of FreedWith: Delete reads the Memory in the object it destroys. *)
FreedWithOwnMemory(i, part) ==
  IF part = "component" /\ fmi # "3.0" /\ "memory" \notin parts[i]
    THEN "None"
    ELSE functions[i]

(* Whose functions free a part: a unique_ptr's deleter and a String have   *)
(* their own copy, Delete uses the one it made.                            *)
FreedWith(i, part) == IF part = "component" THEN allocator[i] ELSE functions[i]

(* An object is destroyed; if it is memory, that is freed, if by the       *)
(* functions that it came from.                                            *)
Destroy(i) ==
  /\ stage[i] = "Destroying"
  /\ LET part == LastPart(i) IN
       /\ parts' = [parts EXCEPT ![i] = @ \ {part}]
       /\ blocks' = IF part \in Allocated /\ blocks[i][part] = FreedWith(i, part)
                      THEN [blocks EXCEPT ![i][part] = "None"]
                      ELSE blocks
       /\ stage' = [stage EXCEPT ![i] = IF parts[i] = {part} THEN "None" ELSE @]
  /\ UNCHANGED <<fmi, functions, allocator>>

-----------------------------------------------------------------------------
Next ==
  \E i \in Instances :
    \/ \E hasCallbacks \in BOOLEAN : Begin(i, hasCallbacks)
    \/ Build(i)
    \/ FailBuild(i)
    \/ FreeInstance(i)
    \/ Destroy(i)

Spec == Init /\ [][Next]_vars

-----------------------------------------------------------------------------
(* Type invariant: each variable holds a value of its type.                *)
TypeOK ==
  /\ fmi \in {"2.0", "3.0"}
  /\ stage \in [Instances -> Stages]
  /\ parts \in [Instances -> SUBSET Parts]
  /\ functions \in [Instances -> Functions]
  /\ blocks \in [Instances -> [Allocated -> Functions \cup {"None"}]]
  /\ allocator \in [Instances -> Functions \cup {"None"}]

(* No instantiation that fails, at whichever part, and no destruction      *)
(* leaves memory behind or gives it to functions it did not come from      *)
(* (New, Delete, AllocateUnique, fmi?Instantiate, fmi?FreeInstance).       *)
NothingLeaks ==
  \A i \in Instances : \A p \in Allocated :
    blocks[i][p] # "None" <=> p \in parts[i]

(* Every part that exists finds what it uses still there, while the        *)
(* instance is built, taken apart half built, and freed: a slave can log   *)
(* until the end of its destructor (Component, order of the members).      *)
PartsFindWhatTheyNeed ==
  \A i \in Instances : \A p \in parts[i] : Needs(p) \subseteq parts[i]
=============================================================================
