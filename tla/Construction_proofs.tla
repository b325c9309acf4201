-------------------------- MODULE Construction_proofs --------------------------
(***************************************************************************)
(* Proofs that however instances are built, fail and are freed, nothing    *)
(* leaks and every part finds what it uses, for any number of instances.   *)
(***************************************************************************)
EXTENDS Construction, TLAPS

(* The parts that exist after the first n have been made.                  *)
Prefix(n) == {Order[k] : k \in 1..n}

(* Building and destroying go through the same states: the parts that      *)
(* exist are the first ones of the order.                                  *)
PartsInOrder(i) ==
  \E n \in 0..Len(Order) :
    /\ parts[i] = Prefix(n)
    /\ stage[i] = "None"       => n = 0
    /\ stage[i] = "Building"   => n < Len(Order)
    /\ stage[i] = "Alive"      => n = Len(Order)
    /\ stage[i] = "Destroying" => n > 0

(* Each existing block comes from the functions of the instance, and       *)
(* Delete's copy of them is the same.                                      *)
BlocksFromMemory(i) ==
  /\ stage[i] # "None" => allocator[i] = functions[i]
  /\ \A p \in Allocated :
       blocks[i][p] = IF p \in parts[i] THEN functions[i] ELSE "None"

Inv ==
  /\ TypeOK
  /\ \A i \in Instances : PartsInOrder(i) /\ BlocksFromMemory(i)

-----------------------------------------------------------------------------
(* The order of the parts.                                                 *)

LEMMA OrderFacts ==
  ASSUME fmi \in {"2.0", "3.0"}
  PROVE  /\ Len(Order) = IF fmi = "3.0" THEN 4 ELSE 7
         /\ \A k \in 1..Len(Order) : Order[k] \in Parts
         /\ \A j, k \in 1..Len(Order) : Order[j] = Order[k] => j = k
         /\ \A k \in 1..Len(Order) : Order[k] = "slave" <=> k = Len(Order)
<1>1. CASE fmi = "3.0"
  BY <1>1 DEF Order, Parts
<1>2. CASE fmi = "2.0"
  BY <1>2 DEF Order, Parts
<1> QED BY <1>1, <1>2

(* A part needs only parts that are made before it.                        *)
LEMMA NeedsAreEarlier ==
  ASSUME fmi \in {"2.0", "3.0"}, NEW k \in 1..Len(Order)
  PROVE  Needs(Order[k]) \subseteq Prefix(k - 1)
<1>1. CASE fmi = "3.0"
  <2>1. Len(Order) = 4 /\ Order[1] = "component" /\ Order[2] = "logging"
        /\ Order[3] = "slaveBlock" /\ Order[4] = "slave"
    BY <1>1 DEF Order
  <2>2. CASE k = 1
    BY <2>1, <2>2 DEF Needs
  <2>3. CASE k \in {2, 3}
    BY <2>1, <2>3 DEF Needs, Prefix
  <2>4. CASE k = 4
    <3>1. Needs(Order[k]) = {"component", "logging", "slaveBlock"}
      BY <1>1, <2>1, <2>4 DEF Needs
    <3>2. {Order[1], Order[2], Order[3]} \subseteq Prefix(k - 1)
      BY <2>4 DEF Prefix
    <3> QED BY <2>1, <3>1, <3>2
  <2> QED BY <2>1, <2>2, <2>3, <2>4
<1>2. CASE fmi = "2.0"
  <2>1. Len(Order) = 7 /\ Order[1] = "component" /\ Order[2] = "memory"
        /\ Order[3] = "settings" /\ Order[4] = "name" /\ Order[5] = "logger"
        /\ Order[6] = "slaveBlock" /\ Order[7] = "slave"
    BY <1>2 DEF Order
  <2>2. CASE k = 1
    BY <2>1, <2>2 DEF Needs
  <2>3. CASE k \in {2, 3, 4, 6}
    BY <2>1, <2>3 DEF Needs, Prefix
  <2>4. CASE k = 5
    BY <2>1, <2>4 DEF Needs, Prefix
  <2>5. CASE k = 7
    BY <1>2, <2>1, <2>5 DEF Needs, Prefix
  <2> QED BY <2>1, <2>2, <2>3, <2>4, <2>5
<1> QED BY <1>1, <1>2

LEMMA PositionInOrder ==
  ASSUME fmi \in {"2.0", "3.0"}, NEW k \in 1..Len(Order)
  PROVE  Position(Order[k]) = k
BY OrderFacts DEF Position

LEMMA LengthIsNat ==
  ASSUME fmi \in {"2.0", "3.0"}
  PROVE  Len(Order) \in Nat /\ Len(Order) > 0
BY OrderFacts

LEMMA PrefixMembers ==
  ASSUME fmi \in {"2.0", "3.0"}, NEW n \in 0..Len(Order), NEW k \in 1..Len(Order)
  PROVE  Order[k] \in Prefix(n) <=> k <= n
BY OrderFacts, LengthIsNat DEF Prefix

LEMMA PrefixSteps ==
  ASSUME fmi \in {"2.0", "3.0"}, NEW n \in 0..Len(Order)
  PROVE  /\ n < Len(Order) => Prefix(n) \cup {Order[n + 1]} = Prefix(n + 1)
         /\ n > 0 => Prefix(n) \ {Order[n]} = Prefix(n - 1)
         /\ Prefix(n) = {} <=> n = 0
         /\ Prefix(n) \subseteq Parts
<1> USE LengthIsNat
<1>1. n < Len(Order) => Prefix(n) \cup {Order[n + 1]} = Prefix(n + 1)
  BY DEF Prefix
<1>2. ASSUME n > 0 PROVE Prefix(n) \ {Order[n]} = Prefix(n - 1)
  <2>1. Prefix(n - 1) \subseteq Prefix(n)
    BY <1>2 DEF Prefix
  <2>2. Order[n] \notin Prefix(n - 1)
    BY <1>2, PrefixMembers
  <2>3. \A p \in Prefix(n) : p = Order[n] \/ p \in Prefix(n - 1)
    BY <1>2 DEF Prefix
  <2> QED BY <2>1, <2>2, <2>3
<1>3. Prefix(n) = {} <=> n = 0
  <2>1. n > 0 => Order[1] \in Prefix(n)
    BY DEF Prefix
  <2>2. n = 0 => Prefix(n) = {}
    BY DEF Prefix
  <2> QED BY <2>1, <2>2
<1>4. Prefix(n) \subseteq Parts
  BY OrderFacts DEF Prefix
<1> QED BY <1>1, <1>2, <1>3, <1>4

LEMMA NextPartInOrder ==
  ASSUME fmi \in {"2.0", "3.0"}, NEW i, NEW n \in 0..Len(Order),
         parts[i] = Prefix(n), n < Len(Order)
  PROVE  NextPart(i) = Order[n + 1]
<1> DEFINE Least(p) ==
      \A q \in Members \ parts[i] : Position(p) <= Position(q)
<1> USE LengthIsNat
<1>1. \A q \in Members \ parts[i] : \E k \in n + 1..Len(Order) : q = Order[k]
  BY PrefixMembers DEF Members
<1>2. Order[n + 1] \in Members \ parts[i]
  BY PrefixMembers DEF Members
<1>3. Least(Order[n + 1])
  BY <1>1, PositionInOrder
<1>4. \A p \in Members \ parts[i] : Least(p) => p = Order[n + 1]
  <2> SUFFICES ASSUME NEW p \in Members \ parts[i], Least(p)
               PROVE  p = Order[n + 1]
    OBVIOUS
  <2>1. PICK k \in n + 1..Len(Order) : p = Order[k]
    BY <1>1
  <2>2. Position(p) = k /\ Position(Order[n + 1]) = n + 1
    BY <2>1, PositionInOrder
  <2>3. k <= n + 1
    BY <1>2, <2>2
  <2> QED BY <2>1, <2>3
<1> QED BY <1>2, <1>3, <1>4 DEF NextPart

LEMMA LastPartInOrder ==
  ASSUME fmi \in {"2.0", "3.0"}, NEW i, NEW n \in 0..Len(Order),
         parts[i] = Prefix(n), n > 0
  PROVE  LastPart(i) = Order[n]
<1> DEFINE Greatest(p) == \A q \in parts[i] : Position(q) <= Position(p)
<1> USE LengthIsNat
<1>1. \A q \in parts[i] : \E k \in 1..n : q = Order[k]
  BY DEF Prefix
<1>2. Order[n] \in parts[i]
  BY DEF Prefix
<1>3. Greatest(Order[n])
  BY <1>1, PositionInOrder
<1>4. \A p \in parts[i] : Greatest(p) => p = Order[n]
  <2> SUFFICES ASSUME NEW p \in parts[i], Greatest(p)
               PROVE  p = Order[n]
    OBVIOUS
  <2>1. PICK k \in 1..n : p = Order[k]
    BY <1>1
  <2>2. Position(p) = k /\ Position(Order[n]) = n
    BY <2>1, PositionInOrder
  <2>3. n <= k
    BY <1>2, <2>2
  <2> QED BY <2>1, <2>3
<1> QED BY <1>2, <1>3, <1>4 DEF LastPart

-----------------------------------------------------------------------------
LEMMA InitInv == Init => Inv
<1> SUFFICES ASSUME Init PROVE Inv
  OBVIOUS
<1>1. TypeOK
  BY DEF Init, TypeOK, Stages, Functions, NoBlocks
<1>2. ASSUME NEW i \in Instances
      PROVE  PartsInOrder(i) /\ BlocksFromMemory(i)
  <2>1. parts[i] = Prefix(0)
    BY DEF Init, Prefix
  <2>2. 0 \in 0..Len(Order)
    BY LengthIsNat DEF Init
  <2> QED BY <2>1, <2>2 DEF Init, PartsInOrder, BlocksFromMemory, NoBlocks
<1> QED BY <1>1, <1>2 DEF Inv

(* The calls on other instances, and the interface, are as before.         *)
LEMMA OthersKept ==
  ASSUME Inv, NEW i \in Instances, fmi' = fmi,
         \A j \in Instances \ {i} :
           /\ stage'[j] = stage[j] /\ parts'[j] = parts[j]
           /\ functions'[j] = functions[j] /\ blocks'[j] = blocks[j]
           /\ allocator'[j] = allocator[j],
         TypeOK', PartsInOrder(i)', BlocksFromMemory(i)'
  PROVE  Inv'
<1>1. Order' = Order
  BY DEF Order
<1>2. \A n : Prefix(n)' = Prefix(n)
  BY <1>1 DEF Prefix
<1> QED BY <1>1, <1>2 DEF Inv, PartsInOrder, BlocksFromMemory

(* What a step that leaves the interface alone makes of PartsInOrder.      *)
LEMMA OrderNext ==
  ASSUME fmi' = fmi, NEW i, NEW n \in 0..Len(Order), parts'[i] = Prefix(n),
         stage'[i] = "None" => n = 0,
         stage'[i] = "Building" => n < Len(Order),
         stage'[i] = "Alive" => n = Len(Order),
         stage'[i] = "Destroying" => n > 0
  PROVE  PartsInOrder(i)'
BY DEF PartsInOrder, Prefix, Order

LEMMA BeginInv ==
  ASSUME Inv, NEW i \in Instances, NEW hasCallbacks \in BOOLEAN,
         Begin(i, hasCallbacks)
  PROVE  Inv'
<1>1. MemoryFor(hasCallbacks) \in Functions
  BY DEF MemoryFor, Functions
<1>2. TypeOK'
  BY <1>1 DEF Begin, Inv, TypeOK, Stages
<1>3. PICK n \in 0..Len(Order) : parts[i] = Prefix(n) /\ n = 0
  BY DEF Inv, PartsInOrder, Begin
<1>4. stage'[i] = "Building" /\ parts'[i] = parts[i] /\ blocks'[i] = blocks[i]
      /\ functions'[i] = MemoryFor(hasCallbacks)
      /\ allocator'[i] = MemoryFor(hasCallbacks)
  BY DEF Begin, Inv, TypeOK
<1>5. PartsInOrder(i)'
  BY <1>3, <1>4, LengthIsNat, OrderNext DEF Begin, Inv, TypeOK
<1>6. parts[i] = {}
  BY <1>3 DEF Prefix
<1>7. BlocksFromMemory(i)'
  BY <1>4, <1>6 DEF BlocksFromMemory, Inv
<1> QED BY <1>2, <1>5, <1>7, OthersKept DEF Begin, Inv, TypeOK

LEMMA BuildInv ==
  ASSUME Inv, NEW i \in Instances, Build(i)
  PROVE  Inv'
<1> DEFINE part == NextPart(i)
<1>1. PICK n \in 0..Len(Order) : parts[i] = Prefix(n) /\ n < Len(Order)
  BY DEF Inv, PartsInOrder, Build
<1>2. fmi \in {"2.0", "3.0"} /\ fmi' = fmi
  BY DEF Inv, TypeOK, Build
<1>3. part = Order[n + 1] /\ n + 1 \in 1..Len(Order)
  BY <1>1, <1>2, NextPartInOrder, LengthIsNat
<1>4. part \in Parts /\ (part = "slave" <=> n + 1 = Len(Order)) /\ part \notin parts[i]
  BY <1>1, <1>2, <1>3, OrderFacts, PrefixMembers
<1> HIDE DEF part
<1>5. /\ parts' = [parts EXCEPT ![i] = @ \cup {part}]
      /\ blocks' = IF part \in Allocated
                     THEN [blocks EXCEPT ![i][part] = functions[i]]
                     ELSE blocks
      /\ stage' = [stage EXCEPT ![i] = IF part = "slave" THEN "Alive" ELSE @]
      /\ UNCHANGED <<fmi, functions, allocator>>
  BY DEF Build, part
<1>6. TypeOK'
  BY <1>4, <1>5 DEF Inv, TypeOK, Stages
<1>7. PartsInOrder(i)'
  <2>1. parts'[i] = Prefix(n + 1)
    BY <1>1, <1>2, <1>3, <1>5, PrefixSteps DEF Inv, TypeOK
  <2>2. stage'[i] = IF n + 1 = Len(Order) THEN "Alive" ELSE "Building"
    BY <1>4, <1>5 DEF Build, Inv, TypeOK
  <2>3. n + 1 \in 0..Len(Order) /\ (n + 1 # Len(Order) => n + 1 < Len(Order))
    BY <1>2, <1>3, LengthIsNat
  <2> QED BY <1>2, <2>1, <2>2, <2>3, OrderNext
<1>8. BlocksFromMemory(i)'
  <2>1. ASSUME NEW p \in Allocated
        PROVE  blocks'[i][p] = IF p \in parts'[i] THEN functions'[i] ELSE "None"
    BY <1>4, <1>5 DEF Inv, TypeOK, BlocksFromMemory
  <2> QED BY <1>5, <2>1 DEF BlocksFromMemory, Build, Inv
<1> QED BY <1>5, <1>6, <1>7, <1>8, OthersKept DEF Inv, TypeOK

LEMMA FailBuildInv ==
  ASSUME Inv, NEW i \in Instances, FailBuild(i)
  PROVE  Inv'
<1>1. PICK n \in 0..Len(Order) : parts[i] = Prefix(n)
  BY DEF Inv, PartsInOrder
<1>2. /\ parts' = parts
      /\ stage'[i] = IF parts[i] = {} THEN "None" ELSE "Destroying"
      /\ fmi \in {"2.0", "3.0"} /\ fmi' = fmi
  BY DEF FailBuild, Unwound, Inv, TypeOK
<1>3. TypeOK'
  BY <1>2 DEF FailBuild, Inv, TypeOK, Stages
<1>4. parts[i] = {} <=> n = 0
  BY <1>1, <1>2, PrefixSteps
<1>5. PartsInOrder(i)'
  BY <1>1, <1>2, <1>4, OrderNext, LengthIsNat
<1>6. BlocksFromMemory(i)'
  BY <1>2 DEF FailBuild, Inv, BlocksFromMemory
<1> QED BY <1>2, <1>3, <1>5, <1>6, OthersKept DEF FailBuild, Inv, TypeOK

LEMMA FreeInstanceInv ==
  ASSUME Inv, NEW i \in Instances, FreeInstance(i)
  PROVE  Inv'
<1>1. PICK n \in 0..Len(Order) : parts[i] = Prefix(n) /\ n = Len(Order)
  BY DEF Inv, PartsInOrder, FreeInstance
<1>2. /\ fmi \in {"2.0", "3.0"}
      /\ stage'[i] = "Destroying" /\ allocator'[i] = functions[i]
      /\ UNCHANGED <<fmi, parts, functions, blocks>>
  BY DEF FreeInstance, Inv, TypeOK
<1>3. TypeOK'
  BY <1>2 DEF FreeInstance, Inv, TypeOK, Stages
<1>4. PartsInOrder(i)'
  BY <1>1, <1>2, OrderNext, LengthIsNat
<1>5. BlocksFromMemory(i)'
  BY <1>2 DEF Inv, BlocksFromMemory
<1> QED BY <1>2, <1>3, <1>4, <1>5, OthersKept DEF FreeInstance, Inv, TypeOK

(* The functions that free a part are those that allocated it.             *)
LEMMA DestroyInv ==
  ASSUME Inv, NEW i \in Instances, Destroy(i)
  PROVE  Inv'
<1> DEFINE part == LastPart(i)
<1>1. PICK n \in 0..Len(Order) : parts[i] = Prefix(n) /\ n > 0
  BY DEF Inv, PartsInOrder, Destroy
<1>2. fmi \in {"2.0", "3.0"} /\ fmi' = fmi
  BY DEF Inv, TypeOK, Destroy
<1>3. part = Order[n] /\ n - 1 \in 0..Len(Order) /\ n \in 1..Len(Order)
  BY <1>1, <1>2, LastPartInOrder, LengthIsNat
<1>4. part \in Parts /\ part \in parts[i]
  BY <1>1, <1>2, <1>3, OrderFacts, PrefixMembers
<1> HIDE DEF part
<1>5. /\ parts' = [parts EXCEPT ![i] = @ \ {part}]
      /\ blocks' = IF part \in Allocated /\ blocks[i][part] = FreedWith(i, part)
                     THEN [blocks EXCEPT ![i][part] = "None"]
                     ELSE blocks
      /\ stage' = [stage EXCEPT ![i] = IF parts[i] = {part} THEN "None" ELSE @]
      /\ UNCHANGED <<fmi, functions, allocator>>
  BY DEF Destroy, part
<1>6. FreedWith(i, part) = functions[i]
  BY DEF FreedWith, Inv, BlocksFromMemory, Destroy
<1>7. TypeOK'
  BY <1>5 DEF Inv, TypeOK, Stages
<1>8. PartsInOrder(i)'
  <2>1. parts'[i] = Prefix(n - 1)
    BY <1>1, <1>2, <1>3, <1>5, PrefixSteps DEF Inv, TypeOK
  <2>2. parts[i] = {part} <=> n - 1 = 0
    <3>1. parts[i] = {part} <=> parts'[i] = {}
      BY <1>4, <1>5 DEF Inv, TypeOK
    <3> QED BY <1>2, <1>3, <2>1, <3>1, PrefixSteps
  <2>3. stage'[i] = IF n - 1 = 0 THEN "None" ELSE "Destroying"
    BY <1>5, <2>2 DEF Destroy, Inv, TypeOK
  <2>4. n - 1 # 0 => n - 1 > 0
    BY <1>3
  <2> QED BY <1>2, <1>3, <2>1, <2>3, <2>4, OrderNext
<1>9. BlocksFromMemory(i)'
  <2>1. ASSUME NEW p \in Allocated
        PROVE  blocks'[i][p] = IF p \in parts'[i] THEN functions'[i] ELSE "None"
    BY <1>4, <1>5, <1>6 DEF Inv, TypeOK, BlocksFromMemory
  <2> QED BY <1>5, <2>1 DEF BlocksFromMemory, Destroy, Inv
<1> QED BY <1>5, <1>7, <1>8, <1>9, OthersKept DEF Inv, TypeOK

LEMMA NextInv ==
  ASSUME Inv, [Next]_vars
  PROVE  Inv'
<1>1. CASE Next
  BY <1>1, BeginInv, BuildInv, FailBuildInv, FreeInstanceInv, DestroyInv DEF Next
<1>2. CASE UNCHANGED vars
  <2>1. TypeOK'
    BY <1>2 DEF vars, Inv, TypeOK
  <2>2. Order' = Order /\ \A n : Prefix(n)' = Prefix(n)
    BY <1>2 DEF vars, Order, Prefix
  <2>3. \A i \in Instances : PartsInOrder(i)' /\ BlocksFromMemory(i)'
    BY <1>2, <2>2 DEF vars, Inv, PartsInOrder, BlocksFromMemory
  <2> QED BY <2>1, <2>3 DEF Inv
<1> QED BY <1>1, <1>2

-----------------------------------------------------------------------------
(* The parts of an instance are always the first ones of their order, and  *)
(* their memory comes from the instance's own functions.                   *)
THEOREM InvHolds == Spec => []Inv
BY InitInv, NextInv, PTL DEF Spec

(* Every variable keeps its type.                                          *)
THEOREM TypesHold == Spec => []TypeOK
<1>1. Inv => TypeOK
  BY DEF Inv
<1> QED BY InvHolds, <1>1, PTL

(* No memory is left behind or given to functions it did not come from,    *)
(* at whichever part an instantiation fails (New, Delete, AllocateUnique). *)
THEOREM MemoryIsFreed == Spec => []NothingLeaks
<1>1. Inv => NothingLeaks
  BY DEF Inv, TypeOK, BlocksFromMemory, NothingLeaks, Functions
<1> QED BY InvHolds, <1>1, PTL

(* A slave can log until the end of its destructor, and every other part   *)
(* finds what it uses (Component, order of the members).                   *)
THEOREM NeedsAreMet == Spec => []PartsFindWhatTheyNeed
<1>1. ASSUME Inv, NEW i \in Instances, NEW p \in parts[i]
      PROVE  Needs(p) \subseteq parts[i]
  <2>1. fmi \in {"2.0", "3.0"}
    BY <1>1 DEF Inv, TypeOK
  <2>2. PICK n \in 0..Len(Order) : parts[i] = Prefix(n)
    BY <1>1 DEF Inv, PartsInOrder
  <2>3. PICK k \in 1..n : p = Order[k]
    BY <1>1, <2>2 DEF Prefix
  <2>4. Needs(p) \subseteq Prefix(k - 1)
    BY <2>1, <2>3, NeedsAreEarlier, LengthIsNat
  <2>5. Prefix(k - 1) \subseteq Prefix(n)
    BY <2>3 DEF Prefix
  <2> QED BY <2>2, <2>4, <2>5
<1>2. Inv => PartsFindWhatTheyNeed
  BY <1>1 DEF PartsFindWhatTheyNeed
<1> QED BY InvHolds, <1>2, PTL
=============================================================================
