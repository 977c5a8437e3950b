------------------------- MODULE ParticleSetProofs -------------------------
(***************************************************************************)
(* The particles of a node, for any number of them: the vector and the map *)
(* agree, the deletion loop deletes every sequence exactly once although   *)
(* it removes what it iterates over, and so the container implements the   *)
(* set of entries that pruning takes it for.                               *)
(***************************************************************************)
EXTENDS ParticleSet, TLAPS

(* What the loop has done to the set when it has read position slots.  The *)
(* slots it has still to read hold the entries they held when it began,    *)
(* all of them still in the set; those that were in the last position      *)
(* slots have been moved to the front, in reverse order.                   *)
LoopInv ==
    looping =>
        /\ position <= end
        /\ size = end - position
        /\ \A k \in position..(end - 1) :
              /\ memory[k] \in DOMAIN map_
              /\ map_[memory[k]] = IF k >= end - position THEN end - 1 - k ELSE k

IInv == TypeOK /\ ListMatchesMap /\ LoopInv

-----------------------------------------------------------------------------
LEMMA InitEstablishesIInv == Init => IInv
<1> SUFFICES ASSUME Init PROVE IInv
  OBVIOUS
<1>1. DOMAIN map_ = {} /\ map_ \in [DOMAIN map_ -> 0..(Capacity - 1)]
  BY DEF Init
<1>2. /\ memory = [i \in Slots |-> Nothing]
      /\ size = 0 /\ looping = FALSE /\ position = 0 /\ end = 0
  BY DEF Init
<1>3. TypeOK
  <2>1. memory \in [Slots -> Entries \cup {Nothing}]
    BY <1>2
  <2>2. 0 \in 0..Capacity
    BY ParticleSetAssumption
  <2>3. looping \in BOOLEAN
    BY <1>2
  <2> QED
    BY <1>1, <1>2, <2>1, <2>2, <2>3 DEF TypeOK
<1>4. ListMatchesMap
  BY <1>1, <1>2 DEF ListMatchesMap
<1>5. LoopInv
  BY <1>2 DEF LoopInv
<1> QED
  BY <1>3, <1>4, <1>5 DEF IInv

(* Adding an element. *)
LEMMA AddKeepsSet ==
    ASSUME TypeOK, ListMatchesMap, NEW e \in Entries, AddElement(e),
           UNCHANGED loopVars
    PROVE  /\ TypeOK' /\ ListMatchesMap'
           /\ DOMAIN map_' = DOMAIN map_ \cup {e}
<1> USE ParticleSetAssumption
<1>1. CASE Contains(e)
  BY <1>1 DEF AddElement, Contains, setVars, loopVars, TypeOK, ListMatchesMap
<1>2. CASE ~Contains(e)
  <2>1. /\ size < Capacity
        /\ memory' = [memory EXCEPT ![size] = e]
        /\ size' = size + 1
        /\ map_' = [x \in DOMAIN map_ \cup {e} |-> IF x = e THEN size ELSE map_[x]]
        /\ e \notin DOMAIN map_
    BY <1>2 DEF AddElement, Contains
  <2>2. size \in Slots
    BY <2>1 DEF TypeOK, Slots
  <2>3. TypeOK'
    BY <2>1, <2>2 DEF TypeOK, Slots, loopVars
  <2>4. \A x \in DOMAIN map_' : map_'[x] < size' /\ memory'[map_'[x]] = x
    BY <2>1, <2>2 DEF TypeOK, ListMatchesMap, Slots
  <2>5. \A i \in 0..(size' - 1) : memory'[i] \in DOMAIN map_' /\ map_'[memory'[i]] = i
    BY <2>1, <2>2 DEF TypeOK, ListMatchesMap, Slots
  <2> QED
    BY <2>1, <2>3, <2>4, <2>5 DEF ListMatchesMap
<1> QED
  BY <1>1, <1>2

(* What removing an element that is in the set does to the three fields. *)
LEMMA RemoveEffect ==
    ASSUME TypeOK, ListMatchesMap, NEW e \in DOMAIN map_, RemoveElement(e)
    PROVE  /\ size - 1 \in Slots /\ map_[e] \in Slots /\ size > 0
           /\ memory[size - 1] \in DOMAIN map_
           /\ map_[memory[size - 1]] = size - 1
           /\ memory' = [memory EXCEPT ![map_[e]] = memory[size - 1]]
           /\ size' = size - 1
           /\ DOMAIN map_' = DOMAIN map_ \ {e}
           /\ \A x \in DOMAIN map_ \ {e} :
                 map_'[x] = IF x = memory[size - 1] THEN map_[e] ELSE map_[x]
           /\ map_' = [x \in DOMAIN map_' |-> map_'[x]]
<1>1. /\ memory' = [memory EXCEPT ![map_[e]] = memory[size - 1]]
      /\ size' = size - 1
      /\ map_' = [x \in DOMAIN map_ \ {e} |->
                     IF x = memory[size - 1] THEN map_[e] ELSE map_[x]]
  BY DEF RemoveElement, Contains
<1>2. map_[e] \in 0..(Capacity - 1) /\ map_[e] < size
  BY DEF TypeOK, ListMatchesMap
<1>3. size > 0 /\ size - 1 \in Slots /\ map_[e] \in Slots
  BY <1>2, ParticleSetAssumption DEF TypeOK, Slots
<1>4. memory[size - 1] \in DOMAIN map_ /\ map_[memory[size - 1]] = size - 1
  <2>1. size - 1 \in 0..(size - 1)
    BY <1>3 DEF TypeOK
  <2> QED
    BY <2>1 DEF ListMatchesMap
<1> QED
  BY <1>1, <1>3, <1>4

(* Removing an element. *)
LEMMA RemoveKeepsSet ==
    ASSUME TypeOK, ListMatchesMap, NEW e \in Entries, RemoveElement(e)
    PROVE  /\ ListMatchesMap'
           /\ DOMAIN map_' = DOMAIN map_ \ {e}
           /\ memory' \in [Slots -> Entries \cup {Nothing}]
           /\ size' \in 0..Capacity
           /\ DOMAIN map_' \subseteq Entries
           /\ map_' \in [DOMAIN map_' -> 0..(Capacity - 1)]
<1> USE ParticleSetAssumption
<1>1. CASE ~Contains(e)
  <2>1. memory' = memory /\ size' = size /\ map_' = map_
    BY <1>1 DEF RemoveElement, setVars
  <2>2. DOMAIN map_' = DOMAIN map_ \ {e}
    BY <1>1, <2>1 DEF Contains
  <2>3. ListMatchesMap'
    BY <2>1 DEF ListMatchesMap
  <2>4. /\ memory' \in [Slots -> Entries \cup {Nothing}] /\ size' \in 0..Capacity
        /\ DOMAIN map_' \subseteq Entries
        /\ map_' \in [DOMAIN map_' -> 0..(Capacity - 1)]
    BY <2>1 DEF TypeOK
  <2> QED
    BY <2>2, <2>3, <2>4
<1>2. CASE Contains(e)
  <2> DEFINE last == memory[size - 1]
  <2>1. e \in DOMAIN map_
    BY <1>2 DEF Contains
  <2>2. /\ size - 1 \in Slots /\ map_[e] \in Slots /\ size > 0
        /\ last \in DOMAIN map_
        /\ map_[last] = size - 1
        /\ memory' = [memory EXCEPT ![map_[e]] = last]
        /\ size' = size - 1
        /\ DOMAIN map_' = DOMAIN map_ \ {e}
        /\ \A x \in DOMAIN map_ \ {e} :
              map_'[x] = IF x = last THEN map_[e] ELSE map_[x]
        /\ map_' = [x \in DOMAIN map_' |-> map_'[x]]
    BY <2>1, RemoveEffect
  <2> HIDE DEF last
  <2>3. /\ memory' \in [Slots -> Entries \cup {Nothing}]
        /\ size' \in 0..Capacity
        /\ DOMAIN map_' \subseteq Entries
    BY <2>2 DEF TypeOK, Slots
  <2>4. map_' \in [DOMAIN map_' -> 0..(Capacity - 1)]
    <3>1. \A x \in DOMAIN map_' : map_'[x] \in 0..(Capacity - 1)
      BY <2>2 DEF TypeOK, Slots
    <3> QED
      BY <2>2, <3>1
  <2>5. ASSUME NEW x \in DOMAIN map_'
        PROVE  map_'[x] < size' /\ memory'[map_'[x]] = x
    <3>1. x \in DOMAIN map_ /\ x # e /\ map_[x] \in Slots
          /\ map_[x] < size /\ memory[map_[x]] = x
      BY <2>2 DEF ListMatchesMap, TypeOK, Slots
    <3>2. memory[map_[e]] = e /\ map_[e] < size
      BY <2>1 DEF ListMatchesMap
    <3>3. CASE x = last
      <4>1. map_[e] # size - 1
        BY <3>1, <3>2, <3>3, <2>2
      <4> QED
        BY <3>1, <3>2, <3>3, <4>1, <2>2 DEF TypeOK, Slots
    <3>4. CASE x # last
      <4>1. map_[x] # size - 1
        BY <3>1, <3>4 DEF last
      <4>2. map_[x] # map_[e]
        BY <3>1, <3>2
      <4> QED
        BY <3>1, <3>4, <4>1, <4>2, <2>2 DEF TypeOK, Slots
    <3> QED
      BY <3>3, <3>4
  <2>6. ASSUME NEW i \in 0..(size' - 1)
        PROVE  memory'[i] \in DOMAIN map_' /\ map_'[memory'[i]] = i
    <3>1. i \in Slots /\ i \in 0..(size - 1) /\ i # size - 1
      BY <2>2 DEF TypeOK, Slots
    <3>2. memory[i] \in DOMAIN map_ /\ map_[memory[i]] = i
      BY <3>1 DEF ListMatchesMap
    <3>3. CASE i = map_[e]
      <4>1. memory'[i] = last
        BY <3>1, <3>3, <2>2 DEF TypeOK
      <4>2. last # e
        BY <3>1, <3>3, <2>2
      <4> QED
        BY <3>3, <4>1, <4>2, <2>2
    <3>4. CASE i # map_[e]
      <4>1. memory'[i] = memory[i]
        BY <3>1, <3>4, <2>2 DEF TypeOK
      <4>2. memory[i] # e /\ memory[i] # last
        BY <3>1, <3>2, <3>4, <2>2
      <4> QED
        BY <3>2, <4>1, <4>2, <2>2
    <3> QED
      BY <3>3, <3>4
  <2> QED
    BY <2>2, <2>3, <2>4, <2>5, <2>6 DEF ListMatchesMap
<1> QED
  BY <1>1, <1>2

-----------------------------------------------------------------------------
(* The loop. *)

(* At the end of the loop nothing is left of the set. *)
LEMMA LoopEmptiesSet ==
    ASSUME IInv, looping, position = end
    PROVE  DOMAIN map_ = {}
<1>1. size = 0
  BY DEF IInv, LoopInv, TypeOK
<1>2. \A e \in DOMAIN map_ : map_[e] < 0
  BY <1>1 DEF IInv, ListMatchesMap
<1>3. \A e \in DOMAIN map_ : map_[e] \in 0..(Capacity - 1)
  BY DEF IInv, TypeOK
<1>4. ASSUME NEW e \in DOMAIN map_ PROVE FALSE
  <2>1. map_[e] < 0 /\ map_[e] \in 0..(Capacity - 1)
    BY <1>2, <1>3
  <2> QED
    BY <2>1, ParticleSetAssumption
<1> QED
  BY <1>4

(* The slot the loop reads holds an entry of the set. *)
LEMMA NextReadIsOwned ==
    ASSUME IInv, looping, position < end
    PROVE  memory[position] \in DOMAIN map_
<1>1. position \in position..(end - 1)
  BY DEF IInv, TypeOK
<1> QED
  BY <1>1 DEF IInv, LoopInv

LEMMA LoopStepKeepsLoopInv ==
    ASSUME IInv, LoopStep
    PROVE  LoopInv'
<1> DEFINE e == memory[position]
           last == memory[size - 1]
<1>1. /\ looping /\ looping' /\ position < end
      /\ position' = position + 1 /\ end' = end
      /\ RemoveElement(e)
  BY DEF LoopStep, IInv, TypeOK
<1>2. /\ position \in 0..Capacity /\ end \in 0..Capacity
      /\ size = end - position
      /\ position \in Slots
  BY <1>1, ParticleSetAssumption DEF IInv, TypeOK, LoopInv, Slots
<1>3. e \in DOMAIN map_
  BY <1>1, NextReadIsOwned
<1>4. \A k \in position..(end - 1) :
         /\ memory[k] \in DOMAIN map_
         /\ map_[memory[k]] = IF k >= end - position THEN end - 1 - k ELSE k
  BY <1>1 DEF IInv, LoopInv
<1>5. map_[e] = IF position >= end - position THEN end - 1 - position ELSE position
  BY <1>1, <1>2, <1>4
<1>6. /\ size - 1 \in Slots /\ map_[e] \in Slots
      /\ last \in DOMAIN map_ /\ map_[last] = size - 1
      /\ memory' = [memory EXCEPT ![map_[e]] = last]
      /\ size' = size - 1
      /\ DOMAIN map_' = DOMAIN map_ \ {e}
      /\ \A x \in DOMAIN map_ \ {e} :
            map_'[x] = IF x = last THEN map_[e] ELSE map_[x]
  BY <1>1, <1>3, RemoveEffect DEF IInv
<1> HIDE DEF e, last
<1>7. ASSUME NEW k \in position'..(end' - 1)
      PROVE  /\ memory'[k] \in DOMAIN map_'
             /\ map_'[memory'[k]] = IF k >= end' - position' THEN end' - 1 - k ELSE k
  <2>1. /\ k \in position..(end - 1) /\ k # position
        /\ k \in Slots /\ k > position
    BY <1>1, <1>2, ParticleSetAssumption DEF Slots
  <2>2. /\ memory[k] \in DOMAIN map_
        /\ map_[memory[k]] = IF k >= end - position THEN end - 1 - k ELSE k
    BY <1>4, <2>1
  <2>3. memory[k] # e
    BY <1>2, <1>5, <2>1, <2>2
  <2>4. memory'[k] = memory[k]
    <3>1. k # map_[e] \/ memory[k] = last
      BY <1>1, <1>2, <1>5, <2>1
    <3> QED
      BY <3>1, <2>1, <1>6 DEF IInv, TypeOK
  <2>5. memory'[k] \in DOMAIN map_'
    BY <1>6, <2>2, <2>3, <2>4
  <2>6. map_'[memory'[k]] = IF memory[k] = last THEN map_[e] ELSE map_[memory[k]]
    BY <1>6, <2>2, <2>3, <2>4
  <2>7. memory[k] = last => map_[memory[k]] = end - position - 1
    BY <1>2, <1>6
  <2>8. CASE memory[k] = last
    <3>1. k = end - position - 1 \/ k = position
      BY <2>1, <2>2, <2>7, <2>8, <1>2
    <3>2. k = end - 1 - position /\ position < end - position
      BY <3>1, <2>1, <1>2
    <3>3. map_[e] = position
      BY <1>5, <3>2, <1>2
    <3> QED
      BY <3>2, <3>3, <2>5, <2>6, <2>8, <1>1, <1>2
  <2>9. CASE memory[k] # last
    <3>1. k # end - position - 1
      BY <2>9, <1>2 DEF last
    <3> QED
      BY <3>1, <2>1, <2>2, <2>5, <2>6, <2>9, <1>1, <1>2
  <2> QED
    BY <2>8, <2>9
<1>8. position' <= end' /\ size' = end' - position'
  BY <1>1, <1>2, <1>6
<1> QED
  BY <1>7, <1>8 DEF LoopInv

-----------------------------------------------------------------------------
(* The invariant. *)

LEMMA NextPreservesIInv == IInv /\ [Next]_vars => IInv'
<1> SUFFICES ASSUME IInv, [Next]_vars PROVE IInv'
  OBVIOUS
<1>1. ASSUME NEW e \in Entries, Add(e) PROVE IInv'
  <2>1. TypeOK' /\ ListMatchesMap'
    BY <1>1, AddKeepsSet DEF Add, IInv
  <2>2. LoopInv'
    BY <1>1 DEF Add, loopVars, LoopInv
  <2> QED
    BY <2>1, <2>2 DEF IInv
<1>2. ASSUME NEW e \in Entries, Remove(e) PROVE IInv'
  <2>1. ~looping /\ RemoveElement(e) /\ UNCHANGED loopVars
    BY <1>2 DEF Remove
  <2>2. TypeOK' /\ ListMatchesMap'
    BY <2>1, RemoveKeepsSet DEF IInv, TypeOK, loopVars
  <2>3. LoopInv'
    BY <2>1 DEF loopVars, LoopInv
  <2> QED
    BY <2>2, <2>3 DEF IInv
<1>3. CASE StartLoop
  <2>1. TypeOK' /\ ListMatchesMap'
    BY <1>3, ParticleSetAssumption DEF StartLoop, setVars, IInv, TypeOK, ListMatchesMap
  <2>2. LoopInv'
    BY <1>3 DEF StartLoop, setVars, IInv, TypeOK, ListMatchesMap, LoopInv
  <2> QED
    BY <2>1, <2>2 DEF IInv
<1>4. CASE LoopStep
  <2>1. /\ memory[position] \in Entries
        /\ RemoveElement(memory[position])
        /\ position' = position + 1 /\ position < end
        /\ UNCHANGED <<looping, end>>
    BY <1>4, NextReadIsOwned DEF LoopStep, IInv, TypeOK
  <2>2. TypeOK' /\ ListMatchesMap'
    <3>1. position' \in 0..Capacity
      BY <2>1, ParticleSetAssumption DEF IInv, TypeOK
    <3> QED
      BY <2>1, <3>1, RemoveKeepsSet DEF IInv, TypeOK
  <2> QED
    BY <1>4, <2>2, LoopStepKeepsLoopInv DEF IInv
<1>5. CASE EndLoop
  BY <1>5 DEF EndLoop, setVars, IInv, TypeOK, ListMatchesMap, LoopInv
<1>6. CASE UNCHANGED vars
  BY <1>6 DEF vars, setVars, loopVars, IInv, TypeOK, ListMatchesMap, LoopInv
<1> QED
  BY <1>1, <1>2, <1>3, <1>4, <1>5, <1>6 DEF Next

THEOREM IInvHolds == Spec => []IInv
<1> QED
  BY InitEstablishesIInv, NextPreservesIInv, PTL DEF Spec

(* The fields of the container and the bounds of the loop have their types. *)
THEOREM TypeCorrect == Spec => []TypeOK
<1>1. IInv => TypeOK
  BY DEF IInv
<1> QED
  BY <1>1, IInvHolds, PTL

(* Whatever is added and removed, alone or by the loop, the vector of the   *)
(* elements and the map from elements to indices stay inverse.              *)
THEOREM ContainerConsistent == Spec => []ListMatchesMap
<1>1. IInv => ListMatchesMap
  BY DEF IInv
<1> QED
  BY <1>1, IInvHolds, PTL

(* The deletion loop never reads an entry whose sequence it has deleted.    *)
THEOREM LoopSafe == Spec => []LoopReadsOwnedEntries
<1>1. IInv => LoopReadsOwnedEntries
  BY NextReadIsOwned DEF LoopReadsOwnedEntries, Contains
<1> QED
  BY <1>1, IInvHolds, PTL

(* The container and the loop over it implement the abstract set: every     *)
(* sequence of a pruned node is deleted, and deleted once.                  *)
THEOREM Refinement == Spec => ImplementsEntrySet
<1>1. Init => EntrySetOfNode!Init
  BY DEF Init, EntrySetOfNode!Init
<1>2. IInv /\ [Next]_vars => [EntrySetOfNode!Next]_EntrySetOfNode!vars
  <2> SUFFICES ASSUME IInv, [Next]_vars
               PROVE  [EntrySetOfNode!Next]_EntrySetOfNode!vars
    OBVIOUS
  <2>1. ASSUME NEW e \in Entries, Add(e) PROVE EntrySetOfNode!Add(e)
    BY <2>1, AddKeepsSet DEF Add, loopVars, IInv, EntrySetOfNode!Add
  <2>2. ASSUME NEW e \in Entries, Remove(e) PROVE EntrySetOfNode!Remove(e)
    BY <2>2, RemoveKeepsSet DEF Remove, loopVars, IInv, EntrySetOfNode!Remove
  <2>3. CASE StartLoop
    BY <2>3 DEF StartLoop, setVars, EntrySetOfNode!StartDeleting, EntrySetOfNode!Next
  <2>4. CASE LoopStep
    <3>1. /\ memory[position] \in DOMAIN map_
          /\ memory[position] \in Entries
          /\ RemoveElement(memory[position])
          /\ looping /\ looping' = looping
      BY <2>4, NextReadIsOwned DEF LoopStep, IInv, TypeOK
    <3>2. DOMAIN map_' = DOMAIN map_ \ {memory[position]}
      BY <3>1, RemoveKeepsSet DEF IInv
    <3>3. EntrySetOfNode!DeleteOne
      BY <3>1, <3>2 DEF EntrySetOfNode!DeleteOne
    <3> QED
      BY <3>3 DEF EntrySetOfNode!Next
  <2>5. CASE EndLoop
    <3>1. DOMAIN map_ = {}
      BY <2>5, LoopEmptiesSet DEF EndLoop
    <3>2. EntrySetOfNode!FinishDeleting
      BY <2>5, <3>1 DEF EndLoop, setVars, EntrySetOfNode!FinishDeleting
    <3> QED
      BY <3>2 DEF EntrySetOfNode!Next
  <2>6. CASE UNCHANGED vars
    BY <2>6 DEF vars, setVars, loopVars, EntrySetOfNode!vars
  <2> QED
    BY <2>1, <2>2, <2>3, <2>4, <2>5, <2>6 DEF Next, EntrySetOfNode!Next
<1> QED
  BY <1>1, <1>2, IInvHolds, PTL
     DEF Spec, ImplementsEntrySet, EntrySetOfNode!Spec
=============================================================================
