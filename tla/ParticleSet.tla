---------------------------- MODULE ParticleSet ----------------------------
(***************************************************************************)
(* RandomAccessSet, the container of a belief node's particles, and the    *)
(* loop of Solver::pruneSubtree and SolverABT::updateNextBelief_ over it:  *)
(*                                                                         *)
(*     for (HistoryEntry *entry : node->particles_)                        *)
(*         histories_->deleteSequence(entry->owningSequence_);             *)
(*                                                                         *)
(* Deleting a sequence erases its entries, which removes each of them from *)
(* the set the loop is running over.  The loop keeps the bounds it started *)
(* with, so in its second half it reads slots the vector has given up.     *)
(* Reading them is undefined; pop_back of a pointer leaves the memory as   *)
(* it is, and that is what the model reads.                                *)
(***************************************************************************)
EXTENDS Integers, FiniteSets, Functions

CONSTANTS
    Entries,    \* history entries, each of a sequence of its own
    Nothing,    \* a slot never written
    Capacity    \* bound: elements the vector has room for

ASSUME ParticleSetAssumption ==
    /\ Nothing \notin Entries
    /\ Capacity \in Nat

VARIABLES
    memory,     \* the slots of elementList_, used or given up
    size,       \* its size
    map_,       \* the index of each element of the set
    looping,    \* the deletion loop is running
    position,   \* the slot the loop reads next
    end         \* the end of the vector when the loop began

setVars == <<memory, size, map_>>
loopVars == <<looping, position, end>>
vars == <<setVars, loopVars>>

Slots == 0..(Capacity - 1)

Contains(e) == e \in DOMAIN map_

-----------------------------------------------------------------------------
Init ==
    /\ memory = [i \in Slots |-> Nothing]
    /\ size = 0
    /\ map_ = [e \in {} |-> 0]
    /\ looping = FALSE
    /\ position = 0
    /\ end = 0

AddElement(e) ==
    IF Contains(e)
    THEN UNCHANGED setVars
    ELSE /\ size < Capacity
         /\ memory' = [memory EXCEPT ![size] = e]
         /\ size' = size + 1
         /\ map_' = [x \in DOMAIN map_ \cup {e} |-> IF x = e THEN size ELSE map_[x]]

ShiftElements(e) ==                                                 \* mutant
    IF ~Contains(e)
    THEN UNCHANGED setVars
    ELSE /\ memory' = [i \in Slots |-> IF map_[e] <= i /\ i < size - 1
                                       THEN memory[i + 1] ELSE memory[i]]
         /\ size' = size - 1
         /\ map_' = [x \in DOMAIN map_ \ {e} |->
                        IF map_[x] > map_[e] THEN map_[x] - 1 ELSE map_[x]]

RemoveWithoutMove(e) ==                                             \* mutant
    IF ~Contains(e)
    THEN UNCHANGED setVars
    ELSE /\ memory' = [memory EXCEPT ![map_[e]] = memory[size - 1]]
         /\ size' = size - 1
         /\ map_' = Restrict(map_, DOMAIN map_ \ {e})

(* The last element takes the place of the removed one. *)
RemoveElement(e) ==
    IF ~Contains(e)
    THEN UNCHANGED setVars
    ELSE LET last == memory[size - 1]
         IN /\ memory' = [memory EXCEPT ![map_[e]] = last]
            /\ size' = size - 1
            /\ map_' = [x \in DOMAIN map_ \ {e} |-> IF x = last THEN map_[e] ELSE map_[x]]

(* addParticle and removeParticle: registerNode of a single entry. *)
Add(e) == ~looping /\ AddElement(e) /\ UNCHANGED loopVars

Remove(e) == ~looping /\ RemoveElement(e) /\ UNCHANGED loopVars

StartLoopPastEnd ==                                                 \* mutant
    /\ ~looping
    /\ looping' = TRUE
    /\ position' = 0
    /\ end' = size + 1
    /\ UNCHANGED setVars

StartLoop ==
    /\ ~looping
    /\ looping' = TRUE
    /\ position' = 0
    /\ end' = size
    /\ UNCHANGED setVars

(* deleteSequence of the sequence of the entry the loop reads. *)
LoopStep ==
    /\ looping
    /\ position < end
    /\ RemoveElement(memory[position])
    /\ position' = position + 1
    /\ UNCHANGED <<looping, end>>

EndLoop ==
    /\ looping
    /\ position = end
    /\ looping' = FALSE
    /\ UNCHANGED <<setVars, position, end>>

Next ==
    \/ \E e \in Entries : Add(e) \/ Remove(e)
    \/ StartLoop
    \/ LoopStep
    \/ EndLoop

Spec == Init /\ [][Next]_vars

-----------------------------------------------------------------------------
(* The types of the state. *)
TypeOK ==
    /\ memory \in [Slots -> Entries \cup {Nothing}]
    /\ size \in 0..Capacity
    /\ DOMAIN map_ \subseteq Entries
    /\ map_ \in [DOMAIN map_ -> 0..(Capacity - 1)]
    /\ looping \in BOOLEAN
    /\ position \in 0..Capacity
    /\ end \in 0..Capacity

(* The vector and the map describe the same set: each element is at the    *)
(* index the map gives, and no slot in use holds anything else.  Sampling  *)
(* a particle goes by index, adding and removing by the map.               *)
ListMatchesMap ==
    /\ \A e \in DOMAIN map_ : map_[e] < size /\ memory[map_[e]] = e
    /\ \A i \in 0..(size - 1) : memory[i] \in DOMAIN map_ /\ map_[memory[i]] = i

(* The loop never reads an entry that it has already deleted, although it  *)
(* removes elements, moves others into their place and reads past the end. *)
LoopReadsOwnedEntries ==
    looping /\ position < end => Contains(memory[position])

(* The set, the loop included, behaves as the particles of EntrySet do: in *)
(* the end every sequence has been deleted, each exactly once.             *)
EntrySetOfNode == INSTANCE EntrySet WITH members <- DOMAIN map_, deleting <- looping

ImplementsEntrySet == EntrySetOfNode!Spec
=============================================================================
