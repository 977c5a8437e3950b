--------------------------- MODULE BeliefRegistry ---------------------------
(***************************************************************************)
(* Who points at whom in the ABT solver: the belief tree, the history      *)
(* sequences and their entries, the particles of the nodes and the states  *)
(* of the pool, through an episode of the ABT plugin.                      *)
(*                                                                         *)
(* All of these are raw pointers into structures owned elsewhere, kept     *)
(* consistent by calls that register and deregister one side at a time.    *)
(* One step of an episode plans (searches add sequences), moves the agent  *)
(* to the next belief (the sequences through it are dropped and a filtered *)
(* particle set is put in their place), and then prunes (sibling nodes,    *)
(* sequences that miss the current belief, states nobody uses).            *)
(*                                                                         *)
(* A node is named by its path from the root, a sequence by the address of *)
(* its object: an address freed by a deletion is used again.               *)
(***************************************************************************)
EXTENDS Integers, FiniteSets, SequencesExt

CONSTANTS
    Sequences,      \* addresses of HistorySequence objects (bounds how many live)
    States,         \* states of the model
    InitStates,     \* states sampleAnInitState may return
    TerminalStates, \* states for which isTerminal holds
    Edges,          \* pairs of an action and an observation
    MaxDepth,       \* bound: depth of the belief tree
    MinParticles    \* the particle count asked of the filter

ASSUME RegistryAssumption ==
    /\ IsFiniteSet(Sequences)
    /\ InitStates \subseteq States
    /\ InitStates # {}
    /\ TerminalStates \subseteq States
    /\ MaxDepth \in Nat
    /\ MinParticles \in Nat \ {0}

VARIABLES
    keepsHistories,     \* hasChanges || interactive
    pruneEveryStep,     \* the option of that name
    nodes,              \* BeliefTree: the nodes of the tree
    currentBelief,      \* Agent: the node the agent is at
    sequencesById,      \* Histories: the vector of owned sequences
    id,                 \* the id_ field of each owned sequence
    entries,            \* the entries of each owned sequence, <<>> for others
    particles,          \* the particles_ of each node
    nStartingSequences, \* the counter of that name in each node
    pool,               \* StatePool: the states that have a StateInfo
    usedIn,             \* the usedInHistoryEntries_ of each StateInfo
    containedInBeliefs, \* the counter of that name in each StateInfo
    phase,              \* what the plugin is doing
    toAdd               \* filtered particles still to be put into the belief

treeVars == <<nodes, particles, nStartingSequences>>
historyVars == <<sequencesById, id, entries>>
poolVars == <<pool, usedIn, containedInBeliefs>>
optionVars == <<keepsHistories, pruneEveryStep>>
vars == <<treeVars, historyVars, poolVars, optionVars, currentBelief, phase, toAdd>>

-----------------------------------------------------------------------------
Root == <<>>
Parent(n) == Front(n)

Owned == ToSet(sequencesById)

(* A HistoryEntry: the node and the state it is registered with. *)
Entry(n, s) == [node |-> n, state |-> s]

EntryIds == UNION {{<<q, i>> : i \in DOMAIN entries[q]} : q \in Owned}
EntryAt(e) == entries[e[1]][e[2]]

(* An entry starts its sequence: its id is 0. *)
Starts(e) == e[2] = 1

At(f, x, default) == IF x \in DOMAIN f THEN f[x] ELSE default

-----------------------------------------------------------------------------
(* createSequence, and for each of its entries addEntry, registerState and *)
(* registerNode; the first entry is made a particle of its node or not.    *)
OnlyParticlesContained(q, list, firstIsParticle, s) ==              \* mutant
    {i \in DOMAIN list : list[i].state = s /\ (i = 1 => firstIsParticle)}

CountedIn(q, list, firstIsParticle, s) == {i \in DOMAIN list : list[i].state = s}

RegisterSequence(q, list, firstIsParticle) ==
    LET listed(n) == {<<q, i>> : i \in {j \in DOMAIN list :
                            list[j].node = n /\ (j = 1 => firstIsParticle)}}
    IN
    /\ q \notin Owned
    /\ sequencesById' = Append(sequencesById, q)
    /\ id' = [id EXCEPT ![q] = Len(sequencesById)]
    /\ entries' = [entries EXCEPT ![q] = list]
    /\ nodes' = nodes \cup {list[i].node : i \in DOMAIN list}
    /\ particles' = [n \in nodes' |-> At(particles, n, {}) \cup listed(n)]
    /\ nStartingSequences' = [n \in nodes' |->
            At(nStartingSequences, n, 0) + Cardinality({e \in listed(n) : Starts(e)})]
    /\ pool' = pool \cup {list[i].state : i \in DOMAIN list}
    /\ usedIn' = [s \in States |->
            usedIn[s] \cup {<<q, i>> : i \in {j \in DOMAIN list : list[j].state = s}}]
    /\ containedInBeliefs' = [s \in States |->
            containedInBeliefs[s] + Cardinality(CountedIn(q, list, firstIsParticle, s))]

(* HistorySequence::erase of the sequences of dead: every entry leaves its *)
(* node, which lowers the counters of the node and of the state whether or *)
(* not the entry was ever counted there, and then its state.               *)
Erase(dead) ==
    LET erased     == {e \in EntryIds : e[1] \in dead}
        leaving(n) == {e \in erased : EntryAt(e).node = n}
        freeing(s) == {e \in erased : EntryAt(e).state = s}
    IN
    /\ entries' = [q \in Sequences |-> IF q \in dead THEN <<>> ELSE entries[q]]
    /\ particles' = [n \in nodes |-> particles[n] \ leaving(n)]
    /\ nStartingSequences' = [n \in nodes |->
            nStartingSequences[n] - Cardinality({e \in leaving(n) : Starts(e)})]
    /\ usedIn' = [s \in States |-> usedIn[s] \ freeing(s)]
    /\ containedInBeliefs' = [s \in States |->
            containedInBeliefs[s] - Cardinality(freeing(s))]

MovedKeepingItsId(q) == [id EXCEPT ![q] = 0]                        \* mutant

(* The last sequence takes over the id of the deleted one. *)
IdsWithout(q) == [id EXCEPT ![Last(sequencesById)] = id[q], ![q] = 0]

(* Histories::deleteSequence: the last sequence moves into the hole. *)
DeleteSequence(q) ==
    /\ Erase({q})
    /\ sequencesById' = Front([sequencesById EXCEPT ![id[q] + 1] = Last(sequencesById)])
    /\ id' = IdsWithout(q)
    /\ UNCHANGED pool

-----------------------------------------------------------------------------
(* reset of the plugin: a solver with an empty tree, and a simulator whose *)
(* first state is in the pool without any entry being registered for it.   *)
Fresh(s) ==
    [ nodes |-> {Root},
      particles |-> [n \in {Root} |-> {}],
      starting |-> [n \in {Root} |-> 0],
      ids |-> [q \in Sequences |-> 0],
      entries |-> [q \in Sequences |-> <<>>],
      pool |-> {s},
      usedIn |-> [t \in States |-> {}],
      contained |-> [t \in States |-> 0] ]

Init ==
    /\ keepsHistories \in BOOLEAN
    /\ pruneEveryStep \in BOOLEAN
    /\ \E s \in InitStates :
          /\ nodes = Fresh(s).nodes
          /\ particles = Fresh(s).particles
          /\ nStartingSequences = Fresh(s).starting
          /\ id = Fresh(s).ids
          /\ entries = Fresh(s).entries
          /\ pool = Fresh(s).pool
          /\ usedIn = Fresh(s).usedIn
          /\ containedInBeliefs = Fresh(s).contained
    /\ sequencesById = <<>>
    /\ currentBelief = Root
    /\ phase = "planning"
    /\ toAdd = 0

(* ProblemEnvironment ends the run, at any step, and resets the solver. *)
Reset ==
    /\ phase \in {"planning", "stopped"}
    /\ \E s \in InitStates :
          /\ nodes' = Fresh(s).nodes
          /\ particles' = Fresh(s).particles
          /\ nStartingSequences' = Fresh(s).starting
          /\ id' = Fresh(s).ids
          /\ entries' = Fresh(s).entries
          /\ pool' = Fresh(s).pool
          /\ usedIn' = Fresh(s).usedIn
          /\ containedInBeliefs' = Fresh(s).contained
    /\ sequencesById' = <<>>
    /\ currentBelief' = Root
    /\ phase' = "planning"
    /\ toAdd' = 0
    /\ UNCHANGED optionVars

(* getStateSampler: initial states at the root, else the non-terminal      *)
(* particles of the node.                                                  *)
Samples(n) ==
    IF n = Root THEN InitStates
    ELSE {EntryAt(e).state : e \in particles[n]} \ TerminalStates

(* singleSearch and extendAndBackup: a sequence from the current belief    *)
(* along edges and states the model chooses.  It stops at a terminal       *)
(* state, and its first entry is a particle of the root only.              *)
Search ==
    /\ phase = "planning"
    /\ \E q \in Sequences, s \in Samples(currentBelief) :
       \E k \in 0..(MaxDepth - Len(currentBelief)) :
       \E path \in [1..k -> Edges], next \in [1..k -> States] :
          /\ s \in TerminalStates => k = 0
          /\ \A i \in 1..(k - 1) : next[i] \notin TerminalStates
          /\ RegisterSequence(q,
                <<Entry(currentBelief, s)>> \o
                    [i \in 1..k |-> Entry(currentBelief \o SubSeq(path, 1, i), next[i])],
                currentBelief = Root)
    /\ UNCHANGED <<optionVars, currentBelief, phase, toAdd>>

(* updateBelief: the agent moves to the child, which is created if no      *)
(* search has; then the particle filter succeeds or returns nothing.  The  *)
(* bound Sequences must leave room for the filtered particles.             *)
Through(n) == {e[1] : e \in At(particles, n, {})}

HasRoom(next) ==
    LET staying == IF keepsHistories THEN Owned ELSE Owned \ Through(next)
    IN  Cardinality(staying) + MinParticles <= Cardinality(Sequences)

UpdateBelief(edge) ==
    LET next == Append(currentBelief, edge)
    IN
    /\ phase = "planning"
    /\ Len(currentBelief) < MaxDepth
    /\ nodes' = nodes \cup {next}
    /\ particles' = [n \in nodes' |-> At(particles, n, {})]
    /\ nStartingSequences' = [n \in nodes' |-> At(nStartingSequences, n, 0)]
    /\ currentBelief' = next
    /\ \/ HasRoom(next) /\ phase' = IF keepsHistories THEN "adding" ELSE "dropping"
       \/ phase' = "stopped"
    /\ toAdd' = MinParticles
    /\ UNCHANGED <<historyVars, poolVars, optionVars>>

(* updateNextBelief_: without changes to come, the sequences that go       *)
(* through the next belief are deleted one by one.                         *)
DropSequence ==
    /\ phase = "dropping"
    /\ \E e \in particles[currentBelief] : DeleteSequence(e[1])
    /\ UNCHANGED <<nodes, optionVars, currentBelief, phase, toAdd>>

AllDropped ==
    /\ phase = "dropping"
    /\ particles[currentBelief] = {}
    /\ phase' = "adding"
    /\ UNCHANGED <<treeVars, historyVars, poolVars, optionVars, currentBelief, toAdd>>

AddParticlesWithoutEnd ==                                           \* mutant
    /\ phase = "adding"
    /\ \E q \in Sequences, s \in States :
          RegisterSequence(q, <<Entry(currentBelief, s)>>, TRUE)
    /\ toAdd' = toAdd - 1
    /\ UNCHANGED <<optionVars, currentBelief, phase>>

(* ... and every filtered particle becomes a sequence of one entry. *)
AddParticle ==
    /\ phase = "adding"
    /\ toAdd > 0
    /\ \E q \in Sequences, s \in States :
          RegisterSequence(q, <<Entry(currentBelief, s)>>, TRUE)
    /\ toAdd' = toAdd - 1
    /\ UNCHANGED <<optionVars, currentBelief, phase>>

(* The step ends; serializeStep prunes if the option says so. *)
AllAdded ==
    /\ phase = "adding"
    /\ toAdd = 0
    /\ phase' = IF pruneEveryStep THEN "pruning" ELSE "planning"
    /\ UNCHANGED <<treeVars, historyVars, poolVars, optionVars, currentBelief, toAdd>>

-----------------------------------------------------------------------------
(* pruneSiblings: the other children of the parent, by their action and by *)
(* their observation.                                                      *)
ObservationSiblings(n) ==                                           \* mutant
    {m \in nodes : Len(m) = Len(n) /\ m # n /\ Parent(m) = Parent(n)
                        /\ Last(m)[1] = Last(n)[1]}

Siblings(n) == {m \in nodes : Len(m) = Len(n) /\ m # n /\ Parent(m) = Parent(n)}

(* pruneSubtree, its loop: the sequences of the sibling's particles. *)
PruneSequence ==
    /\ phase = "pruning"
    /\ \E n \in Siblings(currentBelief) :
       \E e \in particles[n] : DeleteSequence(e[1])
    /\ UNCHANGED <<nodes, optionVars, currentBelief, phase, toAdd>>

PruneNodeAtOnce ==                                                  \* mutant
    /\ phase = "pruning"
    /\ \E n \in Siblings(currentBelief) : nodes' = {m \in nodes : ~IsPrefix(n, m)}
    /\ particles' = Restrict(particles, nodes')
    /\ nStartingSequences' = Restrict(nStartingSequences, nodes')
    /\ UNCHANGED <<historyVars, poolVars, optionVars, currentBelief, phase, toAdd>>

(* pruneSubtree, its end: the node goes with everything below it. *)
PruneNode ==
    /\ phase = "pruning"
    /\ \E n \in Siblings(currentBelief) :
          /\ particles[n] = {}
          /\ nodes' = {m \in nodes : ~IsPrefix(n, m)}
    /\ particles' = Restrict(particles, nodes')
    /\ nStartingSequences' = Restrict(nStartingSequences, nodes')
    /\ UNCHANGED <<historyVars, poolVars, optionVars, currentBelief, phase, toAdd>>

AllPruned ==
    /\ phase = "pruning"
    /\ Siblings(currentBelief) = {}
    /\ phase' = "cleaning"
    /\ UNCHANGED <<treeVars, historyVars, poolVars, optionVars, currentBelief, toAdd>>

(* cleanHistories: only the sequences of the current belief's particles    *)
(* stay, in their order, with new ids.                                     *)
Marked == Through(currentBelief)

CleanHistories ==
    /\ phase = "cleaning"
    /\ Erase(Owned \ Marked)
    /\ \E staying \in [1..Cardinality(Marked) -> DOMAIN sequencesById] :
          /\ \A i, j \in DOMAIN staying : i < j => staying[i] < staying[j]
          /\ {sequencesById[staying[i]] : i \in DOMAIN staying} = Marked
          /\ sequencesById' = [i \in DOMAIN staying |-> sequencesById[staying[i]]]
    /\ id' = [q \in Sequences |->
            IF q \in Marked
            THEN (CHOOSE i \in DOMAIN sequencesById' : sequencesById'[i] = q) - 1
            ELSE 0]
    /\ phase' = IF keepsHistories THEN "planning" ELSE "sweeping"
    /\ UNCHANGED <<nodes, pool, optionVars, currentBelief, toAdd>>

(* OPPTStatePool::cleanup: the states no belief contains are destroyed. *)
Cleanup ==
    /\ phase = "sweeping"
    /\ pool' = {s \in pool : containedInBeliefs[s] # 0}
    /\ usedIn' = [s \in States |-> IF s \in pool' THEN usedIn[s] ELSE {}]
    /\ phase' = "planning"
    /\ UNCHANGED <<treeVars, historyVars, containedInBeliefs, optionVars,
                   currentBelief, toAdd>>

Next ==
    \/ Reset
    \/ Search
    \/ \E edge \in Edges : UpdateBelief(edge)
    \/ DropSequence
    \/ AllDropped
    \/ AddParticle
    \/ AllAdded
    \/ PruneSequence
    \/ PruneNode
    \/ AllPruned
    \/ CleanHistories
    \/ Cleanup

Spec == Init /\ [][Next]_vars

-----------------------------------------------------------------------------
(* resetTree, for a changed model with resetOnChanges: a new root gets a   *)
(* new sequence for each particle of the current belief whose state is     *)
(* still valid.  The old sequences are destroyed as they are, and the loop *)
(* that would clear the entries of each StateInfo runs over a vector that  *)
(* OPPTStatePool, which keeps its states in a map, leaves empty.           *)
ResetTree ==
    /\ phase = "planning"
    /\ keepsHistories
    /\ \E valid \in SUBSET States :
       LET survivors == {e \in particles[currentBelief] : EntryAt(e).state \in valid}
       IN \E owner \in Injection(survivors, Sequences) :
          \E order \in SetToSeqs(Range(owner)) :
            LET on(s) == {<<owner[e], 1>> : e \in {x \in survivors : EntryAt(x).state = s}}
            IN
            /\ sequencesById' = order
            /\ id' = [q \in Sequences |-> IF q \in Range(owner)
                                          THEN (CHOOSE i \in DOMAIN order : order[i] = q) - 1
                                          ELSE 0]
            /\ entries' = [q \in Sequences |-> IF q \in Range(owner)
                    THEN <<Entry(Root, EntryAt(AntiFunction(owner)[q]).state)>> ELSE <<>>]
            /\ nodes' = {Root}
            /\ particles' = [n \in {Root} |-> {<<q, 1>> : q \in Range(owner)}]
            /\ nStartingSequences' = [n \in {Root} |-> Cardinality(survivors)]
            /\ usedIn' = [s \in States |-> usedIn[s] \cup on(s)]
            /\ containedInBeliefs' =
                    [s \in States |-> containedInBeliefs[s] + Cardinality(on(s))]
    /\ currentBelief' = Root
    /\ UNCHANGED <<pool, optionVars, phase, toAdd>>

SpecWithChanges == Init /\ [][Next \/ ResetTree]_vars

-----------------------------------------------------------------------------
(* The types of the state; no counter of a StateInfo is ever negative. *)
TypeOK ==
    /\ keepsHistories \in BOOLEAN /\ pruneEveryStep \in BOOLEAN
    /\ Root \in nodes /\ currentBelief \in nodes
    /\ \A n \in nodes : n \in Seq(Edges) /\ Len(n) <= MaxDepth
    /\ sequencesById \in Seq(Sequences)
    /\ id \in [Sequences -> Nat]
    /\ \A q \in Sequences : entries[q] \in Seq([node : Seq(Edges), state : States])
    /\ DOMAIN particles = nodes
    /\ nStartingSequences \in [nodes -> Int]
    /\ pool \subseteq States
    /\ DOMAIN usedIn = States
    /\ containedInBeliefs \in [States -> Nat]
    /\ phase \in {"planning", "dropping", "adding", "pruning", "cleaning", "sweeping",
                   "stopped"}
    /\ toAdd \in 0..MinParticles

(* No pointer dangles.  A particle is an entry of a sequence that is still *)
(* owned and that entry is at that very node; the node and the state of    *)
(* every entry still exist, and all but the first entry of a sequence are  *)
(* particles where they are, so that pruning that node finds them.         *)
NothingDangles ==
    /\ \A n \in nodes : \A e \in particles[n] : e \in EntryIds /\ EntryAt(e).node = n
    /\ \A e \in EntryIds :
          /\ EntryAt(e).node \in nodes
          /\ EntryAt(e).state \in pool
          /\ ~Starts(e) => e \in particles[EntryAt(e).node]

(* Each StateInfo knows exactly the entries that use it, and its counter   *)
(* of beliefs is their number, whether or not an entry was made a particle *)
(* of its node: cleanup() destroys what the counter says nobody uses.      *)
PoolCountsExact ==
    \A s \in States :
        LET users == {e \in EntryIds : EntryAt(e).state = s}
        IN  /\ usedIn[s] = users
            /\ containedInBeliefs[s] = Cardinality(users)

(* deleteSequence finds a sequence by its id: the id of every owned        *)
(* sequence is its place in the vector, after any deletions and cleaning.  *)
IdsMatchIndex ==
    /\ \A i \in DOMAIN sequencesById : id[sequencesById[i]] = i - 1
    /\ IsInjective(sequencesById)

(* With pruneEveryStep, planning after a step works on the current belief  *)
(* alone: the tree is its ancestors and descendants, every sequence goes   *)
(* through it, and no state is kept that no sequence uses.                 *)
PrunedToBelief ==
    phase = "planning" /\ pruneEveryStep /\ currentBelief # Root =>
        /\ \A n \in nodes : IsPrefix(n, currentBelief) \/ IsPrefix(currentBelief, n)
        /\ \A q \in Owned : \E i \in DOMAIN entries[q] : entries[q][i].node = currentBelief
        /\ ~keepsHistories => pool = {EntryAt(e).state : e \in EntryIds}

(* Solver.cpp, resetTree: the stored history entries of each StateInfo in  *)
(* the pool are cleared, so that the ones left are those of owned          *)
(* sequences.                                                              *)
UsersAreOwned == \A s \in pool : usedIn[s] \subseteq EntryIds

(* BeliefNode.hpp: nStartingSequences_ is the number of sequences that     *)
(* start at the node.  Erasing lowers it for entries that never raised it. *)
StartingSequencesCounted ==
    \A n \in nodes :
        nStartingSequences[n] = Cardinality({q \in Owned : entries[q][1].node = n})
=============================================================================
