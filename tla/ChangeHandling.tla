--------------------------- MODULE ChangeHandling ---------------------------
(***************************************************************************)
(* What a change of the environment does to the histories of the tree:     *)
(* Solver::applyChanges finds the histories that use an invalid state,     *)
(* deletes those that do so at the agent's belief, and has the history     *)
(* corrector revise the others, entry by entry.                            *)
(*                                                                         *)
(* The settings are those in which changes occur: hasChanges is set, so    *)
(* belief updates delete no planned histories and no state is swept from   *)
(* the pool; the horizon is relative; the tree is kept (resetOnChanges is  *)
(* off, see BeliefRegistry for the other case).  Models of this repository *)
(* raise no flag but DELETED, and no action that was taken becomes illegal *)
(* later, so the branch for illegal actions, and the extension of          *)
(* histories it asks for, are left out.  A revised value is taken to       *)
(* differ from the old one, and queues and values are those of Backup.     *)
(***************************************************************************)
EXTENDS Integers, Sequences, FiniteSets, SequencesExt

CONSTANTS
    States, Initial, Terminal,  \* states, those of the initial belief, those that end a history
    Colliding,                  \* states recorded with a collision, which a change may invalidate
    Actions, NoAction,
    Observations, NoObservation,
    Cell,                       \* the entry of an observation mapping an observation belongs to
    Moves,                      \* the next states generateNextState may give for a state and action
    Observe,                    \* what generateObservation may give for a next state
    MaximumDepth,               \* maximumDepth, relative to the start of a history
    NSimulationSteps,           \* belief updates of the run
    Sequences                   \* addresses of histories; the bound on their number

ASSUME ChangeAssumption ==
    /\ Initial \subseteq States /\ Terminal \subseteq States /\ Colliding \subseteq States
    /\ NoAction \notin Actions /\ NoObservation \notin Observations
    /\ Observations \subseteq DOMAIN Cell
    /\ Moves \in [States -> [Actions -> SUBSET States]]
    /\ Observe \in [States -> SUBSET Observations]
    /\ MaximumDepth \in Nat \ {0}
    /\ NSimulationSteps \in Nat
    /\ IsFiniteSet(Sequences)

VARIABLES
    options,        \* areDynamic and pruneEveryStep
    phase,          \* what the thread is doing
    steps,          \* belief updates so far
    belief,         \* the agent's belief
    history,        \* the entries of each history; <<>> at a free address
    affectedIdx,    \* startAffectedIdx_ and endAffectedIdx_
    visits,         \* the visit count of the observation entry that leads to each node
    continued,      \* how often the value of a node is in the total of its parent's action
    deleted,        \* the states flagged in the pool
    changeRoot,     \* changeRoot_: no node, or one
    isAffectedMap,  \* isAffectedMap_
    toFlag,         \* the states applyChanges has still to look at
    affected,       \* affectedSequences
    revision        \* the variables of reviseSequence, or NoRevision

treeVars == <<visits, continued>>
changeVars == <<deleted, changeRoot, isAffectedMap, toFlag, affected>>
vars == <<options, phase, steps, belief, history, affectedIdx, treeVars, changeVars, revision>>

-----------------------------------------------------------------------------
(* A node is the path of actions and observation entries that leads to it. *)
Root == <<>>
Child(node, action, observation) == Append(node, <<action, Cell[observation]>>)
AtOrBelow(node, ancestor) == IsPrefix(ancestor, node)
Nodes == DOMAIN visits

(* What the immediate reward of an entry was computed from: a transition,  *)
(* for the heuristic value a state, and nothing if it is 0.                *)
Reward(s, a, n) == <<s, a, n>>
Heuristic(s) == IF s \in Terminal THEN <<>> ELSE <<s>>

LastEntry(s, node) ==
    [state |-> s, node |-> node, action |-> NoAction, observation |-> NoObservation,
     value |-> <<>>, flags |-> {}]

NoRange == [start |-> MaximumDepth + 2, end |-> 0]
NoRevision == [seq |-> {}, at |-> 0, firstUnchanged |-> 0, divergingEntry |-> 0]

Free == {q \in Sequences : history[q] = <<>>}

(* The entries of all histories, by address and position. *)
EntryIds ==
    {u \in Sequences \X (1..MaximumDepth + 1) : u[2] \in DOMAIN history[u[1]]}
EntryAt(u) == history[u[1]][u[2]]

(* The states of a belief.  A search from a belief other than the root does *)
(* not make its first entry a particle.                                     *)
Particles(node) ==
    {EntryAt(u).state : u \in
        {v \in EntryIds :
            /\ EntryAt(v).node = node
            /\ v[2] > 1 \/ node = Root \/ Len(history[v[1]]) = 1}}

(* BeliefNode::createOrGetChild, for all the nodes of a history. *)
NodesOf(h) == {h[i].node : i \in DOMAIN h}
Extended(count, h) ==
    [n \in DOMAIN count \cup NodesOf(h) |-> IF n \in DOMAIN count THEN count[n] ELSE 0]

(* updateSequence: the entries it goes through, from the last but one to   *)
(* the first it is asked for; entry i counts a visit of the node after it, *)
(* and passes that node's value on if the history continues from there.    *)
Updated(h, first) == (IF first < Len(h) THEN first ELSE Len(h) - 1)..(Len(h) - 1)

CountVisits(count, h, sgn, first) ==
    IF Len(h) <= 1 THEN count
    ELSE [n \in DOMAIN count |-> count[n] + sgn * Cardinality(
            {i \in Updated(h, first) : Child(h[i].node, h[i].action, h[i].observation) = n})]

CountContinuations(count, h, sgn, first) ==
    IF Len(h) <= 1 THEN count
    ELSE [n \in DOMAIN count |-> count[n] + sgn * Cardinality(
            {i \in Updated(h, first) : i + 1 < Len(h) /\ h[i + 1].node = n})]

-----------------------------------------------------------------------------
Init ==
    /\ options \in [areDynamic : BOOLEAN, pruneEveryStep : BOOLEAN]
    /\ phase = "planning"
    /\ steps = 0
    /\ belief = Root
    /\ history = [q \in Sequences |-> <<>>]
    /\ affectedIdx = [q \in Sequences |-> NoRange]
    /\ visits = [n \in {Root} |-> 0]
    /\ continued = [n \in {Root} |-> 0]
    /\ deleted = {}
    /\ changeRoot = {}
    /\ isAffectedMap = [n \in {} |-> TRUE]
    /\ toFlag = {}
    /\ affected = {}
    /\ revision = NoRevision

(* getStateSampler and singleSearch.  A terminal initial state stays alone. *)
StartSearch(q) ==
    /\ phase = "planning"
    /\ q \in Free
    /\ \E s \in IF belief = Root THEN Initial ELSE Particles(belief) \ Terminal :
          /\ history' = [history EXCEPT ![q] = <<LastEntry(s, belief)>>]
          /\ IF s \in Terminal
             THEN UNCHANGED <<phase, revision>>
             ELSE phase' = "searching" /\ revision' = [NoRevision EXCEPT !.seq = {q}]
    /\ UNCHANGED <<options, steps, belief, affectedIdx, treeVars, changeVars>>

DepthLimitPassed(h) == Len(h) > MaximumDepth                        \* mutant

AtDepthLimit(h) == Len(h) >= MaximumDepth

(* The entry that takes a step, and the entry after it. *)
Taken(e, a, n, o) ==
    [e EXCEPT !.action = a, !.observation = o, !.value = Reward(e.state, a, n)]

Arrived(e, a, n, o, value) ==
    [LastEntry(n, Child(e.node, a, o)) EXCEPT !.value = value]

Longer(h, a, n, o, value) ==
    LET e == h[Len(h)]
    IN [h EXCEPT ![Len(h)] = Taken(e, a, n, o)] \o <<Arrived(e, a, n, o, value)>>

(* One round of extendAndBackup: a step, and the end of the search at a    *)
(* terminal state, at the depth limit, or when the steppers have no more   *)
(* steps; then the history is counted.                                     *)
SearchStep(q) ==
    /\ phase = "searching"
    /\ revision.seq = {q}
    /\ LET h == history[q]
           s == h[Len(h)].state
       IN \E a \in Actions : \E n \in Moves[s][a] : \E o \in Observe[n] :
          \/ LET longer == Longer(h, a, n, o, <<>>)
             IN /\ n \notin Terminal /\ ~AtDepthLimit(h)
                /\ history' = [history EXCEPT ![q] = longer]
                /\ visits' = Extended(visits, longer)
                /\ continued' = Extended(continued, longer)
                /\ UNCHANGED <<phase, revision>>
          \/ LET longer == Longer(h, a, n, o, Heuristic(n))
             IN /\ history' = [history EXCEPT ![q] = longer]
                /\ visits' = CountVisits(Extended(visits, longer), longer, 1, 1)
                /\ continued' = CountContinuations(Extended(continued, longer), longer, 1, 1)
                /\ phase' = "planning" /\ revision' = NoRevision
    /\ UNCHANGED <<options, steps, belief, affectedIdx, changeVars>>

(* pruneSiblings and cleanHistories, with pruneEveryStep: only histories    *)
(* through the new belief stay, and the nodes above and below it.          *)
HistoriesKept(next) ==
    {r \in Sequences : options.pruneEveryStep => next \in NodesOf(history[r])}

NodesKept(next) ==
    {n \in Nodes \cup {next} :
        options.pruneEveryStep => AtOrBelow(n, next) \/ AtOrBelow(next, n)}

Remaining(count, next) == [n \in NodesKept(next) |-> IF n \in Nodes THEN count[n] ELSE 0]

(* A filtered particle starts a history of its own. *)
HistoriesThen(next, q, s) ==
    [r \in Sequences |->
        IF r = q THEN <<LastEntry(s, next)>>
        ELSE IF r \in HistoriesKept(next) THEN history[r] ELSE <<>>]

(* updateBelief and serializeStep: the agent moves on. *)
UpdateBelief(q) ==
    /\ phase = "planning"
    /\ steps < NSimulationSteps
    /\ \E a \in Actions, p \in Particles(belief) : \E s \in Moves[p][a] : \E o \in Observe[s] :
          LET next == Child(belief, a, o)
          IN /\ q \in Free \/ q \notin HistoriesKept(next)
             /\ belief' = next
             /\ history' = HistoriesThen(next, q, s)
             /\ visits' = Remaining(visits, next)
             /\ continued' = Remaining(continued, next)
    /\ steps' = steps + 1
    /\ phase' = "updated"
    /\ UNCHANGED <<options, affectedIdx, changeVars, revision>>

NoChanges ==
    /\ phase = "updated"
    /\ phase' = "planning"
    /\ UNCHANGED <<options, steps, belief, history, affectedIdx, treeVars, changeVars, revision>>

(* RobotModel::applyChanges flags states with a collision that are invalid *)
(* now, beside those flagged before.                                       *)
Flagged(invalid) == deleted \cup invalid

(* handleChanges up to the call of applyChanges: states are flagged, also  *)
(* when it gives up because a state of the actual history is invalid.      *)
ChangeEnvironment ==
    /\ phase = "updated"
    /\ changeRoot' = IF options.areDynamic THEN {belief} ELSE {}
    /\ \E invalid \in SUBSET Colliding :
          /\ deleted' = Flagged(invalid)
          /\ \/ phase' = "flagging" /\ toFlag' = deleted'
             \/ phase' = "planning" /\ UNCHANGED toFlag
    /\ UNCHANGED <<options, steps, belief, history, affectedIdx, treeVars, isAffectedMap,
                   affected, revision>>

-----------------------------------------------------------------------------
(* isAffected: the change root and what is below it, looked up in the map  *)
(* as far as an ancestor that it knows.                                    *)
RootDepth == IF changeRoot = {} THEN 0 ELSE Len(CHOOSE r \in changeRoot : TRUE)

Known(node) ==
    {k \in (RootDepth + 1)..Len(node) : SubSeq(node, 1, k) \in DOMAIN isAffectedMap}

IsAffected(node) ==
    \/ changeRoot = {}
    \/ node \in changeRoot
    \/ /\ Len(node) > RootDepth
       /\ IF Known(node) # {}
          THEN LET k == CHOOSE k \in Known(node) : \A j \in Known(node) : j <= k
               IN isAffectedMap[SubSeq(node, 1, k)]
          ELSE \E r \in changeRoot : AtOrBelow(node, r)

(* The flags one state raises at entry j of a history, given the entries   *)
(* that use it: it deletes the history if it is at the change root, and    *)
(* has the transition before it generated again elsewhere.                 *)
FlagsAcrossRoot(q, j, uses) ==                                      \* mutant
    (IF <<q, j>> \in uses THEN {"DELETED"} ELSE {})
    \cup (IF <<q, j + 1>> \in uses THEN {"TRANSITION"} ELSE {})

FlagsRaised(q, j, uses) ==
    LET AtRoot(i) == history[q][i].node \in changeRoot
    IN (IF \/ <<q, j>> \in uses
           \/ j = 1 /\ \E i \in DOMAIN history[q] : <<q, i>> \in uses /\ AtRoot(i)
        THEN {"DELETED"} ELSE {})
       \cup (IF <<q, j + 1>> \in uses /\ ~AtRoot(j + 1) THEN {"TRANSITION"} ELSE {})

(* addAffectedIndex *)
Widened(range, indices) ==
    IF indices = {} THEN range
    ELSE [start |-> Min(indices \cup {range.start}), end |-> Max(indices \cup {range.end})]

(* The entries that use a state, those of them that are affected, and the  *)
(* nodes looked up on the way.                                             *)
EntriesOf(s) == {u \in EntryIds : EntryAt(u).state = s}
Uses(s) == {u \in EntriesOf(s) : IsAffected(EntryAt(u).node)}
Asked(s) ==
    {n \in UNION {{SubSeq(EntryAt(u).node, 1, k) : k \in (RootDepth + 1)..Len(EntryAt(u).node)} :
                  u \in EntriesOf(s)} : changeRoot # {}}

Raised(q, uses) == {j \in DOMAIN history[q] : FlagsRaised(q, j, uses) # {}}

WithFlags(q, uses) ==
    [j \in DOMAIN history[q] |->
        [history[q][j] EXCEPT !.flags = @ \cup FlagsRaised(q, j, uses)]]

(* The first loop of applyChanges, for one of the affected states. *)
FlagState(s) ==
    /\ phase = "flagging"
    /\ s \in toFlag
    /\ LET uses == Uses(s)
       IN /\ history' = [q \in Sequences |-> WithFlags(q, uses)]
          /\ affectedIdx' = [q \in Sequences |-> Widened(affectedIdx[q], Raised(q, uses))]
          /\ affected' = affected \cup {q \in Sequences : Raised(q, uses) # {}}
    /\ isAffectedMap' = [n \in DOMAIN isAffectedMap \cup Asked(s) |-> IsAffected(n)]
    /\ toFlag' = toFlag \ {s}
    /\ UNCHANGED <<options, phase, steps, belief, treeVars, deleted, changeRoot, revision>>

EndFlagging ==
    /\ phase = "flagging"
    /\ toFlag = {}
    /\ phase' = "deleting"
    /\ UNCHANGED <<options, steps, belief, history, affectedIdx, treeVars, changeVars, revision>>

Doomed == {q \in affected : "DELETED" \in history[q][1].flags}

(* A history whose first entry is flagged is undone and deleted. *)
DeleteSequence(q) ==
    /\ phase = "deleting"
    /\ q \in Doomed
    /\ visits' = CountVisits(visits, history[q], -1, 1)
    /\ continued' = CountContinuations(continued, history[q], -1, 1)
    /\ history' = [history EXCEPT ![q] = <<>>]
    /\ affectedIdx' = [affectedIdx EXCEPT ![q] = NoRange]
    /\ affected' = affected \ {q}
    /\ UNCHANGED <<options, phase, steps, belief, deleted, changeRoot, isAffectedMap, toFlag,
                   revision>>

EndDeleting ==
    /\ phase = "deleting"
    /\ Doomed = {}
    /\ phase' = "revising"
    /\ UNCHANGED <<options, steps, belief, history, affectedIdx, treeVars, changeVars, revision>>

-----------------------------------------------------------------------------
(* reviseHistories takes the affected histories in any order. *)
StartRevision(q) ==
    /\ phase = "revising"
    /\ revision = NoRevision
    /\ q \in affected
    /\ IF affectedIdx[q].end < affectedIdx[q].start
       THEN affected' = affected \ {q} /\ UNCHANGED revision
       ELSE /\ revision' = [seq |-> {q}, at |-> affectedIdx[q].start,
                            firstUnchanged |-> affectedIdx[q].end + 1, divergingEntry |-> 0]
            /\ UNCHANGED affected
    /\ UNCHANGED <<options, phase, steps, belief, history, affectedIdx, treeVars,
                   deleted, changeRoot, isAffectedMap, toFlag>>

(* The test for divergence compares the entries of the mapping, a missing  *)
(* one for an observation that has none.                                   *)
TakenForDivergence(old, new) == Cell[old] = Cell[new]

RangeEndKept(r, moved) == r.firstUnchanged                          \* mutant

(* A next state that is not the old one has to be revised in its turn. *)
RangeEnd(r, moved) ==
    IF moved /\ r.at + 1 = r.firstUnchanged THEN r.firstUnchanged + 1 ELSE r.firstUnchanged

NextNodeLate(e, observation) == e.node                              \* mutant

NextNode(e, observation) == Child(e.node, e.action, observation)

AdvancedUnlessDiverged(i, divergingEntry) ==                        \* mutant
    IF divergingEntry # 0 THEN i ELSE i + 1

Advanced(i, divergingEntry) == i + 1

(* The entry a round is at, with its next state n, and the entry after it. *)
RevisedEntry(e, flags, observation, n) ==
    [e EXCEPT !.flags = {}, !.observation = observation,
              !.value = IF "REWARD" \in flags THEN Reward(e.state, e.action, n) ELSE @]

NextEntry(f, n, node) ==
    [f EXCEPT !.state = n, !.node = node,
              !.flags = IF n # f.state THEN {"REWARD", "TRANSITION", "HEURISTIC"} ELSE @]

(* One round of the loop of reviseSequence. *)
ReviseEntry(q) ==
    /\ revision.seq = {q} /\ phase = "revising"
    /\ LET h == history[q]
           i == revision.at
           e == h[i]
       IN /\ i < revision.firstUnchanged
          /\ e.state \notin Terminal /\ e.action # NoAction
          /\ \E n \in IF "TRANSITION" \in e.flags THEN Moves[e.state][e.action]
                                                  ELSE {h[i + 1].state} :
             LET moved == n # h[i + 1].state
                 flags == IF moved THEN e.flags \cup {"OBSERVATION", "REWARD"} ELSE e.flags
             IN \E o \in IF "OBSERVATION" \in flags THEN Observe[n] ELSE {e.observation} :
                LET replaced == "OBSERVATION" \in flags /\ TakenForDivergence(e.observation, o)
                    negated == replaced /\ revision.divergingEntry = 0
                    diverging == IF negated THEN i ELSE revision.divergingEntry
                    kept == IF replaced THEN o ELSE e.observation
                    node == IF diverging # 0 THEN NextNode(e, kept) ELSE h[i + 1].node
                    revised == [h EXCEPT ![i] = RevisedEntry(e, flags, kept, n),
                                         ![i + 1] = NextEntry(h[i + 1], n, node)]
                IN /\ history' = [history EXCEPT ![q] = revised]
                   /\ visits' = Extended(IF negated THEN CountVisits(visits, h, -1, i)
                                                    ELSE visits, revised)
                   /\ continued' = Extended(IF negated THEN CountContinuations(continued, h, -1, i)
                                                       ELSE continued, revised)
                   /\ revision' = [revision EXCEPT !.at = Advanced(i, diverging),
                                      !.divergingEntry = diverging,
                                      !.firstUnchanged = RangeEnd(revision, moved)]
    /\ UNCHANGED <<options, phase, steps, belief, affectedIdx, changeVars>>

(* After a divergence the nodes after entry i are those its path leads to. *)
Rerouted(h, i) ==
    [j \in DOMAIN h |->
        IF j <= i THEN h[j]
        ELSE [h[j] EXCEPT !.node = h[i].node \o
                [k \in 1..(j - i) |-> <<h[i + k - 1].action, Cell[h[i + k - 1].observation]>>]]]

(* A history that ends early is negated from there, unless it has been. *)
EndsEarly(h, r) == h[r.at].action # NoAction /\ r.at < r.firstUnchanged

EndNeverNegated(h, r) == FALSE                                      \* mutant

NegatesEnd(h, r) == EndsEarly(h, r) /\ r.divergingEntry = 0

ContinuationKept(count, e, r) == count                              \* mutant

(* updateEstimate(-1): a history that ends at a node no longer continues there. *)
ContinuationNegated(count, e, r) ==
    IF r.at > 1 THEN [count EXCEPT ![e.node] = @ - 1] ELSE count

(* The history then: cut off, or led along its new path. *)
ReachedEntry(e) ==
    [e EXCEPT !.flags = {},
              !.value = IF e.action = NoAction /\ "HEURISTIC" \in e.flags
                        THEN Heuristic(e.state) ELSE @]

Reached(h, i) == [h EXCEPT ![i] = ReachedEntry(h[i])]

CutOff(h, i) == SubSeq(h, 1, i - 1) \o <<LastEntry(h[i].state, h[i].node)>>

EndedHistory(h, r) ==
    IF EndsEarly(h, r) THEN CutOff(h, r.at)
    ELSE IF r.divergingEntry # 0 THEN Rerouted(Reached(h, r.at), r.at)
    ELSE Reached(h, r.at)

(* What follows the loop, which ends at the end of the range, at the end   *)
(* of the history, or at a terminal state, where the history is cut off.   *)
(* A history that diverged is counted again.                               *)
EndRevision(q) ==
    /\ revision.seq = {q} /\ phase = "revising"
    /\ LET r == revision
           h == history[q]
           e == h[r.at]
           ended == EndedHistory(h, r)
           Recounted(Count(_, _, _, _), count) ==
               LET negated == IF NegatesEnd(h, r) THEN Count(count, h, -1, r.at) ELSE count
                   once == Extended(negated, ended)
               IN IF r.divergingEntry # 0 THEN Count(once, ended, 1, r.divergingEntry) ELSE once
       IN /\ r.at < r.firstUnchanged => e.state \in Terminal \/ e.action = NoAction
          /\ history' = [history EXCEPT ![q] = ended]
          /\ visits' = Recounted(CountVisits, visits)
          /\ continued' = Recounted(CountContinuations,
                IF EndsEarly(h, r) THEN ContinuationNegated(continued, e, r) ELSE continued)
          /\ affectedIdx' = [affectedIdx EXCEPT ![q] = NoRange]
          /\ affected' = affected \ {q}
    /\ revision' = NoRevision
    /\ UNCHANGED <<options, phase, steps, belief, deleted, changeRoot, isAffectedMap, toFlag>>

EndChangesKeepingMap ==                                             \* mutant
    /\ phase = "revising"
    /\ affected = {}
    /\ deleted' = {}
    /\ phase' = "planning"
    /\ UNCHANGED <<options, steps, belief, history, affectedIdx, treeVars, changeRoot, toFlag,
                   isAffectedMap, affected, revision>>

(* The end of applyChanges.  No history is left to extend. *)
EndChanges ==
    /\ phase = "revising"
    /\ affected = {}
    /\ deleted' = {}
    /\ isAffectedMap' = [n \in {} |-> TRUE]
    /\ phase' = "planning"
    /\ UNCHANGED <<options, steps, belief, history, affectedIdx, treeVars, changeRoot, toFlag,
                   affected, revision>>

Next ==
    \/ NoChanges \/ ChangeEnvironment
    \/ \E s \in States : FlagState(s)
    \/ EndFlagging \/ EndDeleting \/ EndChanges
    \/ \E q \in Sequences :
          \/ StartSearch(q) \/ SearchStep(q) \/ UpdateBelief(q)
          \/ DeleteSequence(q)
          \/ StartRevision(q) \/ ReviseEntry(q) \/ EndRevision(q)

(* One thread runs applyChanges to its end. *)
Fairness ==
    /\ \A s \in States : WF_vars(FlagState(s))
    /\ WF_vars(EndFlagging) /\ WF_vars(EndDeleting) /\ WF_vars(EndChanges)
    /\ \A q \in Sequences :
          /\ WF_vars(DeleteSequence(q))
          /\ WF_vars(StartRevision(q)) /\ WF_vars(ReviseEntry(q)) /\ WF_vars(EndRevision(q))

Spec == Init /\ [][Next]_vars /\ Fairness

-----------------------------------------------------------------------------
Flags == {"DELETED", "TRANSITION", "OBSERVATION", "REWARD", "HEURISTIC"}

Paths == Seq(Actions \X Range(Cell))

Values == {<<>>} \cup {<<s>> : s \in States} \cup (States \X Actions \X States)

EntryType ==
    [state : States, node : Paths,
     action : Actions \cup {NoAction}, observation : Observations \cup {NoObservation},
     value : Values, flags : SUBSET Flags]

(* The types of the state.  Every history fits the depth limit, and the    *)
(* entry a revision is at is one of its history.                           *)
TypeOK ==
    /\ options \in [areDynamic : BOOLEAN, pruneEveryStep : BOOLEAN]
    /\ phase \in {"planning", "searching", "updated", "flagging", "deleting", "revising"}
    /\ steps \in 0..NSimulationSteps
    /\ belief \in Nodes
    /\ DOMAIN history = Sequences
    /\ \A q \in Sequences :
          /\ Len(history[q]) \in 0..(MaximumDepth + 1)
          /\ \A i \in DOMAIN history[q] : history[q][i] \in EntryType
    /\ DOMAIN affectedIdx = Sequences
    /\ \A q \in Sequences :
          affectedIdx[q] \in [start : 1..(MaximumDepth + 2), end : 0..(MaximumDepth + 1)]
    /\ Root \in Nodes
    /\ visits \in [Nodes -> Int] /\ continued \in [Nodes -> Int]
    /\ deleted \subseteq Colliding
    /\ changeRoot \subseteq Nodes /\ Cardinality(changeRoot) <= 1
    /\ isAffectedMap \in [DOMAIN isAffectedMap -> BOOLEAN]
    /\ toFlag \subseteq deleted
    /\ affected \subseteq Sequences
    /\ revision.seq \subseteq Sequences
    /\ phase = "revising" => \A q \in revision.seq : revision.at \in DOMAIN history[q]

(* No history is being searched or revised. *)
Settled == revision = NoRevision

(* Every entry stands at the node its history leads to: the child of the   *)
(* node of the entry before, by that entry's action and observation.  The  *)
(* updates find the entries of mappings by this path, and dereference what *)
(* they find.                                                              *)
PathsFollowObservations ==
    \A q \in Sequences : \A i \in DOMAIN history[q] : i < Len(history[q]) =>
        LET e == history[q][i]
        IN /\ history[q][i + 1].node = Child(e.node, e.action, e.observation)
           /\ history[q][i + 1].node \in Nodes

(* Visit counts are those of the histories there are.  Where pruning       *)
(* deletes histories without undoing them, this is true of the nodes from  *)
(* the agent's belief on.                                                  *)
Reaching(node) == {u \in EntryIds : u[2] > 1 /\ EntryAt(u).node = node}

Trusted(node) == node # Root /\ (options.pruneEveryStep => AtOrBelow(node, belief))

CountsExact ==
    Settled => \A n \in Nodes : Trusted(n) => visits[n] = Cardinality(Reaching(n))

(* No value is held for a continuation there is not: the value of a node   *)
(* is in its parent's total at most once per history that continues from   *)
(* it.  doBackup scales what it passes up by the number of continuations.  *)
NoValueWithoutContinuation ==
    Settled => \A n \in Nodes : Trusted(n) =>
        continued[n] <= Cardinality(
            {u \in Reaching(n) : EntryAt(u).action # NoAction})

(* Once the changes are applied every history is one that the model may    *)
(* generate, and each of its rewards, or its heuristic value, is that of   *)
(* the states it has now.                                                  *)
HistoriesCurrent ==
    phase \in {"planning", "updated"} =>
        \A q \in Sequences : \A i \in DOMAIN history[q] :
            LET e == history[q][i]
            IN IF i < Len(history[q])
               THEN LET n == history[q][i + 1].state
                    IN n \in Moves[e.state][e.action] /\ e.value = Reward(e.state, e.action, n)
               ELSE e.action = NoAction /\ (i > 1 => e.value = Heuristic(e.state))

(* No flag of an entry outlives the changes it was raised for: when        *)
(* planning goes on, no entry is flagged, no range is set and the map of   *)
(* affected nodes is empty.  The flags of states, deleted, may: a change   *)
(* that is given up leaves them in the pool for the next one.              *)
FlagsSpent ==
    phase \in {"planning", "updated"} =>
        /\ affected = {} /\ isAffectedMap = [n \in {} |-> TRUE]
        /\ \A q \in Sequences :
              /\ affectedIdx[q] = NoRange
              /\ \A i \in DOMAIN history[q] : history[q][i].flags = {}

Changing == phase \in {"flagging", "deleting", "revising"}

(* What may become of a history, h, at the change root r: h passes through *)
(* r, and what is left of it has the same states up to there.              *)
KeptUpTo(r, h, g) ==
    /\ \E i \in DOMAIN h : h[i].node = r
    /\ g # <<>> => \A i \in DOMAIN h : AtOrBelow(r, h[i].node) => g[i].state = h[i].state

(* With dynamic changes the past is kept: only histories through the       *)
(* agent's belief are touched, and they are deleted or keep their states   *)
(* up to that belief.                                                      *)
OnlyTheFutureChanges ==
    [][Changing => \A q \in Sequences, r \in changeRoot :
          history'[q] # history[q] => KeptUpTo(r, history[q], history'[q])]_vars

(* applyChanges comes to an end, however far a change carries on through a *)
(* history.                                                                *)
ChangesEnd == Changing ~> phase = "planning"

(* ChangeFlags.hpp has OBSERVATION mean "Recalculate observation", and the *)
(* revision raises it wherever a next state is replaced.  So once changes  *)
(* are applied the observations of a history are ones its states may give. *)
ObservationsCurrent ==
    phase \in {"planning", "updated"} =>
        \A q \in Sequences : \A i \in DOMAIN history[q] : i < Len(history[q]) =>
            history[q][i].observation \in Observe[history[q][i + 1].state]
=============================================================================
