------------------------------- MODULE Backup -------------------------------
(***************************************************************************)
(* The deferred backup of the ABT solver.  Each belief node caches the     *)
(* estimate of its value; whatever changes the action entries of a node    *)
(* either recalculates that cache in the same call or puts the node into   *)
(* nodesToBackup_, a map from depth to a set of raw node pointers, for     *)
(* doBackup to work through from the deepest nodes up to the root.         *)
(*                                                                         *)
(* Values are abstracted to whether the cached one can still be trusted:   *)
(* a node is stale when an entry of its mapping has moved since its value  *)
(* was last recalculated.  ActionMappingEntry::update tells its caller     *)
(* whether the mean moved, and the model lets it answer either way.        *)
(*                                                                         *)
(* A node is named by its path from the root.                              *)
(***************************************************************************)
EXTENDS Integers, FiniteSets, SequencesExt

CONSTANTS
    Edges,      \* pairs of an action and an observation
    Nodes       \* bound: the belief nodes that may come to exist

ASSUME NodesAssumption ==
    /\ Nodes \subseteq Seq(Edges)
    /\ IsFiniteSet(Nodes)
    /\ <<>> \in Nodes
    /\ \A n \in Nodes : n # <<>> => Front(n) \in Nodes

VARIABLES
    tree,           \* BeliefTree: the nodes that exist
    current,        \* Agent: the node the agent is at
    stale,          \* nodes whose cached value may differ from their estimate
    nodesToBackup_, \* Solver: the nodes waiting for doBackup
    phase,          \* the public operation of Solver that is running
    backedUp        \* the nodes the running doBackup has recalculated

vars == <<tree, current, stale, nodesToBackup_, phase, backedUp>>

-----------------------------------------------------------------------------
Root == <<>>
Parent(n) == Front(n)
Depth(n) == Len(n)

(* The nodes from top down to the parent of leaf. *)
Span(top, leaf) == {n \in tree' : IsPrefix(top, n) /\ IsStrictPrefix(n, leaf)}

(* A sequence starts where the agent was when it was made. *)
Starts == {n \in tree : IsPrefix(n, current)}

(* Makes the nodes of the path to leaf: createOrGetChild along a sequence. *)
Grow(leaf) == tree' = tree \cup {n \in Nodes : IsPrefix(n, leaf)}

(* The nodes of queued go into the queue, whether or not their means moved; *)
(* those of watched are queued by the callers of update if it says so.      *)
Defer(queued, watched) ==
    \E moved \in SUBSET (queued \cup watched) :
        /\ stale' = stale \cup moved
        /\ nodesToBackup_' = nodesToBackup_ \cup queued \cup (moved \cap watched)

ParentOf(n) == IF n = Root THEN {} ELSE {Parent(n)}

-----------------------------------------------------------------------------
Init ==
    /\ tree = {Root}
    /\ current = Root
    /\ stale = {}
    /\ nodesToBackup_ = {}
    /\ phase = "idle"
    /\ backedUp = {}

(* updateSequence with propagateQChanges: the nodes it passes are          *)
(* recalculated on the way up, the one it stops at is queued.              *)
Propagate(top, leaf) ==
    IF top = leaf
    THEN UNCHANGED <<stale, nodesToBackup_>>
    ELSE /\ stale' \in {stale \ Span(top, leaf), (stale \ Span(top, leaf)) \cup {top}}
         /\ nodesToBackup_' = nodesToBackup_ \cup {top}

-----------------------------------------------------------------------------
(* improvePolicy: the searches of multipleSearches, then doBackup. *)
StartSearches ==
    /\ phase = "idle"
    /\ phase' = "improving"
    /\ UNCHANGED <<tree, current, stale, nodesToBackup_, backedUp>>

(* extendAndBackup of a new sequence; a search that fails leaves its nodes. *)
Search(leaf) ==
    /\ phase = "improving"
    /\ IsPrefix(current, leaf)
    /\ Grow(leaf)
    /\ Propagate(current, leaf) \/ UNCHANGED <<stale, nodesToBackup_>>
    /\ UNCHANGED <<current, phase, backedUp>>

StopSearches ==
    /\ phase = "improving"
    /\ phase' = "backup"
    /\ UNCHANGED <<tree, current, stale, nodesToBackup_, backedUp>>

(* updateBelief moves the agent to a child, which is made if need be. *)
UpdateBelief(n) ==
    /\ phase = "idle"
    /\ n # Root
    /\ Parent(n) = current
    /\ tree' = tree \cup {n}
    /\ current' = n
    /\ UNCHANGED <<stale, nodesToBackup_, phase, backedUp>>

-----------------------------------------------------------------------------
(* applyChanges: sequences that lost their first state are undone, those   *)
(* that changed are revised, doBackup; then the ones that hit an illegal   *)
(* action are extended, and doBackup again.                                *)
StartChanges ==
    /\ phase = "idle"
    /\ phase' = "undoing"
    /\ UNCHANGED <<tree, current, stale, nodesToBackup_, backedUp>>

(* updateSequence(sequence, -1) from its first entry. *)
Undo(first, leaf) ==
    /\ phase = "undoing"
    /\ UNCHANGED tree
    /\ Propagate(first, leaf)
    /\ UNCHANGED <<current, phase, backedUp>>

(* reviseSequence.  Rewards that changed move entries anywhere along the   *)
(* sequence (updateImmediate); the new heuristic value, or a continuation  *)
(* that is lost, moves the entry above a node of it (updateEstimate).  From *)
(* where the sequence diverges or ends early it is negated, and if it goes *)
(* on it is counted again, with propagateQChanges = false: every node is   *)
(* queued.  The nodes stay the same: observations are only replaced by     *)
(* ones with the same mapping entry.                                       *)
ReviseQueueingTop(first, leaf) ==                                   \* mutant
    LET watched == Span(first, leaf) \cup ParentOf(leaf)
    IN
    /\ phase \in {"undoing", "revising"}
    /\ UNCHANGED tree
    /\ \/ Defer({}, watched)
       \/ \E d \in Span(first, leaf), moved \in SUBSET Span(first, leaf) :
             /\ stale' = stale \cup moved
             /\ nodesToBackup_' = nodesToBackup_ \cup {d}
    /\ phase' = "revising"
    /\ UNCHANGED <<current, backedUp>>

Revise(first, leaf) ==
    LET watched == Span(first, leaf) \cup ParentOf(leaf)
    IN
    /\ phase \in {"undoing", "revising"}
    /\ UNCHANGED tree
    /\ \/ Defer({}, watched)
       \/ \E d \in Span(first, leaf) : Defer(Span(d, leaf), watched)
    /\ phase' = "revising"
    /\ UNCHANGED <<current, backedUp>>

BackUpRevised ==
    /\ phase \in {"undoing", "revising"}
    /\ phase' = "backup revised"
    /\ UNCHANGED <<tree, current, stale, nodesToBackup_, backedUp>>

(* extendAndBackup of an old sequence from its last node on.  A            *)
(* continuation is added above that node, unless the sequence starts there; *)
(* at the depth limit nothing is added, yet updateSequence still counts    *)
(* the entry before the last one.                                          *)
Extend(first, last, leaf) ==
    /\ phase = "extending"
    /\ IsPrefix(first, last)
    /\ IsPrefix(last, leaf)
    /\ Grow(leaf)
    /\ IF last # leaf
       THEN \/ UNCHANGED <<stale, nodesToBackup_>>
            \/ \E moved \in SUBSET (ParentOf(last) \cap Span(first, leaf)), v \in {{}, {last}} :
                  /\ stale' = ((stale \cup moved) \ Span(last, leaf)) \cup v
                  /\ nodesToBackup_' = nodesToBackup_ \cup moved \cup {last}
       ELSE \/ UNCHANGED <<stale, nodesToBackup_>>
            \/ first # last /\ Propagate(Parent(last), last)
    /\ UNCHANGED <<current, phase, backedUp>>

BackUpExtendedLater ==                                              \* mutant
    /\ phase = "extending"
    /\ phase' = "idle"
    /\ UNCHANGED <<tree, current, stale, nodesToBackup_, backedUp>>

BackUpExtended ==
    /\ phase = "extending"
    /\ phase' = "backup"
    /\ UNCHANGED <<tree, current, stale, nodesToBackup_, backedUp>>

(* resetTree, in place of applyChanges: the tree starts again at a root,   *)
(* and the queue is emptied.                                               *)
ResetTree ==
    /\ phase = "idle"
    /\ tree' = {Root}
    /\ current' = Root
    /\ stale' = {}
    /\ nodesToBackup_' = {}
    /\ UNCHANGED <<phase, backedUp>>

-----------------------------------------------------------------------------
(* pruneSiblings: the sibling nodes go with everything below them; their   *)
(* parent is queued, since the deletion of an action entry moves its value. *)
Siblings(n) == {m \in tree : Depth(m) = Depth(n) /\ m # n /\ Parent(m) = Parent(n)}

PruneSiblingsOnly ==                                                \* mutant
    /\ phase = "idle"
    /\ current # Root
    /\ tree' = tree \ Siblings(current)
    /\ phase' = "backup"
    /\ UNCHANGED <<current, stale, nodesToBackup_, backedUp>>

PruneSiblings ==
    /\ phase = "idle"
    /\ current # Root
    /\ tree' = {n \in tree : \A m \in Siblings(current) : ~IsPrefix(m, n)}
    /\ IF Siblings(current) = {}
       THEN UNCHANGED <<stale, nodesToBackup_>>
       ELSE /\ nodesToBackup_' = nodesToBackup_ \cup {Parent(current)}
            /\ stale' \in {stale \cap tree', (stale \cap tree') \cup {Parent(current)}}
    /\ phase' = "backup"
    /\ UNCHANGED <<current, backedUp>>

-----------------------------------------------------------------------------
(* doBackup, one round of its loop: the deepest nodes are recalculated,    *)
(* what that changes is passed to the action entries above, and a parent   *)
(* whose mean moved is queued.  The nodes of depth 0 have nothing above.   *)
Shallowest ==                                                       \* mutant
    {n \in nodesToBackup_ : \A m \in nodesToBackup_ : Depth(n) <= Depth(m)}

Deepest == {n \in nodesToBackup_ : \A m \in nodesToBackup_ : Depth(m) <= Depth(n)}

BackingUp == phase \in {"backup", "backup revised"}

KeepDeepest ==                                                      \* mutant
    /\ BackingUp
    /\ nodesToBackup_ # {}
    /\ \E moved \in SUBSET UNION {ParentOf(n) : n \in Deepest} :
          /\ stale' = (stale \ Deepest) \cup moved
          /\ nodesToBackup_' = nodesToBackup_ \cup moved
    /\ UNCHANGED <<tree, current, phase, backedUp>>

BackUpDeepest ==
    /\ BackingUp
    /\ nodesToBackup_ # {}
    /\ \E moved \in SUBSET UNION {ParentOf(n) : n \in Deepest} :
          /\ stale' = (stale \ Deepest) \cup moved
          /\ nodesToBackup_' = (nodesToBackup_ \ Deepest) \cup moved
    /\ backedUp' = backedUp \cup Deepest
    /\ UNCHANGED <<tree, current, phase>>

EndBackup ==
    /\ BackingUp
    /\ nodesToBackup_ = {}
    /\ phase' = IF phase = "backup" THEN "idle" ELSE "extending"
    /\ backedUp' = {}
    /\ UNCHANGED <<tree, current, stale, nodesToBackup_>>

Next ==
    \/ StartSearches
    \/ \E leaf \in Nodes : Search(leaf)
    \/ StopSearches
    \/ \E n \in Nodes : UpdateBelief(n)
    \/ StartChanges
    \/ \E first \in Starts, leaf \in tree :
          IsPrefix(first, leaf) /\ (Undo(first, leaf) \/ Revise(first, leaf))
    \/ BackUpRevised
    \/ \E first \in Starts, last \in tree, leaf \in Nodes : Extend(first, last, leaf)
    \/ BackUpExtended
    \/ ResetTree
    \/ PruneSiblings
    \/ BackUpDeepest
    \/ EndBackup

(* doBackup is a loop without waiting: its rounds follow one another. *)
Spec == Init /\ [][Next]_vars /\ WF_vars(BackUpDeepest) /\ WF_vars(EndBackup)

-----------------------------------------------------------------------------
(* The types of the state; the nodes above a node exist. *)
TypeOK ==
    /\ tree \subseteq Nodes
    /\ Root \in tree
    /\ \A n \in tree : ParentOf(n) \subseteq tree
    /\ current \in tree
    /\ stale \subseteq Nodes
    /\ nodesToBackup_ \subseteq Nodes
    /\ phase \in {"idle", "improving", "undoing", "revising", "extending",
                   "backup revised", "backup"}
    /\ backedUp \subseteq Nodes

(* A cached value that its entries have left behind is always on its way   *)
(* to be recalculated, in the middle of searches and revisions too; with   *)
(* nothing queued every value in the tree can be trusted.                  *)
StaleIsQueued == stale \subseteq nodesToBackup_

(* The queue holds raw pointers, and no code takes a node out of it when   *)
(* the node is destroyed.  It never holds one that is gone, because the    *)
(* operations that destroy nodes start with an empty queue.                *)
QueuedNodesExist == nodesToBackup_ \subseteq tree

(* Working from the deepest nodes up, doBackup recalculates each node at   *)
(* most once, however many of the nodes below it have changed.             *)
BackedUpOnce == BackingUp => nodesToBackup_ \cap backedUp = {}

(* doBackup comes to an end, with every node backed up. *)
BackupEnds == BackingUp ~> (~BackingUp /\ nodesToBackup_ = {})
=============================================================================
