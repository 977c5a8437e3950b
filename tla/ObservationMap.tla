--------------------------- MODULE ObservationMap ---------------------------
(***************************************************************************)
(* The observation mapping of one action node, for continuous observations *)
(* (ApproximateObservationMap): an observation belongs to the entry whose  *)
(* own observation is nearest, if one is near enough, and gets an entry of *)
(* its own if none is.  Entries come and go, and which one an observation  *)
(* belongs to is asked again each time a history is counted or undone.     *)
(*                                                                         *)
(* A history is here if it passes this action node.  The entries of a map  *)
(* have different observations, so a belief node below it is named by the  *)
(* observation of its entry.                                               *)
(***************************************************************************)
EXTENDS Integers, FiniteSetsExt, SequencesExt

CONSTANTS
    Observations,
    Distance,       \* distanceTo, of two observations
    MaxDistance,    \* maxDistance_
    Sequences       \* addresses of history sequences

ASSUME FinitenessAssumption == IsFiniteSet(Sequences)

ASSUME DistanceAssumption ==
    /\ MaxDistance \in Nat
    /\ Distance \in [Observations -> [Observations -> Nat]]
    /\ \A o, p \in Observations :
          /\ Distance[o][p] = Distance[p][o]
          /\ Distance[o][p] = 0 <=> o = p

VARIABLES
    entries,            \* entries_: the observation and the visit count of each
    totalVisitCount,    \* totalVisitCount_
    history,            \* the observation of each history here, and the node it went to
    belief,             \* the node the agent went to, or none
    pruned,             \* whether its siblings are pruned, or being pruned
    toPrune             \* those of them that pruneSiblings has still to come to

mapVars == <<entries, totalVisitCount>>
vars == <<entries, totalVisitCount, history, belief, pruned, toPrune>>

-----------------------------------------------------------------------------
Near(list, o) == {i \in DOMAIN list : Distance[list[i].observation][o] <= MaxDistance}

(* getEntry: the nearest, the last of several; 0 if none is near enough. *)
GetEntry(list, o) ==
    LET To(i) == Distance[list[i].observation][o]
    IN IF Near(list, o) = {} THEN 0
       ELSE Max({i \in Near(list, o) : \A j \in Near(list, o) : To(i) <= To(j)})

(* createBelief *)
NewEntry(o) == [observation |-> o, visitCount |-> 0]

(* createOrGetChild *)
WithChild(list, o) ==
    IF GetEntry(list, o) = 0 THEN Append(list, NewEntry(o)) ELSE list

(* updateVisitCount of the entry an observation belongs to now. *)
Updated(list, o, sgn) == [list EXCEPT ![GetEntry(list, o)].visitCount = @ + sgn]

(* deleteChild: the last entry takes the place of the one deleted. *)
Deleted(list, i) ==
    IF i = Len(list) THEN Front(list) ELSE [Front(list) EXCEPT ![i] = Last(list)]

TotalKept(total, list, i) == total                                  \* mutant

TotalWithout(total, list, i) == total - list[i].visitCount

NodeOf(list, o) == list[GetEntry(list, o)].observation

NodesOf(list) == {list[i].observation : i \in DOMAIN list}

(* getParentEntry of a belief node. *)
EntryOf(list, node) == CHOOSE i \in DOMAIN list : list[i].observation = node

-----------------------------------------------------------------------------
Here == {q \in Sequences : history[q] # <<>>}

Visit(o, node) == <<[observation |-> o, node |-> node]>>

Init ==
    /\ entries = <<>>
    /\ totalVisitCount = 0
    /\ history = [q \in Sequences |-> <<>>]
    /\ belief = {}
    /\ pruned = FALSE
    /\ toPrune = {}

(* extendAndBackup, or a revision that leads a history here: it goes to    *)
(* the node of its observation, and its visit is counted.  Once siblings   *)
(* are pruned the agent is below, and no other path is left to come from.  *)
Search(q, o) ==
    /\ ~pruned
    /\ q \notin Here
    /\ LET list == WithChild(entries, o)
       IN /\ entries' = Updated(list, o, 1)
          /\ history' = [history EXCEPT ![q] = Visit(o, NodeOf(list, o))]
    /\ totalVisitCount' = totalVisitCount + 1
    /\ UNCHANGED <<belief, pruned, toPrune>>

(* updateSequence(-1) before a history is deleted or led elsewhere. *)
Negate(q) ==
    /\ q \in Here /\ toPrune = {}
    /\ entries' = Updated(entries, history[q][1].observation, -1)
    /\ totalVisitCount' = totalVisitCount - 1
    /\ history' = [history EXCEPT ![q] = <<>>]
    /\ UNCHANGED <<belief, pruned, toPrune>>

(* reviseSequence: a history that has diverged, here (by an observation of *)
(* the same entry) or before, is undone, sent to the node its observation  *)
(* belongs to now, and counted again.                                      *)
Revise(q, o) ==
    /\ q \in Here /\ toPrune = {}
    /\ LET old == history[q][1].observation
       IN /\ GetEntry(entries, o) = GetEntry(entries, old)
          /\ entries' = Updated(Updated(entries, old, -1), o, 1)
          /\ history' = [history EXCEPT ![q] = Visit(o, NodeOf(entries, o))]
    /\ UNCHANGED <<totalVisitCount, belief, pruned, toPrune>>

(* updateBelief: the agent goes to the node of the real observation. *)
UpdateBelief(o) ==
    /\ belief = {}
    /\ entries' = WithChild(entries, o)
    /\ belief' = {NodeOf(entries', o)}
    /\ UNCHANGED <<totalVisitCount, history, pruned, toPrune>>

(* pruneSiblings: every child but the agent's is to go. *)
PruneSiblings ==
    /\ belief # {} /\ ~pruned
    /\ toPrune' = NodesOf(entries) \ belief
    /\ pruned' = TRUE
    /\ UNCHANGED <<mapVars, history, belief>>

(* The histories that go with a node: those its particles belong to. *)
NearestTo(node) ==                                                  \* mutant
    {q \in Here : NodeOf(entries, history[q][1].observation) = node}

Through(node) == {q \in Here : history[q][1].node = node}

(* pruneSubtree of one child.  Which one is next makes no difference. *)
PruneSubtree(node) ==
    /\ node \in toPrune
    /\ LET i == EntryOf(entries, node)
       IN /\ entries' = Deleted(entries, i)
          /\ totalVisitCount' = TotalWithout(totalVisitCount, entries, i)
    /\ history' = [q \in Sequences |-> IF q \in Through(node) THEN <<>> ELSE history[q]]
    /\ toPrune' = toPrune \ {node}
    /\ UNCHANGED <<belief, pruned>>

Next ==
    \/ PruneSiblings
    \/ \E o \in Observations : UpdateBelief(o) \/ PruneSubtree(o)
    \/ \E q \in Sequences :
          \/ Negate(q)
          \/ \E o \in Observations : Search(q, o) \/ Revise(q, o)

Spec == Init /\ [][Next]_vars

-----------------------------------------------------------------------------
(* The updates of a history dereference the entry that getEntry finds for  *)
(* its observation, and nothing holds that entry for them: there is always *)
(* one, and the node a history went to is that of an entry there still is, *)
(* near to the observation it was sent there for.                          *)
HistoriesFindEntries ==
    \A q \in Here :
        LET visit == history[q][1]
        IN /\ GetEntry(entries, visit.observation) # 0
           /\ \E i \in Near(entries, visit.observation) : entries[i].observation = visit.node

(* No observation is near to two entries. *)
Unambiguous == \A o \in Observations : Cardinality(Near(entries, o)) <= 1

VisitsIn(list) ==
    LET sum[k \in 0..Len(list)] == IF k = 0 THEN 0 ELSE sum[k - 1] + list[k].visitCount
    IN sum[Len(list)]

(* The total is the sum of the entries' counts, and until siblings are     *)
(* pruned the number of histories here.  As long as every observation is   *)
(* near to one entry only, each count is that of the histories through the *)
(* entry's node.                                                           *)
VisitsFollowHistories ==
    /\ totalVisitCount = VisitsIn(entries)
    /\ ~pruned => totalVisitCount = Cardinality(Here)
    /\ ~pruned /\ Unambiguous =>
          \A i \in DOMAIN entries :
              entries[i].visitCount = Cardinality(Through(entries[i].observation))
=============================================================================
