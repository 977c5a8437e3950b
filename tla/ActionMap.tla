----------------------------- MODULE ActionMap -----------------------------
(***************************************************************************)
(* The action mapping of one belief node: DiscretizedActionMap of the ABT  *)
(* solver and RobotDiscreteActionMapping, the subclass OPPT instantiates.  *)
(* The two hold the same bookkeeping: one entry per bin of the discretized *)
(* action space, the tree of children below the entries, and the linked    *)
(* hash set of the bins that are still to be tried.                        *)
(*                                                                         *)
(* The callers are modelled too.  A search step picks a bin, creates its   *)
(* action node if there is none, and is counted only later, when the whole *)
(* sequence is backed up (or never, when the search is abandoned).  A      *)
(* changed model negates sequences that were counted, a deferred backup    *)
(* moves Q-values alone, and pruning deletes children.                     *)
(***************************************************************************)
EXTENDS Integers, FiniteSets, SequencesExt

CONSTANTS
    Bins,           \* bin numbers of the discretized action space
    LegalBins,      \* the bins createBinSequence returns for this belief
    NoMean,         \* the mean Q-value of an entry nobody visited (-infinity)
    NoBin,          \* no search step is waiting to be backed up
    QDeltas,        \* changes of an entry's total Q-value that a call may pass
    MaxVisits,      \* bound: visits of one entry
    MaxQ,           \* bound: absolute value of an entry's total Q-value
    MaxChildren     \* bound: action nodes ever created in the mapping

ASSUME BinsAssumption ==
    /\ IsFiniteSet(Bins)
    /\ LegalBins \subseteq Bins
    /\ NoBin \notin Bins

ASSUME QAssumption ==
    /\ QDeltas \subseteq Int
    /\ NoMean \notin Int \X Int

ASSUME BoundsAssumption ==
    /\ MaxVisits \in Nat
    /\ MaxQ \in Nat
    /\ MaxChildren \in Nat

VARIABLES
    childNode_,                 \* the bins whose entry owns an action node
    visitCount_,                \* visits counted in each entry
    totalQValue_,               \* sum of the Q-values of those visits
    meanQValue_,                \* NoMean, or the quotient <<total, visits>>
    nChildren_,                 \* what getNChildren() returns
    numberOfVisitedEntries_,    \* what getNumberOfVisitedEntries() returns
    totalVisitCount_,           \* what getTotalVisitCount() returns
    binSequence_,               \* the LinkedHashSet of bins to try, in order
    pending                     \* the bin of the step a running search took here

entryVars == <<visitCount_, totalQValue_, meanQValue_,
               numberOfVisitedEntries_, totalVisitCount_, binSequence_>>
vars == <<childNode_, nChildren_, pending, entryVars>>

-----------------------------------------------------------------------------
(* LinkedHashSet: a list of distinct elements, in order of insertion. *)

Position(s, e) == CHOOSE i \in 1..Len(s) : s[i] = e

AddFirst(s, e) == IF e \in ToSet(s) THEN s ELSE <<e>> \o s     \* mutant

AddLast(s, e) == IF e \in ToSet(s) THEN s ELSE Append(s, e)

Discard(s, e) == IF e \in ToSet(s) THEN RemoveAt(s, Position(s, e)) ELSE s

-----------------------------------------------------------------------------
(* DiscretizedActionMapEntry::update, one operator per counter it moves. *)

BecomesVisited(b, dVisits) == visitCount_[b] = 0 /\ dVisits > 0

BecomesUnvisited(b, dVisits) == visitCount_[b] + dVisits = 0 /\ dVisits < 0

BinSequenceWithoutReturn(b, dVisits) ==                         \* mutant
    IF BecomesVisited(b, dVisits) THEN Discard(binSequence_, b) ELSE binSequence_

BinSequenceAfter(b, dVisits) ==
    IF BecomesVisited(b, dVisits) THEN Discard(binSequence_, b)
    ELSE IF BecomesUnvisited(b, dVisits) /\ b \in LegalBins THEN AddLast(binSequence_, b)
    ELSE binSequence_

VisitedEntriesNeverLowered(b, dVisits) ==                       \* mutant
    IF BecomesVisited(b, dVisits) THEN numberOfVisitedEntries_ + 1
                                  ELSE numberOfVisitedEntries_

VisitedEntriesAfter(b, dVisits) ==
    IF BecomesVisited(b, dVisits) THEN numberOfVisitedEntries_ + 1
    ELSE IF BecomesUnvisited(b, dVisits) THEN numberOfVisitedEntries_ - 1
    ELSE numberOfVisitedEntries_

Mean(total, visits) == IF visits <= 0 THEN NoMean ELSE <<total, visits>>

Update(b, dVisits, dQ) ==
    IF dVisits = 0 /\ dQ = 0
    THEN UNCHANGED entryVars
    ELSE /\ visitCount_' = [visitCount_ EXCEPT ![b] = @ + dVisits]
         /\ totalQValue_' = [totalQValue_ EXCEPT ![b] = @ + dQ]
         /\ meanQValue_' = [meanQValue_ EXCEPT
                ![b] = Mean(totalQValue_[b] + dQ, visitCount_[b] + dVisits)]
         /\ totalVisitCount_' = totalVisitCount_ + dVisits
         /\ numberOfVisitedEntries_' = VisitedEntriesAfter(b, dVisits)
         /\ binSequence_' = BinSequenceAfter(b, dVisits)

WithinBounds(b, dVisits, dQ) ==
    /\ visitCount_[b] + dVisits <= MaxVisits
    /\ totalQValue_[b] + dQ \in -MaxQ..MaxQ

-----------------------------------------------------------------------------
(* The constructor: every bin of the shuffled sequence is legal and untried. *)
Init ==
    /\ childNode_ = {}
    /\ visitCount_ = [b \in Bins |-> 0]
    /\ totalQValue_ = [b \in Bins |-> 0]
    /\ meanQValue_ = [b \in Bins |-> NoMean]
    /\ nChildren_ = 0
    /\ numberOfVisitedEntries_ = 0
    /\ totalVisitCount_ = 0
    /\ binSequence_ \in [1..Cardinality(LegalBins) -> LegalBins]
    /\ ToSet(binSequence_) = LegalBins
    /\ IsInjective(binSequence_)
    /\ pending = NoBin

(* BeliefNode::createOrGetChild: the action node is created on first use. *)
TakeStep(b) ==
    /\ pending = NoBin
    /\ visitCount_[b] < MaxVisits
    /\ pending' = b
    /\ childNode_' = childNode_ \cup {b}
    /\ nChildren_' = IF b \in childNode_ THEN nChildren_ ELSE nChildren_ + 1
    /\ UNCHANGED entryVars

(* The UCB stage: the first bin to try, or else some visited legal entry. *)
UcbStep ==
    \/ binSequence_ # <<>> /\ TakeStep(Head(binSequence_))
    \/ /\ binSequence_ = <<>>
       /\ \E b \in LegalBins : visitCount_[b] > 0 /\ TakeStep(b)

(* A rollout stage: the model's rollout action, in whatever bin it falls. *)
RolloutStep == \E b \in LegalBins : TakeStep(b)

(* updateSequence(+1) at the end of extendAndBackup, updateImmediate first. *)
FinishSearch(b) ==
    /\ pending = b
    /\ \E dQ \in QDeltas : WithinBounds(b, 1, dQ) /\ Update(b, 1, dQ)
    /\ pending' = NoBin
    /\ UNCHANGED <<childNode_, nChildren_>>

(* The search failed further down: its sequence is never backed up. *)
AbandonSearch ==
    /\ pending # NoBin
    /\ pending' = NoBin
    /\ UNCHANGED <<childNode_, nChildren_, entryVars>>

NegateUncounted(b) ==                                           \* mutant
    /\ pending = NoBin
    /\ b \in childNode_
    /\ \E dQ \in QDeltas : WithinBounds(b, -1, dQ) /\ Update(b, -1, dQ)
    /\ UNCHANGED <<childNode_, nChildren_, pending>>

(* updateSequence(-1): a sequence counted before is undone. *)
NegateSequence(b) ==
    /\ pending = NoBin
    /\ visitCount_[b] > 0
    /\ \E dQ \in QDeltas : WithinBounds(b, -1, dQ) /\ Update(b, -1, dQ)
    /\ UNCHANGED <<childNode_, nChildren_, pending>>

(* updateSequence(+1) for a sequence that has its action nodes already: one *)
(* revised after its negation, or one extended at the depth limit.          *)
RecountSequence(b) ==
    /\ pending = NoBin
    /\ b \in childNode_
    /\ \E dQ \in QDeltas : WithinBounds(b, 1, dQ) /\ Update(b, 1, dQ)
    /\ UNCHANGED <<childNode_, nChildren_, pending>>

(* updateEstimate and updateImmediate: the value below the entry moved. *)
BackUpEstimate(b) ==
    /\ pending = NoBin
    /\ b \in childNode_
    /\ \E dQ \in QDeltas : WithinBounds(b, 0, dQ) /\ Update(b, 0, dQ)
    /\ UNCHANGED <<childNode_, nChildren_, pending>>

DeleteChildKeepingQ(b) ==                                       \* mutant
    /\ pending = NoBin
    /\ b \in childNode_
    /\ nChildren_ + Cardinality((LegalBins \ childNode_) \cup {b}) <= MaxChildren
    /\ Update(b, -visitCount_[b], 0)
    /\ childNode_' = childNode_ \ {b}
    /\ UNCHANGED <<nChildren_, pending>>

(* deleteChild: a negative update of everything the entry holds.  The bound *)
(* leaves room to create again every action node that is then missing.      *)
DeleteChild(b) ==
    /\ pending = NoBin
    /\ b \in childNode_
    /\ nChildren_ + Cardinality((LegalBins \ childNode_) \cup {b}) <= MaxChildren
    /\ Update(b, -visitCount_[b], -totalQValue_[b])
    /\ childNode_' = childNode_ \ {b}
    /\ UNCHANGED <<nChildren_, pending>>

Next ==
    \/ UcbStep
    \/ RolloutStep
    \/ AbandonSearch
    \/ \E b \in Bins :
          \/ FinishSearch(b) \/ NegateSequence(b) \/ RecountSequence(b)
          \/ BackUpEstimate(b) \/ DeleteChild(b)

(* improvePolicy keeps searching, the searches keep reaching the node in    *)
(* their UCB stage, and those that take one bin do not all fail.            *)
Fairness ==
    /\ SF_vars(UcbStep)
    /\ \A b \in LegalBins : SF_vars(FinishSearch(b))

Spec == Init /\ [][Next]_vars /\ Fairness

-----------------------------------------------------------------------------
(* The types of the state. *)
TypeOK ==
    /\ childNode_ \subseteq Bins
    /\ visitCount_ \in [Bins -> Nat]
    /\ totalQValue_ \in [Bins -> Int]
    /\ meanQValue_ \in [Bins -> {NoMean} \cup (Int \X Int)]
    /\ nChildren_ \in Nat
    /\ numberOfVisitedEntries_ \in Int
    /\ totalVisitCount_ \in Int
    /\ binSequence_ \in Seq(Bins)
    /\ pending \in Bins \cup {NoBin}

Visited == {b \in Bins : visitCount_[b] > 0}

(* The bins waiting to be tried are exactly the legal bins with no counted *)
(* visit, each once: UCB, which takes an untried bin whenever there is     *)
(* one, neither tries a counted bin again first nor loses a bin, whatever  *)
(* was negated, deleted or abandoned before.                               *)
UntriedExactlyOnce ==
    /\ ToSet(binSequence_) = LegalBins \ Visited
    /\ IsInjective(binSequence_)

VisitedEntriesExact == numberOfVisitedEntries_ = Cardinality(Visited)

(* The counted visits one by one: the first, the second, ... of each entry. *)
VisitsOf(count) == {v \in Bins \X (1..MaxVisits) : v[2] <= count[v[1]]}

TotalVisitsExact == totalVisitCount_ = Cardinality(VisitsOf(visitCount_))

(* The two counters the mapping keeps beside its entries agree with them:  *)
(* ucb_action takes the logarithm of one, the serializer sizes its output  *)
(* by the other, and neither is ever recomputed.                           *)
CountersExact == VisitedEntriesExact /\ TotalVisitsExact

(* An entry without an action node is as good as new.  What was learned    *)
(* below a deleted node does not leak into the mean of its successor, and  *)
(* no entry that a chooser may recommend has lost its node.                *)
ChildlessIsPristine ==
    \A b \in Bins \ childNode_ :
        /\ visitCount_[b] = 0
        /\ totalQValue_[b] = 0
        /\ meanQValue_[b] = NoMean

(* Every legal bin with no counted visit is tried and counted in the end:  *)
(* a bin whose visits are undone goes to the back of the queue, so that    *)
(* bins that come and go cannot starve the others.                         *)
EveryBinGetsTried ==
    \A b \in LegalBins : [](visitCount_[b] = 0 => <>(visitCount_[b] > 0))
=============================================================================
