-------------------------- MODULE ActionMapProofs --------------------------
(***************************************************************************)
(* The bookkeeping of an action mapping, for every number of bins, every   *)
(* set of legal bins and every bound: each untried legal bin is in the     *)
(* queue exactly once, both counters kept beside the entries are exact, an *)
(* entry without an action node is as good as new, and what was learned    *)
(* survives being saved and loaded.                                        *)
(***************************************************************************)
EXTENDS ActionMapText, FiniteSetTheorems, SequenceTheorems, WellFoundedInduction, TLAPS

(* What the invariant adds to the properties: searches visit, create and    *)
(* wait for legal bins only, and the mean is that of the present counts.    *)
OnlyLegalBins ==
    /\ childNode_ \subseteq LegalBins
    /\ pending \in childNode_ \cup {NoBin}

MeanIsCurrent ==
    \A b \in Bins : meanQValue_[b] = Mean(totalQValue_[b], visitCount_[b])

VisitsBounded == visitCount_ \in [Bins -> 0..MaxVisits]

IInv ==
    /\ TypeOK
    /\ OnlyLegalBins
    /\ UntriedExactlyOnce
    /\ VisitedEntriesExact
    /\ VisitsBounded
    /\ TotalVisitsExact
    /\ ChildlessIsPristine
    /\ MeanIsCurrent

-----------------------------------------------------------------------------
(* The linked hash set. *)

(* Appending an absent element keeps the list free of duplicates. *)
LEMMA AddLastProperties ==
    ASSUME NEW S, NEW s \in Seq(S), IsInjective(s), NEW e \in S
    PROVE  /\ AddLast(s, e) \in Seq(S)
           /\ ToSet(AddLast(s, e)) = ToSet(s) \cup {e}
           /\ IsInjective(AddLast(s, e))
<1>1. CASE e \in ToSet(s)
  BY <1>1 DEF AddLast, ToSet
<1>2. CASE e \notin ToSet(s)
  <2>1. AddLast(s, e) = Append(s, e)
    BY <1>2 DEF AddLast
  <2>2. /\ Append(s, e) \in Seq(S)
        /\ DOMAIN Append(s, e) = 1..(Len(s) + 1)
        /\ \A i \in 1..Len(s) : Append(s, e)[i] = s[i]
        /\ Append(s, e)[Len(s) + 1] = e
    OBVIOUS
  <2>3. ToSet(Append(s, e)) = ToSet(s) \cup {e}
    BY <2>2 DEF ToSet
  <2>4. IsInjective(Append(s, e))
    BY <1>2, <2>2 DEF ToSet, IsInjective
  <2> QED
    BY <2>1, <2>2, <2>3, <2>4
<1> QED
  BY <1>1, <1>2

(* Removing an element removes nothing else and keeps the order. *)
LEMMA DiscardProperties ==
    ASSUME NEW S, NEW s \in Seq(S), IsInjective(s), NEW e \in S
    PROVE  /\ Discard(s, e) \in Seq(S)
           /\ ToSet(Discard(s, e)) = ToSet(s) \ {e}
           /\ IsInjective(Discard(s, e))
<1>1. CASE e \notin ToSet(s)
  BY <1>1 DEF Discard, ToSet
<1>2. CASE e \in ToSet(s)
  <2> DEFINE p == Position(s, e)
             t == RemoveAt(s, p)
  <2>1. p \in 1..Len(s) /\ s[p] = e
    BY <1>2 DEF Position, ToSet
  <2> HIDE DEF p
  <2>2. /\ t \in Seq(S)
        /\ DOMAIN t = 1..(Len(s) - 1)
        /\ \A i \in 1..(Len(s) - 1) : t[i] = IF i < p THEN s[i] ELSE s[i + 1]
    <3> DEFINE a == SubSeq(s, 1, p - 1)
               c == SubSeq(s, p + 1, Len(s))
    <3>1. /\ a \in Seq(S)
          /\ Len(a) = p - 1
          /\ \A i \in 1..(p - 1) : a[i] = s[i]
      BY <2>1, SubSeqProperties
    <3>2. /\ c \in Seq(S)
          /\ Len(c) = Len(s) - p
          /\ \A i \in 1..(Len(s) - p) : c[i] = s[p + i]
      BY <2>1, SubSeqProperties
    <3>3. t = a \o c
      BY DEF RemoveAt
    <3> HIDE DEF a, c, t
    <3> QED
      BY <2>1, <3>1, <3>2, <3>3
  <2> HIDE DEF t
  <2>3. ToSet(t) \subseteq ToSet(s) \ {e}
    BY <2>1, <2>2 DEF ToSet, IsInjective
  <2>4. ASSUME NEW i \in 1..Len(s), i # p
        PROVE  s[i] \in ToSet(t)
    <3>1. CASE i < p
      <4>1. i \in DOMAIN t /\ t[i] = s[i]
        BY <3>1, <2>1, <2>2
      <4> QED
        BY <4>1 DEF ToSet
    <3>2. CASE i > p
      <4>1. i - 1 \in DOMAIN t /\ t[i - 1] = s[i]
        BY <3>2, <2>1, <2>2
      <4> QED
        BY <4>1 DEF ToSet
    <3> QED
      BY <3>1, <3>2, <2>1, <2>4
  <2>5. ToSet(s) \ {e} \subseteq ToSet(t)
    BY <2>1, <2>4 DEF ToSet
  <2>6. IsInjective(t)
    <3> SUFFICES ASSUME NEW i \in DOMAIN t, NEW j \in DOMAIN t, t[i] = t[j]
                 PROVE  i = j
      BY DEF IsInjective
    <3> DEFINE origin(k) == IF k < p THEN k ELSE k + 1
    <3>1. /\ origin(i) \in DOMAIN s /\ t[i] = s[origin(i)]
          /\ origin(j) \in DOMAIN s /\ t[j] = s[origin(j)]
      BY <2>1, <2>2
    <3>2. origin(i) = origin(j)
      BY <3>1 DEF IsInjective
    <3> QED
      BY <3>2, <2>1, <2>2
  <2>7. Discard(s, e) = t
    BY <1>2 DEF Discard, t, p
  <2> QED
    BY <2>2, <2>3, <2>5, <2>6, <2>7
<1> QED
  BY <1>1, <1>2

-----------------------------------------------------------------------------
(* An update of one entry. *)

(* IInv without the parts that an update alone, its caller aside, disturbs. *)
Bookkeeping ==
    /\ TypeOK
    /\ UntriedExactlyOnce
    /\ VisitedEntriesExact
    /\ MeanIsCurrent

(* Whatever delta a caller passes, as long as it takes away no more visits  *)
(* than were counted and counts none on an illegal bin, the queue, the      *)
(* counter of visited entries and the means stay right.                     *)
LEMMA UpdateKeepsBookkeeping ==
    ASSUME Bookkeeping, NEW b \in LegalBins, NEW dVisits \in Int, NEW dQ \in Int,
           visitCount_[b] + dVisits >= 0,
           Update(b, dVisits, dQ),
           childNode_' \subseteq Bins, nChildren_' \in Nat,
           pending' \in Bins \cup {NoBin}
    PROVE  Bookkeeping'
<1> b \in Bins
  BY BinsAssumption
<1>1. CASE dVisits = 0 /\ dQ = 0
  <2>1. UNCHANGED entryVars
    BY <1>1 DEF Update
  <2> QED
    BY <2>1 DEF Bookkeeping, TypeOK, UntriedExactlyOnce, VisitedEntriesExact,
                MeanIsCurrent, Visited, entryVars
<1>2. CASE ~(dVisits = 0 /\ dQ = 0)
  <2> USE DEF Bookkeeping
  <2>1. /\ visitCount_' = [visitCount_ EXCEPT ![b] = @ + dVisits]
        /\ totalQValue_' = [totalQValue_ EXCEPT ![b] = @ + dQ]
        /\ meanQValue_' = [meanQValue_ EXCEPT
               ![b] = Mean(totalQValue_[b] + dQ, visitCount_[b] + dVisits)]
        /\ totalVisitCount_' = totalVisitCount_ + dVisits
        /\ numberOfVisitedEntries_' = VisitedEntriesAfter(b, dVisits)
        /\ binSequence_' = BinSequenceAfter(b, dVisits)
    BY <1>2 DEF Update
  <2>2. /\ visitCount_' \in [Bins -> Nat]
        /\ totalQValue_' \in [Bins -> Int]
    BY <2>1 DEF TypeOK
  <2>3. /\ meanQValue_' \in [Bins -> {NoMean} \cup (Int \X Int)]
        /\ MeanIsCurrent'
    <3>1. Mean(totalQValue_[b] + dQ, visitCount_[b] + dVisits)
             \in {NoMean} \cup (Int \X Int)
      BY DEF TypeOK, Mean
    <3> QED
      BY <2>1, <3>1 DEF TypeOK, MeanIsCurrent
  <2>4. CASE BecomesVisited(b, dVisits)
    <3>1. Visited' = Visited \cup {b} /\ b \notin Visited
      BY <2>1, <2>4 DEF BecomesVisited, Visited, TypeOK
    <3>2. numberOfVisitedEntries_' = numberOfVisitedEntries_ + 1
      BY <2>1, <2>4 DEF VisitedEntriesAfter
    <3>3. binSequence_' = Discard(binSequence_, b)
      BY <2>1, <2>4 DEF BinSequenceAfter
    <3>4. VisitedEntriesExact'
      <4>1. IsFiniteSet(Visited)
        BY BinsAssumption, FS_Subset DEF Visited
      <4> QED
        BY <3>1, <3>2, <4>1, FS_AddElement DEF VisitedEntriesExact
    <3>5. binSequence_' \in Seq(Bins) /\ UntriedExactlyOnce'
      <4>1. binSequence_ \in Seq(Bins) /\ IsInjective(binSequence_)
        BY DEF TypeOK, UntriedExactlyOnce
      <4>2. /\ Discard(binSequence_, b) \in Seq(Bins)
            /\ ToSet(Discard(binSequence_, b)) = ToSet(binSequence_) \ {b}
            /\ IsInjective(Discard(binSequence_, b))
        <5> HIDE DEF Bookkeeping
        <5> QED
          BY <4>1, DiscardProperties
      <4>3. /\ binSequence_' \in Seq(Bins)
            /\ ToSet(binSequence_') = ToSet(binSequence_) \ {b}
            /\ IsInjective(binSequence_')
        BY <3>3, <4>2
      <4> QED
        BY <3>1, <4>3 DEF UntriedExactlyOnce
    <3>6. numberOfVisitedEntries_' \in Int /\ totalVisitCount_' \in Int
      BY <2>1, <3>2 DEF TypeOK
    <3>7. TypeOK'
      BY <2>2, <2>3, <3>5, <3>6 DEF TypeOK
    <3> QED
      BY <2>3, <3>4, <3>5, <3>7
  <2>5. CASE BecomesUnvisited(b, dVisits)
    <3>1. Visited' = Visited \ {b} /\ b \in Visited /\ ~BecomesVisited(b, dVisits)
      BY <2>1, <2>5 DEF BecomesVisited, BecomesUnvisited, Visited, TypeOK
    <3>2. numberOfVisitedEntries_' = numberOfVisitedEntries_ - 1
      BY <2>1, <2>5, <3>1 DEF VisitedEntriesAfter
    <3>3. binSequence_' = AddLast(binSequence_, b)
      BY <2>1, <2>5, <3>1 DEF BinSequenceAfter
    <3>4. VisitedEntriesExact'
      <4>1. IsFiniteSet(Visited)
        BY BinsAssumption, FS_Subset DEF Visited
      <4> QED
        BY <3>1, <3>2, <4>1, FS_RemoveElement DEF VisitedEntriesExact
    <3>5. binSequence_' \in Seq(Bins) /\ UntriedExactlyOnce'
      <4>1. binSequence_ \in Seq(Bins) /\ IsInjective(binSequence_)
        BY DEF TypeOK, UntriedExactlyOnce
      <4>2. /\ AddLast(binSequence_, b) \in Seq(Bins)
            /\ ToSet(AddLast(binSequence_, b)) = ToSet(binSequence_) \cup {b}
            /\ IsInjective(AddLast(binSequence_, b))
        <5> HIDE DEF Bookkeeping
        <5> QED
          BY <4>1, AddLastProperties
      <4>3. /\ binSequence_' \in Seq(Bins)
            /\ ToSet(binSequence_') = ToSet(binSequence_) \cup {b}
            /\ IsInjective(binSequence_')
        BY <3>3, <4>2
      <4> QED
        BY <3>1, <4>3 DEF UntriedExactlyOnce
    <3>6. numberOfVisitedEntries_' \in Int /\ totalVisitCount_' \in Int
      BY <2>1, <3>2 DEF TypeOK
    <3>7. TypeOK'
      BY <2>2, <2>3, <3>5, <3>6 DEF TypeOK
    <3> QED
      BY <2>3, <3>4, <3>5, <3>7
  <2>6. CASE ~BecomesVisited(b, dVisits) /\ ~BecomesUnvisited(b, dVisits)
    <3>1. Visited' = Visited
      BY <2>1, <2>6 DEF BecomesVisited, BecomesUnvisited, Visited, TypeOK
    <3>2. UNCHANGED <<numberOfVisitedEntries_, binSequence_>>
      BY <2>1, <2>6 DEF VisitedEntriesAfter, BinSequenceAfter
    <3>3. UntriedExactlyOnce' /\ VisitedEntriesExact'
      BY <3>1, <3>2 DEF UntriedExactlyOnce, VisitedEntriesExact
    <3>4. TypeOK'
      BY <2>1, <2>2, <2>3, <3>2 DEF TypeOK
    <3> QED
      BY <2>3, <3>3, <3>4
  <2> QED
    BY <2>4, <2>5, <2>6
<1> QED
  BY <1>1, <1>2

(* An update touches the counts of its own entry only. *)
LEMMA UpdateIsLocal ==
    ASSUME TypeOK, NEW b \in Bins, NEW dVisits \in Int, NEW dQ \in Int,
           Update(b, dVisits, dQ)
    PROVE  /\ visitCount_' = [visitCount_ EXCEPT ![b] = @ + dVisits]
           /\ totalQValue_' = [totalQValue_ EXCEPT ![b] = @ + dQ]
           /\ \A c \in Bins \ {b} : meanQValue_'[c] = meanQValue_[c]
<1>1. CASE dVisits = 0 /\ dQ = 0
  BY <1>1 DEF Update, entryVars, TypeOK
<1>2. CASE ~(dVisits = 0 /\ dQ = 0)
  BY <1>2 DEF Update, TypeOK
<1> QED
  BY <1>1, <1>2

(* The visits are those of one entry and those of all the others.           *)
LEMMA VisitsOfOneEntry ==
    ASSUME NEW count \in [Bins -> 0..MaxVisits], NEW b \in Bins,
           NEW rest, rest = {v \in VisitsOf(count) : v[1] # b}
    PROVE  /\ IsFiniteSet(rest)
           /\ Cardinality(VisitsOf(count)) = Cardinality(rest) + count[b]
<1> DEFINE own == {b} \X (1..count[b])
<1>1. IsFiniteSet(1..MaxVisits)
  BY BoundsAssumption, FS_Interval
<1>2. IsFiniteSet(Bins \X (1..MaxVisits))
  BY <1>1, BinsAssumption, FS_Product
<1>3. IsFiniteSet(rest)
  <2>1. rest \in SUBSET (Bins \X (1..MaxVisits))
    BY DEF VisitsOf
  <2> QED
    BY <1>2, <2>1, FS_Subset
<1>4. IsFiniteSet(own) /\ Cardinality(own) = count[b]
  <2>1. count[b] \in Nat
    BY BoundsAssumption
  <2>2. IsFiniteSet(1..count[b]) /\ Cardinality(1..count[b]) = count[b]
    BY <2>1, FS_Interval
  <2>3. IsFiniteSet({b}) /\ Cardinality({b}) = 1
    BY FS_Singleton
  <2>4. IsFiniteSet(own) /\ Cardinality(own) = 1 * count[b]
    BY <2>2, <2>3, FS_Product
  <2> QED
    BY <2>1, <2>4
<1>5. VisitsOf(count) = rest \cup own
  BY BoundsAssumption DEF VisitsOf
<1>6. rest \cap own = {}
  OBVIOUS
<1> HIDE DEF own
<1>7. Cardinality(VisitsOf(count))
        = Cardinality(rest) + Cardinality(own) - Cardinality({})
  BY <1>3, <1>4, <1>5, <1>6, FS_Union
<1>8. Cardinality({}) = 0 /\ Cardinality(rest) \in Nat /\ count[b] \in Nat
  BY <1>3, FS_EmptySet, FS_CardinalityType, BoundsAssumption
<1> QED
  BY <1>3, <1>4, <1>7, <1>8

(* The total moves by what the entry's count moves by, whatever that is.    *)
LEMMA UpdateKeepsTotal ==
    ASSUME TypeOK, VisitsBounded, TotalVisitsExact,
           NEW b \in Bins, NEW dVisits \in Int, NEW dQ \in Int,
           visitCount_[b] + dVisits \in 0..MaxVisits,
           Update(b, dVisits, dQ)
    PROVE  VisitsBounded' /\ TotalVisitsExact'
<1>1. visitCount_' = [visitCount_ EXCEPT ![b] = @ + dVisits]
  BY UpdateIsLocal
<1>2. visitCount_' \in [Bins -> 0..MaxVisits]
  BY <1>1 DEF VisitsBounded
<1>3. totalVisitCount_' = totalVisitCount_ + dVisits
  BY DEF Update, entryVars, TypeOK
<1> DEFINE rest == {v \in VisitsOf(visitCount_) : v[1] # b}
<1>4. rest = {v \in VisitsOf(visitCount_') : v[1] # b}
  BY <1>1, <1>2 DEF VisitsOf, VisitsBounded
<1>5. /\ IsFiniteSet(rest)
      /\ Cardinality(VisitsOf(visitCount_)) = Cardinality(rest) + visitCount_[b]
  BY VisitsOfOneEntry DEF VisitsBounded
<1>6. Cardinality(VisitsOf(visitCount_')) = Cardinality(rest) + visitCount_'[b]
  BY <1>2, <1>4, VisitsOfOneEntry
<1> HIDE DEF rest
<1>7. Cardinality(rest) \in Nat
  BY <1>5, FS_CardinalityType
<1>8. Cardinality(VisitsOf(visitCount_')) = totalVisitCount_'
  BY <1>1, <1>3, <1>5, <1>6, <1>7 DEF TotalVisitsExact, TypeOK
<1> QED
  BY <1>2, <1>8 DEF VisitsBounded, TotalVisitsExact

(* A count on an entry that has an action node, and leaves it its node.     *)
LEMMA CountedStep ==
    ASSUME IInv, NEW b \in childNode_, NEW dVisits \in Int, NEW dQ \in Int,
           visitCount_[b] + dVisits \in 0..MaxVisits,
           Update(b, dVisits, dQ),
           UNCHANGED <<childNode_, nChildren_>>,
           pending' \in {pending, NoBin}
    PROVE  IInv'
<1>1. b \in LegalBins /\ b \in Bins
  BY BinsAssumption DEF IInv, OnlyLegalBins
<1>2. Bookkeeping'
  <2>1. /\ childNode_' \subseteq Bins
        /\ nChildren_' \in Nat
        /\ pending' \in Bins \cup {NoBin}
    BY DEF IInv, TypeOK
  <2> QED
    BY <1>1, <2>1, BoundsAssumption, UpdateKeepsBookkeeping DEF IInv, Bookkeeping
<1>3. ChildlessIsPristine'
  BY <1>1, UpdateIsLocal DEF IInv, TypeOK, ChildlessIsPristine
<1>4. OnlyLegalBins'
  BY DEF IInv, OnlyLegalBins
<1>5. VisitsBounded' /\ TotalVisitsExact'
  BY <1>1, UpdateKeepsTotal DEF IInv
<1> QED
  BY <1>2, <1>3, <1>4, <1>5 DEF IInv, Bookkeeping

-----------------------------------------------------------------------------
(* The invariant. *)

LEMMA InitEstablishesIInv == Init => IInv
<1> SUFFICES ASSUME Init PROVE IInv
  OBVIOUS
<1> USE DEF Init
<1>1. Visited = {}
  BY DEF Visited
<1>2. binSequence_ \in Seq(Bins)
  <2>1. Cardinality(LegalBins) \in Nat
    BY BinsAssumption, FS_Subset, FS_CardinalityType
  <2> QED
    BY <2>1, BinsAssumption
<1>3. TypeOK
  BY <1>2 DEF TypeOK
<1>4. UntriedExactlyOnce
  BY <1>1 DEF UntriedExactlyOnce
<1>5. VisitedEntriesExact
  BY <1>1, FS_EmptySet DEF VisitedEntriesExact
<1>6. ChildlessIsPristine /\ MeanIsCurrent /\ OnlyLegalBins
  BY DEF ChildlessIsPristine, MeanIsCurrent, Mean, OnlyLegalBins
<1>7. VisitsBounded
  BY BoundsAssumption DEF VisitsBounded
<1>8. TotalVisitsExact
  <2>1. VisitsOf(visitCount_) = {}
    BY DEF VisitsOf
  <2> QED
    BY <2>1, FS_EmptySet DEF TotalVisitsExact
<1> QED
  BY <1>3, <1>4, <1>5, <1>6, <1>7, <1>8 DEF IInv

LEMMA NextPreservesIInv == IInv /\ [Next]_vars => IInv'
<1> SUFFICES ASSUME IInv, [Next]_vars PROVE IInv'
  OBVIOUS
<1>1. ASSUME NEW b \in LegalBins, TakeStep(b) PROVE IInv'
  <2>1. TypeOK'
    BY <1>1, BinsAssumption DEF TakeStep, IInv, TypeOK, entryVars
  <2>2. Visited' = Visited
    BY <1>1 DEF TakeStep, entryVars, Visited
  <2>3. /\ UntriedExactlyOnce' /\ VisitedEntriesExact' /\ MeanIsCurrent'
        /\ VisitsBounded' /\ TotalVisitsExact'
    BY <1>1, <2>2 DEF TakeStep, entryVars, IInv, UntriedExactlyOnce,
                      VisitedEntriesExact, MeanIsCurrent, VisitsBounded,
                      TotalVisitsExact
  <2>4. ChildlessIsPristine' /\ OnlyLegalBins'
    BY <1>1 DEF TakeStep, entryVars, IInv, ChildlessIsPristine, OnlyLegalBins
  <2> QED
    BY <2>1, <2>3, <2>4 DEF IInv
<1>2. CASE UcbStep
  <2>1. CASE binSequence_ # <<>> /\ TakeStep(Head(binSequence_))
    <3>1. Head(binSequence_) \in ToSet(binSequence_)
      BY <2>1 DEF IInv, TypeOK, ToSet
    <3>2. Head(binSequence_) \in LegalBins
      BY <3>1 DEF IInv, UntriedExactlyOnce
    <3> QED
      BY <2>1, <3>2, <1>1
  <2>2. CASE \E b \in LegalBins : visitCount_[b] > 0 /\ TakeStep(b)
    BY <2>2, <1>1
  <2> QED
    BY <1>2, <2>1, <2>2 DEF UcbStep
<1>3. CASE RolloutStep
  BY <1>3, <1>1 DEF RolloutStep
<1>4. CASE AbandonSearch
  BY <1>4 DEF AbandonSearch, entryVars, IInv, TypeOK, OnlyLegalBins, UntriedExactlyOnce,
              VisitedEntriesExact, ChildlessIsPristine, MeanIsCurrent, Visited,
              VisitsBounded, TotalVisitsExact
<1>5. ASSUME NEW b \in Bins, FinishSearch(b) PROVE IInv'
  <2>1. PICK dQ \in QDeltas : WithinBounds(b, 1, dQ) /\ Update(b, 1, dQ)
    BY <1>5 DEF FinishSearch
  <2>2. b \in childNode_
    BY <1>5, BinsAssumption DEF FinishSearch, IInv, OnlyLegalBins
  <2>3. visitCount_[b] + 1 \in 0..MaxVisits
    BY <1>5, <2>1, BoundsAssumption DEF IInv, TypeOK, WithinBounds
  <2> QED
    BY <1>5, <2>1, <2>2, <2>3, QAssumption, CountedStep DEF FinishSearch
<1>6. ASSUME NEW b \in Bins, NegateSequence(b) PROVE IInv'
  <2>1. PICK dQ \in QDeltas : Update(b, -1, dQ)
    BY <1>6 DEF NegateSequence
  <2>2. b \in childNode_
    BY <1>6 DEF NegateSequence, IInv, ChildlessIsPristine, TypeOK
  <2>3. visitCount_[b] + -1 \in 0..MaxVisits
    BY <1>6, BoundsAssumption DEF NegateSequence, IInv, VisitsBounded
  <2> QED
    BY <1>6, <2>1, <2>2, <2>3, QAssumption, CountedStep DEF NegateSequence
<1>7. ASSUME NEW b \in Bins, BackUpEstimate(b) PROVE IInv'
  <2>1. PICK dQ \in QDeltas : Update(b, 0, dQ)
    BY <1>7 DEF BackUpEstimate
  <2>2. b \in childNode_ /\ visitCount_[b] + 0 \in 0..MaxVisits
    BY <1>7, BoundsAssumption DEF BackUpEstimate, IInv, VisitsBounded
  <2> QED
    BY <1>7, <2>1, <2>2, QAssumption, CountedStep DEF BackUpEstimate
<1>8. ASSUME NEW b \in Bins, DeleteChild(b) PROVE IInv'
  <2> DEFINE dVisits == -visitCount_[b]
             dQ == -totalQValue_[b]
  <2>1. /\ Update(b, dVisits, dQ)
        /\ b \in childNode_ /\ b \in LegalBins
        /\ childNode_' = childNode_ \ {b}
        /\ UNCHANGED <<nChildren_, pending>>
        /\ pending = NoBin
    BY <1>8 DEF DeleteChild, IInv, OnlyLegalBins
  <2>2. dVisits \in Int /\ dQ \in Int /\ visitCount_[b] + dVisits = 0
        /\ totalQValue_[b] + dQ = 0
    BY DEF IInv, TypeOK
  <2> HIDE DEF dVisits, dQ
  <2>3. Bookkeeping'
    <3>1. /\ childNode_' \subseteq Bins
          /\ nChildren_' \in Nat
          /\ pending' \in Bins \cup {NoBin}
      BY <2>1 DEF IInv, TypeOK
    <3> QED
      BY <2>1, <2>2, <3>1, UpdateKeepsBookkeeping DEF IInv, Bookkeeping
  <2>4. /\ visitCount_' = [visitCount_ EXCEPT ![b] = @ + dVisits]
        /\ totalQValue_' = [totalQValue_ EXCEPT ![b] = @ + dQ]
        /\ \A c \in Bins \ {b} : meanQValue_'[c] = meanQValue_[c]
    BY <2>1, <2>2, UpdateIsLocal DEF IInv
  <2>5. visitCount_'[b] = 0 /\ totalQValue_'[b] = 0
    BY <2>2, <2>4 DEF IInv, TypeOK
  <2>6. meanQValue_'[b] = NoMean
    <3>1. meanQValue_'[b] = Mean(totalQValue_'[b], visitCount_'[b])
      BY <2>3 DEF Bookkeeping, MeanIsCurrent
    <3>2. Mean(0, 0) = NoMean
      BY DEF Mean
    <3> QED
      BY <2>5, <3>1, <3>2
  <2>7. ChildlessIsPristine'
    BY <2>1, <2>4, <2>5, <2>6 DEF IInv, TypeOK, ChildlessIsPristine
  <2>8. OnlyLegalBins'
    BY <2>1 DEF IInv, OnlyLegalBins
  <2>9. VisitsBounded' /\ TotalVisitsExact'
    <3>1. visitCount_[b] + dVisits \in 0..MaxVisits
      BY <2>2, BoundsAssumption
    <3> QED
      BY <2>1, <2>2, <3>1, UpdateKeepsTotal DEF IInv
  <2> QED
    BY <2>3, <2>7, <2>8, <2>9 DEF IInv, Bookkeeping
<1>9. ASSUME NEW b \in Bins, RecountSequence(b) PROVE IInv'
  <2>1. PICK dQ \in QDeltas : WithinBounds(b, 1, dQ) /\ Update(b, 1, dQ)
    BY <1>9 DEF RecountSequence
  <2>2. b \in childNode_ /\ visitCount_[b] + 1 \in 0..MaxVisits
    BY <1>9, <2>1, BoundsAssumption DEF RecountSequence, IInv, TypeOK, WithinBounds
  <2> QED
    BY <1>9, <2>1, <2>2, QAssumption, CountedStep DEF RecountSequence
<1>10. CASE UNCHANGED vars
  BY <1>10 DEF vars, entryVars, IInv, TypeOK, OnlyLegalBins, UntriedExactlyOnce,
              VisitedEntriesExact, ChildlessIsPristine, MeanIsCurrent, Visited,
              VisitsBounded, TotalVisitsExact
<1> QED
  BY <1>2, <1>3, <1>4, <1>5, <1>6, <1>7, <1>8, <1>9, <1>10 DEF Next

THEOREM IInvHolds == Spec => []IInv
<1> QED
  BY InitEstablishesIInv, NextPreservesIInv, PTL DEF Spec

(* The state of the mapping is well-typed: in particular no sequence of     *)
(* searches, negative backups and deletions makes a visit count negative.   *)
THEOREM TypeCorrect == Spec => []TypeOK
<1>1. IInv => TypeOK
  BY DEF IInv
<1> QED
  BY <1>1, IInvHolds, PTL

(* For every number of bins: getNextActionToTry offers each legal bin with  *)
(* no counted visit, once, and no other bin.                                *)
THEOREM UntriedBinsAreQueued == Spec => []UntriedExactlyOnce
<1>1. IInv => UntriedExactlyOnce
  BY DEF IInv
<1> QED
  BY <1>1, IInvHolds, PTL

(* For every number of bins: the counter of visited entries is the number   *)
(* of entries that getVisitedEntries returns, and the total the number of   *)
(* visits they hold, whatever was counted, undone or deleted.               *)
THEOREM CountersAreExact == Spec => []CountersExact
<1>1. IInv => CountersExact
  BY DEF IInv, CountersExact
<1> QED
  BY <1>1, IInvHolds, PTL

(* For every number of bins: an entry without an action node carries no     *)
(* visits, no value and no mean into the node created below it next.        *)
THEOREM DeletedEntriesArePristine == Spec => []ChildlessIsPristine
<1>1. IInv => ChildlessIsPristine
  BY DEF IInv
<1> QED
  BY <1>1, IInvHolds, PTL

-----------------------------------------------------------------------------
(* Saving: the entries are put in order. *)

(* Comparing quotients by cross-multiplication is transitive. *)
LEMMA QuotientsOrdered ==
    ASSUME NEW a \in Int, NEW b \in Int, NEW c \in Int,
           NEW p \in Nat \ {0}, NEW q \in Nat \ {0}, NEW r \in Nat \ {0},
           a * q >= b * p, b * r >= c * q
    PROVE  /\ a * r >= c * p
           /\ a * q > b * p \/ b * r > c * q => a * r > c * p
OBVIOUS

(* A mean is that of somebody's visits, or there is none. *)
LEMMA MeanOfVisits ==
    ASSUME IInv, NEW b \in Bins
    PROVE  /\ b \in Visited <=> meanQValue_[b] # NoMean
           /\ b \in Visited => /\ meanQValue_[b][1] \in Int
                               /\ meanQValue_[b][2] \in Nat \ {0}
<1>1. /\ visitCount_[b] \in Nat /\ totalQValue_[b] \in Int
      /\ meanQValue_[b] = Mean(totalQValue_[b], visitCount_[b])
  BY DEF IInv, TypeOK, MeanIsCurrent
<1>2. CASE visitCount_[b] > 0
  <2>1. meanQValue_[b] = <<totalQValue_[b], visitCount_[b]>>
    BY <1>1, <1>2 DEF Mean
  <2>2. <<totalQValue_[b], visitCount_[b]>> \in Int \X Int
    BY <1>1
  <2>3. meanQValue_[b] # NoMean
    BY <2>1, <2>2, QAssumption
  <2> QED
    BY <1>1, <1>2, <2>1, <2>3 DEF Visited
<1>3. CASE visitCount_[b] = 0
  BY <1>1, <1>3 DEF Mean, Visited
<1> QED
  BY <1>1, <1>2, <1>3

(* The keys of entriesByValue are ordered strictly and totally. *)
LEMMA HigherMeanOrders ==
    ASSUME IInv, NEW b \in Bins, NEW c \in Bins
    PROVE  /\ ~HigherMean(b, b)
           /\ b # c => HigherMean(b, c) \/ HigherMean(c, b)
           /\ \A d \in Bins : HigherMean(b, c) /\ HigherMean(c, d) => HigherMean(b, d)
           /\ b \in Visited /\ c \notin Visited => HigherMean(b, c)
<1> DEFINE Key(e) == meanQValue_[e]
<1>1. \A e \in Bins : /\ e \in Nat
                      /\ e \in Visited <=> Key(e) # NoMean
                      /\ e \in Visited => Key(e)[1] \in Int /\ Key(e)[2] \in Nat \ {0}
  BY MeanOfVisits, IndicesAssumption
<1>2. \A e, f \in Bins :
         HigherMean(e, f) <=>
            IF Key(f) = NoMean THEN Key(e) # NoMean \/ e > f
            ELSE /\ Key(e) # NoMean
                 /\ \/ Key(e)[1] * Key(f)[2] > Key(f)[1] * Key(e)[2]
                    \/ Key(e)[1] * Key(f)[2] = Key(f)[1] * Key(e)[2] /\ e > f
  BY DEF HigherMean
<1> HIDE DEF Key
<1>3. ~HigherMean(b, b)
  BY <1>1, <1>2
<1>4. b # c => HigherMean(b, c) \/ HigherMean(c, b)
  <2>1. CASE b \in Visited /\ c \in Visited
    <3> DEFINE x == Key(b)[1] * Key(c)[2]
               y == Key(c)[1] * Key(b)[2]
    <3>1. x \in Int /\ y \in Int /\ b \in Nat /\ c \in Nat
      BY <1>1, <2>1
    <3>2. /\ HigherMean(b, c) <=> x > y \/ (x = y /\ b > c)
          /\ HigherMean(c, b) <=> y > x \/ (y = x /\ c > b)
      BY <1>1, <1>2, <2>1
    <3> HIDE DEF x, y
    <3> QED
      BY <3>1, <3>2
  <2> QED
    BY <1>1, <1>2, <2>1
<1>5. ASSUME NEW d \in Bins, HigherMean(b, c), HigherMean(c, d) PROVE HigherMean(b, d)
  <2>1. CASE d \notin Visited
    BY <1>1, <1>2, <1>5, <2>1
  <2>2. CASE d \in Visited
    <3>1. c \in Visited /\ b \in Visited
      BY <1>1, <1>2, <1>5, <2>2
    <3> DEFINE m == Key(b)[1]
               n == Key(c)[1]
               o == Key(d)[1]
               p == Key(b)[2]
               q == Key(c)[2]
               r == Key(d)[2]
    <3>2. /\ m \in Int /\ n \in Int /\ o \in Int
          /\ p \in Nat \ {0} /\ q \in Nat \ {0} /\ r \in Nat \ {0}
          /\ b \in Nat /\ c \in Nat /\ d \in Nat
      BY <1>1, <2>2, <3>1
    <3>3. /\ m * q > n * p \/ (m * q = n * p /\ b > c)
          /\ n * r > o * q \/ (n * r = o * q /\ c > d)
          /\ HigherMean(b, d) <=> m * r > o * p \/ (m * r = o * p /\ b > d)
      BY <1>1, <1>2, <1>5, <2>2, <3>1
    <3> HIDE DEF m, n, o, p, q, r
    <3>4. /\ m * r >= o * p
          /\ m * q > n * p \/ n * r > o * q => m * r > o * p
      BY <3>2, <3>3, QuotientsOrdered
    <3> QED
      BY <3>2, <3>3, <3>4
  <2> QED
    BY <2>1, <2>2
<1>6. b \in Visited /\ c \notin Visited => HigherMean(b, c)
  BY <1>1, <1>2
<1> QED
  BY <1>3, <1>4, <1>5, <1>6

(* How many entries are read before a saved one. *)
Above(b) == {c \in Saved : HigherMean(c, b)}

LEMMA SavedFinite ==
    ASSUME IInv
    PROVE  /\ IsFiniteSet(Saved) /\ Cardinality(Saved) \in Nat
           /\ \A T \in SUBSET Saved : IsFiniteSet(T) /\ Cardinality(T) \in Nat
           /\ Saved \subseteq Bins /\ Visited \subseteq Saved
<1>1. Saved \in SUBSET Bins /\ Visited \subseteq Saved
  BY DEF Saved, Visited
<1>2. IsFiniteSet(Saved)
  BY <1>1, BinsAssumption, FS_Subset
<1>3. \A T \in SUBSET Saved : IsFiniteSet(T)
  BY <1>2, FS_Subset
<1> QED
  BY <1>1, <1>2, <1>3, FS_CardinalityType

(* An entry of a higher mean has fewer above it. *)
LEMMA HigherHasFewerAbove ==
    ASSUME IInv, NEW b \in Saved, NEW c \in Saved, HigherMean(b, c)
    PROVE  Cardinality(Above(b)) < Cardinality(Above(c))
<1> DEFINE A == Above(b)
           C == Above(c)
<1>1. b \in Bins /\ c \in Bins /\ Saved \subseteq Bins
  BY SavedFinite
<1>2. A \subseteq C
  BY <1>1, HigherMeanOrders DEF Above
<1>3. b \in C /\ b \notin A
  BY <1>1, HigherMeanOrders DEF Above
<1>4. IsFiniteSet(A) /\ IsFiniteSet(C) /\ Cardinality(A) \in Nat /\ Cardinality(C) \in Nat
  <2>1. A \in SUBSET Saved /\ C \in SUBSET Saved
    BY DEF Above
  <2> QED
    BY <2>1, SavedFinite
<1> HIDE DEF A, C
<1>5. Cardinality(A) <= Cardinality(C) /\ (Cardinality(C) = Cardinality(A) => C = A)
  BY <1>2, <1>4, FS_Subset
<1>6. Cardinality(A) < Cardinality(C)
  BY <1>2, <1>3, <1>4, <1>5
<1> QED
  BY <1>6 DEF A, C

(* The saved entries can be put in order, which is what std::multimap does. *)
IsOrder(order) ==
    /\ order \in [1..Cardinality(Saved) -> Saved]
    /\ \A i, j \in DOMAIN order : i < j => HigherMean(order[i], order[j])

LEMMA OrderExists ==
    ASSUME IInv
    PROVE  IsOrder(SavedInOrder)
<1> DEFINE n == Cardinality(Saved)
           rank == [b \in Saved |-> Cardinality(Above(b)) + 1]
<1>1. n \in Nat /\ IsFiniteSet(Saved) /\ Saved \subseteq Bins
  BY SavedFinite
<1>2. ASSUME NEW b \in Saved PROVE Cardinality(Above(b)) + 1 \in 1..n
  <2> DEFINE A == Above(b)
  <2>1. A \in SUBSET Saved /\ b \notin A
    BY <1>1, HigherMeanOrders DEF Above
  <2> HIDE DEF A
  <2>2. Cardinality(A) \in Nat /\ Cardinality(A) <= n /\ Cardinality(A) # n
    BY <1>1, <2>1, FS_Subset, SavedFinite
  <2> QED
    BY <1>1, <2>2 DEF A
<1>3. \A b, c \in Saved : HigherMean(b, c) => rank[b] < rank[c]
  <2> SUFFICES ASSUME NEW b \in Saved, NEW c \in Saved, HigherMean(b, c)
               PROVE  rank[b] < rank[c]
    OBVIOUS
  <2> DEFINE k == Cardinality(Above(b))
             l == Cardinality(Above(c))
  <2>1. k < l
    BY HigherHasFewerAbove
  <2>2. k + 1 \in 1..n /\ l + 1 \in 1..n /\ rank[b] = k + 1 /\ rank[c] = l + 1
    BY <1>2
  <2>3. k \in Nat /\ l \in Nat
    <3>1. Above(b) \in SUBSET Saved /\ Above(c) \in SUBSET Saved
      BY DEF Above
    <3> QED
      BY <3>1, SavedFinite
  <2> HIDE DEF k, l, rank
  <2> QED
    BY <2>1, <2>2, <2>3
<1>4. rank \in [Saved -> 1..n]
  BY <1>2
<1> HIDE DEF rank
<1>5. \A b, c \in Saved : rank[b] = rank[c] => b = c
  <2>1. \A b \in Saved : rank[b] \in Int
    BY <1>1, <1>4
  <2>2. \A b, c \in Saved : b # c => HigherMean(b, c) \/ HigherMean(c, b)
    BY <1>1, HigherMeanOrders
  <2> QED
    BY <1>3, <2>1, <2>2
<1>6. rank \in Surjection(Saved, 1..n)
  <2>1. IsFiniteSet(1..n) /\ Cardinality(1..n) = n
    BY <1>1, FS_Interval
  <2>2. rank \in Injection(Saved, 1..n)
    BY <1>4, <1>5 DEF Injection, IsInjective
  <2> QED
    BY <2>1, <2>2, FS_Injection
<1>7. \A i \in 1..n : \E b \in Saved : rank[b] = i
  BY <1>6 DEF Surjection
<1> DEFINE order == [i \in 1..n |-> CHOOSE b \in Saved : rank[b] = i]
<1>8. \A i \in 1..n : order[i] \in Saved /\ rank[order[i]] = i
  BY <1>7
<1>9. order \in [1..n -> Saved]
  BY <1>8
<1> HIDE DEF order
<1>10. ASSUME NEW i \in 1..n, NEW j \in 1..n, i < j PROVE HigherMean(order[i], order[j])
  <2>1. /\ order[i] \in Saved /\ order[j] \in Saved
        /\ rank[order[i]] = i /\ rank[order[j]] = j
    BY <1>8
  <2>2. ~HigherMean(order[j], order[i])
    <3>1. ~(j < i)
      BY <1>1, <1>10
    <3> QED
      BY <1>3, <2>1, <3>1
  <2>3. order[i] # order[j]
    BY <1>1, <1>10, <2>1
  <2> QED
    BY <1>1, <2>1, <2>2, <2>3, HigherMeanOrders
<1>11. \A i, j \in DOMAIN order : i < j => HigherMean(order[i], order[j])
  BY <1>9, <1>10
<1>12. \E s \in [1..n -> Saved] : \A i, j \in DOMAIN s : i < j => HigherMean(s[i], s[j])
  BY <1>9, <1>11
<1> QED
  BY <1>12 DEF SavedInOrder, IsOrder

(* Each saved entry has its place, and those somebody visited come first. *)
LEMMA VisitedComeFirst ==
    ASSUME IInv, NEW s, IsOrder(s)
    PROVE  /\ Cardinality(Visited) \in 0..Cardinality(Saved)
           /\ {s[i] : i \in 1..Cardinality(Visited)} = Visited
<1> DEFINE n == Cardinality(Saved)
           v == Cardinality(Visited)
           T == {i \in 1..n : s[i] \in Visited}
<1>1. /\ n \in Nat /\ v \in Nat /\ v <= n /\ Saved \subseteq Bins /\ Visited \subseteq Saved
      /\ IsFiniteSet(Saved) /\ IsFiniteSet(Visited)
  BY SavedFinite, FS_Subset
<1>2. /\ s \in [1..n -> Saved]
      /\ \A i, j \in 1..n : i < j => HigherMean(s[i], s[j])
  BY DEF IsOrder
<1>3. \A i, j \in 1..n : s[i] = s[j] => i = j
  <2>1. \A i, j \in 1..n : i < j => s[i] # s[j]
    BY <1>1, <1>2, HigherMeanOrders
  <2> QED
    BY <1>1, <2>1
<1>4. \A b \in Saved : \E i \in 1..n : s[i] = b
  <2>1. IsFiniteSet(1..n) /\ Cardinality(1..n) = n
    BY <1>1, FS_Interval
  <2>2. s \in Injection(1..n, Saved)
    BY <1>2, <1>3 DEF Injection, IsInjective
  <2>3. s \in Surjection(1..n, Saved)
    BY <1>1, <2>1, <2>2, FS_Injection
  <2> QED
    BY <2>3 DEF Surjection
<1>5. IsFiniteSet(T) /\ Cardinality(T) = v
  <2> DEFINE r == [i \in T |-> s[i]]
  <2>1. r \in [T -> Visited] /\ \A i \in T : r[i] = s[i]
    OBVIOUS
  <2> HIDE DEF r
  <2>2. r \in Injection(T, Visited)
    BY <1>3, <2>1 DEF Injection, IsInjective
  <2>3. \A b \in Visited : \E i \in T : r[i] = b
    BY <1>1, <1>4, <2>1
  <2>4. r \in Surjection(T, Visited)
    BY <2>1, <2>3 DEF Surjection
  <2> HIDE DEF T
  <2> QED
    BY <1>1, <2>2, <2>4, FS_Injection
<1>6. \A i, j \in 1..n : i < j /\ j \in T => i \in T
  <2> SUFFICES ASSUME NEW i \in 1..n, NEW j \in 1..n, i < j, s[j] \in Visited,
                      s[i] \notin Visited
               PROVE  FALSE
    OBVIOUS
  <2>1. s[i] \in Bins /\ s[j] \in Bins
    BY <1>1, <1>2
  <2>2. HigherMean(s[i], s[j]) /\ HigherMean(s[j], s[i])
    BY <1>2, <2>1, HigherMeanOrders
  <2> QED
    BY <2>1, <2>2, HigherMeanOrders
<1>7. T \subseteq 1..v
  <2> SUFFICES ASSUME NEW j \in T, j > v PROVE FALSE
    BY <1>1
  <2>1. 1..j \subseteq T /\ j \in Nat
    BY <1>1, <1>6
  <2>2. IsFiniteSet(1..j) /\ Cardinality(1..j) = j
    BY <2>1, FS_Interval
  <2> HIDE DEF T, v
  <2>3. j <= v
    BY <1>5, <2>1, <2>2, FS_Subset
  <2> QED
    BY <1>1, <2>1, <2>3
<1>8. T = 1..v
  <2>1. IsFiniteSet(1..v) /\ Cardinality(1..v) = v
    BY <1>1, FS_Interval
  <2> HIDE DEF T, v
  <2> QED
    BY <1>5, <1>7, <2>1, FS_Subset
<1>9. {s[i] : i \in T} = Visited
  BY <1>1, <1>4
<1> HIDE DEF T
<1> QED
  BY <1>1, <1>8, <1>9

-----------------------------------------------------------------------------
(* The text, item by item. *)

(* A set of naturals has a least element. *)
LEMMA LeastNatural ==
    ASSUME NEW T, T \subseteq Nat, T # {}
    PROVE  \E x \in T : \A y \in T : x <= y
<1> DEFINE R == OpToRel(<, Nat)
<1>1. IsWellFoundedOn(R, Nat)
  BY NatLessThanWellFounded
<1>2. PICK x \in T : \A y \in T : ~(<<y, x>> \in R)
  <2> HIDE DEF R
  <2> QED
    BY <1>1, WFMin
<1>3. \A y \in T : ~(<<y, x>> \in R) => x <= y
  BY DEF OpToRel
<1> QED
  BY <1>2, <1>3

(* Concatenations of the first of some sequences: of one, of two, and so on. *)
Concatenations(items, n, f) ==
    /\ f = [i \in 1..n |-> f[i]]
    /\ \A i \in 1..n : f[i] = IF i = 1 THEN items[i] ELSE f[i - 1] \o items[i]

LEMMA ConcatenationsExist ==
    ASSUME NEW items, NEW n \in Nat
    PROVE  \E f : Concatenations(items, n, f)
<1> DEFINE T == {k \in Nat : ~ \E f : Concatenations(items, k, f)}
<1> SUFFICES ASSUME T # {} PROVE FALSE
  OBVIOUS
<1>1. PICK k \in T : \A j \in T : k <= j
  <2>1. T \subseteq Nat
    OBVIOUS
  <2> HIDE DEF T
  <2> QED
    BY <2>1, LeastNatural
<1>2. k \in Nat /\ ~ \E f : Concatenations(items, k, f)
  OBVIOUS
<1>3. k # 0
  <2> DEFINE e == [i \in 1..0 |-> 0]
  <2>1. Concatenations(items, 0, e)
    <3>1. e = [i \in 1..0 |-> e[i]]
      OBVIOUS
    <3> HIDE DEF e
    <3> QED
      BY <3>1 DEF Concatenations
  <2> QED
    BY <1>2, <2>1
<1>4. k - 1 \in Nat /\ k - 1 \notin T
  <2>1. k - 1 \in Nat /\ ~(k <= k - 1)
    BY <1>2, <1>3
  <2> HIDE DEF T
  <2> QED
    BY <1>1, <2>1
<1>5. PICK f : Concatenations(items, k - 1, f)
  BY <1>4
<1> HIDE DEF T
<1> DEFINE next == IF k = 1 THEN items[k] ELSE f[k - 1] \o items[k]
           g == [i \in 1..k |-> IF i = k THEN next ELSE f[i]]
<1>6. ASSUME NEW i \in 1..k
      PROVE  g[i] = IF i = 1 THEN items[i] ELSE g[i - 1] \o items[i]
  <2>1. CASE i = k
    <3>1. g[i] = next
      BY <2>1
    <3>2. i # 1 => g[i - 1] = f[i - 1]
      BY <1>2, <2>1
    <3> QED
      BY <2>1, <3>1, <3>2
  <2>2. CASE i # k
    <3>1. i \in 1..(k - 1) /\ (i # 1 => i - 1 \in 1..k /\ i - 1 # k)
      BY <1>2, <2>2
    <3>2. f[i] = IF i = 1 THEN items[i] ELSE f[i - 1] \o items[i]
      BY <1>5, <3>1 DEF Concatenations
    <3>3. g[i] = f[i] /\ (i # 1 => g[i - 1] = f[i - 1])
      BY <2>2, <3>1
    <3> QED
      BY <3>2, <3>3
  <2> QED
    BY <2>1, <2>2
<1>7. Concatenations(items, k, g)
  <2>1. g = [i \in 1..k |-> g[i]]
    OBVIOUS
  <2> HIDE DEF g
  <2> QED
    BY <1>6, <2>1 DEF Concatenations
<1> QED
  BY <1>2, <1>7

(* FlattenSeq is the last of them. *)
LEMMA FlattenIsConcatenation ==
    ASSUME NEW items, NEW n \in Nat, Len(items) = n, n # 0
    PROVE  \E f : Concatenations(items, n, f) /\ FlattenSeq(items) = f[n]
<1> DEFINE x == CHOOSE f : f = [i \in 1..n |-> IF i = 1 THEN items[i] ELSE f[i - 1] \o items[i]]
<1>1. \E f : f = [i \in 1..n |-> IF i = 1 THEN items[i] ELSE f[i - 1] \o items[i]]
  <2>1. PICK f : Concatenations(items, n, f)
    BY ConcatenationsExist
  <2>2. f = [i \in 1..n |-> f[i]]
        /\ \A i \in 1..n : f[i] = IF i = 1 THEN items[i] ELSE f[i - 1] \o items[i]
    BY <2>1 DEF Concatenations
  <2>3. f = [i \in 1..n |-> IF i = 1 THEN items[i] ELSE f[i - 1] \o items[i]]
    BY <2>2
  <2> QED
    BY <2>3
<1>2. x = [i \in 1..n |-> IF i = 1 THEN items[i] ELSE x[i - 1] \o items[i]]
  BY <1>1
<1>3. FlattenSeq(items) = x[n]
  BY DEF FlattenSeq
<1> HIDE DEF x
<1>4. Concatenations(items, n, x)
  <2>1. \A i \in 1..n : x[i] = IF i = 1 THEN items[i] ELSE x[i - 1] \o items[i]
    BY <1>2
  <2>2. x = [i \in 1..n |-> x[i]]
    BY <1>2
  <2> QED
    BY <2>1, <2>2 DEF Concatenations
<1> QED
  BY <1>3, <1>4

(* A text is what it is from each item on. *)
TextOf(S, items, n, text) ==
    /\ text \in [1..(n + 1) -> Seq(S)]
    /\ text[n + 1] = <<>>
    /\ \A k \in 1..n : text[k] = items[k] \o text[k + 1]

LEMMA TextExists ==
    ASSUME NEW S, NEW n \in Nat, NEW items \in [1..n -> Seq(S)]
    PROVE  \E text : TextOf(S, items, n, text) /\ FlattenSeq(items) = text[1]
<1>0. \A a, b, c \in Seq(S) : (a \o b) \o c = a \o (b \o c)
  BY ConcatAssociative
<1>1. Len(items) = n
  OBVIOUS
<1>2. CASE n = 0
  <2>1. FlattenSeq(items) = <<>>
    <3>1. FlattenSeq(items) = items
      BY <1>1, <1>2 DEF FlattenSeq
    <3>2. items \in Seq(Seq(S)) /\ Len(items) = 0
      BY <1>1, <1>2
    <3> QED
      BY <3>1, <3>2
  <2> DEFINE text == [k \in 1..1 |-> <<>>]
  <2>2. text \in [1..1 -> Seq(S)] /\ text[1] = <<>>
    OBVIOUS
  <2> HIDE DEF text
  <2>3. TextOf(S, items, 0, text)
    BY <2>2 DEF TextOf
  <2> QED
    BY <1>2, <2>1, <2>2, <2>3
<1>3. CASE n # 0
  <2>1. PICK f : Concatenations(items, n, f) /\ FlattenSeq(items) = f[n]
    BY <1>1, <1>3, FlattenIsConcatenation
  <2>2. /\ f[1] = items[1]
        /\ \A i \in 1..n : i # 1 => f[i] = f[i - 1] \o items[i]
    <3>1. \A i \in 1..n : f[i] = IF i = 1 THEN items[i] ELSE f[i - 1] \o items[i]
      BY <2>1 DEF Concatenations
    <3>2. 1 \in 1..n
      BY <1>3
    <3> QED
      BY <3>1, <3>2
  <2> DEFINE T == {k \in 1..n : ~ \E text : TextOf(S, items, k, text) /\ text[1] = f[k]}
  <2>3. T = {}
    <3> SUFFICES ASSUME T # {} PROVE FALSE
      OBVIOUS
    <3>1. PICK k \in T : \A j \in T : k <= j
      <4>1. T \subseteq Nat
        OBVIOUS
      <4> HIDE DEF T
      <4> QED
        BY <4>1, LeastNatural
    <3>2. k \in 1..n /\ ~ \E text : TextOf(S, items, k, text) /\ text[1] = f[k]
      OBVIOUS
    <3>3. items[k] \in Seq(S) /\ items[1] \in Seq(S)
      BY <3>2
    <3>4. k # 1
      <4> DEFINE t == [i \in 1..2 |-> IF i = 1 THEN items[1] ELSE <<>>]
      <4>1. t \in [1..2 -> Seq(S)] /\ t[1] = items[1] /\ t[2] = <<>>
        BY <3>3
      <4> HIDE DEF t
      <4>2. t[1] = items[1] \o t[2]
        BY <3>3, <4>1, ConcatEmptySeq
      <4>3. TextOf(S, items, 1, t)
        BY <4>1, <4>2 DEF TextOf
      <4> QED
        BY <2>2, <3>2, <4>1, <4>3
    <3>5. k - 1 \in 1..n /\ k - 1 \notin T
      <4>1. k - 1 \in 1..n /\ ~(k <= k - 1)
        BY <3>2, <3>4
      <4> HIDE DEF T
      <4> QED
        BY <3>1, <4>1
    <3>6. PICK t : TextOf(S, items, k - 1, t) /\ t[1] = f[k - 1]
      BY <3>5
    <3> HIDE DEF T
    <3>7. /\ t \in [1..k -> Seq(S)] /\ t[k] = <<>>
          /\ \A i \in 1..(k - 1) : t[i] = items[i] \o t[i + 1]
      <4>1. (k - 1) + 1 = k
        BY <3>2
      <4> QED
        BY <3>6, <4>1 DEF TextOf
    <3> DEFINE u == [i \in 1..(k + 1) |-> IF i = k + 1 THEN <<>> ELSE t[i] \o items[k]]
    <3>8. /\ u[k + 1] = <<>>
          /\ \A i \in 1..k : u[i] = t[i] \o items[k]
      BY <3>2
    <3>9. u \in [1..(k + 1) -> Seq(S)]
      <4>1. \A i \in 1..(k + 1) : i # k + 1 => i \in 1..k
        BY <3>2
      <4>2. \A i \in 1..k : t[i] \o items[k] \in Seq(S)
        BY <3>3, <3>7, ConcatProperties
      <4>3. <<>> \in Seq(S)
        OBVIOUS
      <4> QED
        BY <4>1, <4>2, <4>3
    <3> HIDE DEF u
    <3>10. ASSUME NEW i \in 1..k PROVE u[i] = items[i] \o u[i + 1]
      <4>1. CASE i = k
        <5>1. u[i] = items[k]
          BY <3>3, <3>7, <3>8, <4>1, ConcatEmptySeq
        <5>2. u[i + 1] = <<>>
          BY <3>8, <4>1
        <5> QED
          BY <3>3, <4>1, <5>1, <5>2, ConcatEmptySeq
      <4>2. CASE i # k
        <5>1. i \in 1..(k - 1) /\ i + 1 \in 1..k /\ i \in 1..n
          BY <3>2, <4>2
        <5>2. u[i] = t[i] \o items[k] /\ t[i] = items[i] \o t[i + 1]
              /\ u[i + 1] = t[i + 1] \o items[k]
          BY <3>7, <3>8, <5>1
        <5>3. items[i] \in Seq(S) /\ t[i + 1] \in Seq(S)
          BY <3>7, <5>1
        <5>4. (items[i] \o t[i + 1]) \o items[k] = items[i] \o (t[i + 1] \o items[k])
          <6>1. PICK a \in Seq(S), b \in Seq(S), c \in Seq(S) :
                   a = items[i] /\ b = t[i + 1] /\ c = items[k]
            BY <3>3, <5>3
          <6>2. (a \o b) \o c = a \o (b \o c)
            BY <1>0
          <6> QED
            BY <6>1, <6>2
        <5>5. u[i] = (items[i] \o t[i + 1]) \o items[k]
          BY <5>2
        <5>6. items[i] \o u[i + 1] = items[i] \o (t[i + 1] \o items[k])
          BY <5>2
        <5> QED
          BY <5>4, <5>5, <5>6
      <4> QED
        BY <4>1, <4>2
    <3>11. TextOf(S, items, k, u)
      BY <3>8, <3>9, <3>10 DEF TextOf
    <3>12. u[1] = f[k]
      <4>1. 1 \in 1..k
        BY <3>2
      <4> QED
        BY <2>2, <3>2, <3>4, <3>6, <3>8, <4>1
    <3> QED
      BY <3>2, <3>11, <3>12
  <2>4. n \in 1..n
    BY <1>3
  <2> QED
    BY <2>1, <2>3, <2>4
<1> QED
  BY <1>2, <1>3

-----------------------------------------------------------------------------
(* Loading. *)

(* What a text consists of. *)
Items == {Line(b) : b \in Bins} \cup {Child(b) : b \in Bins}

(* The state of the reader. *)
Reader(rest, lines, nodes) ==
    [rest |-> rest, lines |-> lines, nodes |-> nodes, misread |-> FALSE]

(* Somebody visited an entry only if it has its node and its bin is legal.  *)
LEMMA VisitedHaveNodes ==
    ASSUME IInv, NEW b \in Visited
    PROVE  b \in Bins /\ b \in childNode_ /\ b \in LegalBins
BY DEF IInv, ChildlessIsPristine, OnlyLegalBins, Visited, TypeOK

(* One round reads the line and the child of such an entry, and no more.    *)
LEMMA RoundReadsEntry ==
    ASSUME IInv, NEW b \in Visited, NEW rest \in Seq(Items), NEW L, NEW N
    PROVE  ReadEntry(Reader(Entry(b) \o rest, L, N))
             = Reader(rest, L \cup {Line(b)}, N \cup {b})
<1> DEFINE x == Line(b)
           y == Child(b)
           r == Reader(Entry(b) \o rest, L, N)
<1>1. b \in Bins /\ b \in childNode_ /\ b \in LegalBins
  BY VisitedHaveNodes
<1>2. /\ x \in Items /\ y \in Items
      /\ "bin" \in DOMAIN x /\ "childOf" \in DOMAIN y
      /\ x.bin = b /\ x.words = Words(b)
  BY <1>1 DEF Items, Line, Child
<1>3. Words(b) = <<>>
  BY <1>1 DEF Words
<1>4. ReadsChild(x)
  BY <1>2, <1>3 DEF ReadsChild, Word
<1>5. Entry(b) = <<x, y>>
  BY <1>1 DEF Entry
<1> HIDE DEF x, y
<1>6. /\ Entry(b) \o rest \in Seq(Items)
      /\ Entry(b) \o rest # <<>>
      /\ Head(Entry(b) \o rest) = x
      /\ Tail(Entry(b) \o rest) = <<y>> \o rest
  BY <1>2, <1>5
<1>7. /\ <<y>> \o rest # <<>>
      /\ Head(<<y>> \o rest) = y
      /\ Tail(<<y>> \o rest) = rest
  BY <1>2
<1>8. /\ r.rest = Entry(b) \o rest /\ r.lines = L /\ r.nodes = N /\ r.misread = FALSE
  BY DEF Reader
<1> HIDE DEF r
<1>9. ReadEntry(r) = [r EXCEPT !.lines = L \cup {x}, !.nodes = N \cup {b}, !.rest = rest]
  BY <1>2, <1>4, <1>6, <1>7, <1>8 DEF ReadEntry
<1>10. ReadEntry(r) = Reader(rest, L \cup {x}, N \cup {b})
  BY <1>9 DEF r, Reader
<1> QED
  BY <1>10 DEF r, x

(* The reader works through the text in rounds. *)
Rounds(n, f) ==
    /\ f = [k \in 0..n |-> f[k]]
    /\ f[0] = Reader(SavedEntries, {}, {})
    /\ \A k \in 1..n : f[k] = ReadEntry(f[k - 1])

LEMMA RoundsExist ==
    ASSUME NEW n \in Nat
    PROVE  \E f : Rounds(n, f)
<1> DEFINE T == {k \in Nat : ~ \E f : Rounds(k, f)}
<1> SUFFICES ASSUME T # {} PROVE FALSE
  OBVIOUS
<1>1. PICK k \in T : \A j \in T : k <= j
  <2>1. T \subseteq Nat
    OBVIOUS
  <2> HIDE DEF T
  <2> QED
    BY <2>1, LeastNatural
<1>2. k \in Nat /\ ~ \E f : Rounds(k, f)
  OBVIOUS
<1>3. k # 0
  <2> DEFINE e == [i \in 0..0 |-> Reader(SavedEntries, {}, {})]
  <2>1. e = [i \in 0..0 |-> e[i]] /\ e[0] = Reader(SavedEntries, {}, {})
    OBVIOUS
  <2> HIDE DEF e
  <2>2. Rounds(0, e)
    BY <2>1 DEF Rounds
  <2> QED
    BY <1>2, <2>2
<1>4. k - 1 \in Nat /\ k - 1 \notin T
  <2>1. k - 1 \in Nat /\ ~(k <= k - 1)
    BY <1>2, <1>3
  <2> HIDE DEF T
  <2> QED
    BY <1>1, <2>1
<1>5. PICK f : Rounds(k - 1, f)
  BY <1>4
<1> HIDE DEF T
<1> DEFINE g == [i \in 0..k |-> IF i = k THEN ReadEntry(f[k - 1]) ELSE f[i]]
<1>6. /\ g = [i \in 0..k |-> g[i]]
      /\ g[k] = ReadEntry(f[k - 1])
      /\ \A i \in 0..(k - 1) : g[i] = f[i]
  BY <1>2
<1> HIDE DEF g
<1>7. f[0] = Reader(SavedEntries, {}, {}) /\ \A i \in 1..(k - 1) : f[i] = ReadEntry(f[i - 1])
  BY <1>5 DEF Rounds
<1>8. ASSUME NEW i \in 1..k PROVE g[i] = ReadEntry(g[i - 1])
  <2>1. i - 1 \in 0..(k - 1) /\ g[i - 1] = f[i - 1]
    BY <1>2, <1>6
  <2>2. CASE i = k
    BY <1>6, <2>1, <2>2
  <2>3. CASE i # k
    <3>1. i \in 1..(k - 1) /\ i \in 0..(k - 1)
      BY <1>2, <2>3
    <3>2. g[i] = f[i] /\ f[i] = ReadEntry(f[i - 1])
      BY <1>6, <1>7, <3>1
    <3> QED
      BY <2>1, <3>2
  <2> QED
    BY <2>2, <2>3
<1>9. g[0] = Reader(SavedEntries, {}, {})
  <2>1. 0 \in 0..(k - 1)
    BY <1>2, <1>3
  <2> QED
    BY <1>6, <1>7, <2>1
<1>10. Rounds(k, g)
  BY <1>6, <1>8, <1>9 DEF Rounds
<1> QED
  BY <1>2, <1>10

LEMMA ReadInRounds == Rounds(Cardinality(Bins), Read)
<1> DEFINE n == Cardinality(Bins)
           init == Reader(SavedEntries, {}, {})
<1>1. n \in Nat
  BY BinsAssumption, FS_CardinalityType
<1>2. PICK f : Rounds(n, f)
  BY <1>1, RoundsExist
<1>3. f = [k \in 0..n |-> IF k = 0 THEN init ELSE ReadEntry(f[k - 1])]
  <2>1. /\ f = [k \in 0..n |-> f[k]] /\ f[0] = init
        /\ \A k \in 1..n : f[k] = ReadEntry(f[k - 1])
    BY <1>2 DEF Rounds
  <2>2. \A k \in 0..n : k # 0 => k \in 1..n
    BY <1>1
  <2> HIDE DEF init, n
  <2>3. \A k \in 0..n : f[k] = IF k = 0 THEN init ELSE ReadEntry(f[k - 1])
    BY <2>1, <2>2
  <2> QED
    BY <2>1, <2>3
<1>4. Read = CHOOSE x : x = [k \in 0..n |-> IF k = 0 THEN init ELSE ReadEntry(x[k - 1])]
  BY DEF Read, Reader
<1> HIDE DEF init
<1>5. Read = [k \in 0..n |-> IF k = 0 THEN init ELSE ReadEntry(Read[k - 1])]
  BY <1>3, <1>4
<1>6. /\ Read = [k \in 0..n |-> Read[k]]
      /\ \A k \in 0..n : Read[k] = IF k = 0 THEN init ELSE ReadEntry(Read[k - 1])
  BY <1>5
<1>7. 0 \in 0..n /\ \A k \in 1..n : k \in 0..n /\ k # 0
  BY <1>1
<1> HIDE DEF n
<1>8. Rounds(n, Read)
  BY <1>6, <1>7 DEF Rounds, init
<1> QED
  BY <1>8 DEF n

(* After k rounds the reader has the first k entries, and the text from the *)
(* next one on before it, as long as somebody visited them.                 *)
LEMMA ReaderAdvances ==
    ASSUME IInv, NEW s, IsOrder(s), NEW text,
           TextOf(Items, [i \in 1..Cardinality(Saved) |-> Entry(s[i])],
                    Cardinality(Saved), text),
           SavedEntries = text[1],
           NEW k \in 0..Cardinality(Visited)
    PROVE  Read[k] = Reader(text[k + 1], {Line(s[i]) : i \in 1..k}, {s[i] : i \in 1..k})
<1> DEFINE n == Cardinality(Saved)
           v == Cardinality(Visited)
           After(j) == Reader(text[j + 1], {Line(s[i]) : i \in 1..j}, {s[i] : i \in 1..j})
           T == {j \in 0..v : Read[j] # After(j)}
<1> SUFFICES ASSUME T # {} PROVE FALSE
  OBVIOUS
<1>1. /\ v \in Nat /\ n \in Nat /\ v <= n /\ v <= Cardinality(Bins)
      /\ Cardinality(Bins) \in Nat
      /\ \A i \in 1..v : s[i] \in Visited
  <2>1. v \in 0..n /\ {s[i] : i \in 1..v} = Visited /\ n \in Nat
    BY VisitedComeFirst, SavedFinite
  <2>2. Visited \in SUBSET Bins
    BY DEF Visited
  <2>3. v <= Cardinality(Bins) /\ Cardinality(Bins) \in Nat
    BY <2>2, BinsAssumption, FS_Subset, FS_CardinalityType
  <2> QED
    BY <2>1, <2>3
<1>2. PICK j \in T : \A i \in T : j <= i
  <2>1. T \subseteq Nat
    BY <1>1
  <2> HIDE DEF T
  <2> QED
    BY <2>1, LeastNatural
<1>3. j \in 0..v /\ Read[j] # After(j)
  OBVIOUS
<1>4. /\ Read[0] = Reader(SavedEntries, {}, {})
      /\ \A i \in 1..Cardinality(Bins) : Read[i] = ReadEntry(Read[i - 1])
  BY ReadInRounds DEF Rounds
<1>5. j # 0
  <2>1. After(0) = Reader(text[1], {}, {})
    <3>1. {Line(s[i]) : i \in 1..0} = {} /\ {s[i] : i \in 1..0} = {} /\ 0 + 1 = 1
      OBVIOUS
    <3> QED
      BY <3>1
  <2> HIDE DEF After
  <2> QED
    BY <1>3, <1>4, <2>1
<1>6. j - 1 \in 0..v /\ j - 1 \notin T
  <2>1. j \in Int /\ j - 1 \in 0..v
    BY <1>1, <1>3, <1>5
  <2> HIDE DEF T
  <2> QED
    BY <1>2, <2>1
<1>7. Read[j - 1] = After(j - 1)
  BY <1>6
<1> HIDE DEF T
<1> DEFINE b == s[j]
           L == {Line(s[i]) : i \in 1..(j - 1)}
           N == {s[i] : i \in 1..(j - 1)}
<1>8. b \in Visited /\ j \in 1..n /\ j \in 1..Cardinality(Bins)
  BY <1>1, <1>3, <1>5
<1>9. text[j] = Entry(b) \o text[j + 1] /\ text[j + 1] \in Seq(Items)
  <2>1. [i \in 1..n |-> Entry(s[i])][j] = Entry(b)
    BY <1>8
  <2>2. j + 1 \in 1..(n + 1)
    BY <1>1, <1>8
  <2> QED
    BY <1>8, <2>1, <2>2 DEF TextOf
<1>10. Read[j - 1] = Reader(Entry(b) \o text[j + 1], L, N)
  <2>1. (j - 1) + 1 = j
    BY <1>1, <1>3
  <2> QED
    BY <1>7, <1>9, <2>1
<1>11. Read[j] = Reader(text[j + 1], L \cup {Line(b)}, N \cup {b})
  <2>1. Read[j] = ReadEntry(Read[j - 1])
    BY <1>4, <1>8
  <2> DEFINE rest == text[j + 1]
  <2>2. rest \in Seq(Items)
    BY <1>9
  <2> HIDE DEF b, L, N, rest
  <2>3. ReadEntry(Reader(Entry(b) \o rest, L, N)) = Reader(rest, L \cup {Line(b)}, N \cup {b})
    BY <1>8, <2>2, RoundReadsEntry
  <2> QED
    BY <1>10, <2>1, <2>3 DEF rest
<1>12. /\ L \cup {Line(b)} = {Line(s[i]) : i \in 1..j}
       /\ N \cup {b} = {s[i] : i \in 1..j}
  <2>1. 1..j = 1..(j - 1) \cup {j}
    BY <1>1, <1>3, <1>5
  <2> QED
    BY <2>1
<1>13. Read[j] = After(j)
  BY <1>11, <1>12
<1> QED
  BY <1>3, <1>13

(* What was learned survives being saved and loaded, in every state of a    *)
(* mapping of any size.                                                     *)
THEOREM SavingKeepsVisited == Spec => []VisitedSurviveSaving
<1>1. IInv => VisitedSurviveSaving
  <2> SUFFICES ASSUME IInv PROVE VisitedSurviveSaving
    OBVIOUS
  <2> DEFINE s == SavedInOrder
             n == Cardinality(Saved)
             v == Cardinality(Visited)
             items == [i \in 1..n |-> Entry(s[i])]
  <2>1. IsOrder(s) /\ n \in Nat /\ v \in 0..n /\ {s[i] : i \in 1..v} = Visited
    BY OrderExists, VisitedComeFirst, SavedFinite
  <2>2. items \in [1..n -> Seq(Items)]
    <3>1. \A i \in 1..n : s[i] \in Bins
      BY <2>1, SavedFinite DEF IsOrder
    <3>2. \A b \in Bins : Entry(b) \in Seq(Items)
      BY DEF Entry, Items
    <3> QED
      BY <3>1, <3>2
  <2>3. SavedEntries = FlattenSeq(items)
    BY DEF SavedEntries
  <2> HIDE DEF s, n, items
  <2>4. PICK text : TextOf(Items, items, n, text) /\ SavedEntries = text[1]
    BY <2>1, <2>2, <2>3, TextExists
  <2>5. Read[v] = Reader(text[v + 1], {Line(s[i]) : i \in 1..v}, {s[i] : i \in 1..v})
    <3>1. v \in 0..v
      BY <2>1, <2>4 DEF n
    <3> QED
      BY <2>1, <2>4, <3>1, ReaderAdvances DEF n, items
  <2>6. {Line(s[i]) : i \in 1..v} = {Line(b) : b \in Visited}
    BY <2>1
  <2>7. numberOfVisitedEntries_ = v
    BY DEF IInv, VisitedEntriesExact
  <2> DEFINE r == Read[numberOfVisitedEntries_]
  <2>8. r.lines = {Line(b) : b \in Visited} /\ r.nodes = Visited /\ r.misread = FALSE
    BY <2>1, <2>5, <2>6, <2>7 DEF Reader
  <2>9. /\ Loaded.lines = r.lines /\ Loaded.nodes = r.nodes /\ Loaded.misread = r.misread
        /\ Loaded.legal = {line.bin : line \in {l \in r.lines : ReadsLegal(l)}}
                             \cup ToSet(binSequence_)
    BY DEF Loaded
  <2> HIDE DEF r
  <2>10. \A b : Line(b).bin = b
    BY DEF Line
  <2>11. {line.bin : line \in {Line(b) : b \in Visited}} = Visited
    BY <2>10
  <2>12. ASSUME NEW b \in Visited PROVE ReadsLegal(Line(b))
    <3>1. Words(b) = <<>>
      BY VisitedHaveNodes DEF Words
    <3>2. Line(b).words = <<>>
      BY <3>1 DEF Line
    <3> QED
      BY <3>2 DEF ReadsLegal, Word
  <2>13. {l \in r.lines : ReadsLegal(l)} = {Line(b) : b \in Visited}
    BY <2>8, <2>12
  <2>14. Loaded.legal = Visited \cup ToSet(binSequence_)
    BY <2>9, <2>11, <2>13
  <2>15. Loaded.legal = LegalBins
    <3>1. ToSet(binSequence_) = LegalBins \ Visited
      BY DEF IInv, UntriedExactlyOnce
    <3>2. Visited \subseteq LegalBins
      BY VisitedHaveNodes
    <3> QED
      BY <2>14, <3>1, <3>2
  <2>16. Loaded.nodes = childNode_ \cap Visited
    BY <2>8, <2>9, VisitedHaveNodes
  <2>17. \A line \in Loaded.lines : line = Line(line.bin)
    BY <2>8, <2>9, <2>10
  <2> QED
    BY <2>8, <2>9, <2>11, <2>15, <2>16, <2>17 DEF VisitedSurviveSaving
<1> QED
  BY <1>1, IInvHolds, PTL
=============================================================================
