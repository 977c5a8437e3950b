------------------------ MODULE ParticleFilterProofs ------------------------
(***************************************************************************)
(* The belief update, for any number of particles and any transition       *)
(* function: no loop of the filter reads a null particle, no particle got  *)
(* through that the request excludes, and the loops, counters and vectors  *)
(* together implement the update that BeliefUpdate promises.               *)
(***************************************************************************)
EXTENDS ParticleFilter, SequenceTheorems, TLAPS

(* The states a particle of the prior may move to and be kept, and those   *)
(* of them that the observation does not exclude.                          *)
Candidates ==
    {t \in States : \E k \in DOMAIN previousParticles :
        /\ <<previousParticles[k], t>> \in Moves
        /\ \/ allowCollisions \/ allowTerminal
           \/ <<previousParticles[k], t>> \notin Colliding}

Survivors == Candidates \cap likely

ReadsFrom(C) == \A k \in 1..Len(source) : source[k] \in C

WritesTo(C, size) ==
    /\ Len(vector) = size
    /\ particleCounter <= i
    /\ i <= size
    /\ \A k \in 1..particleCounter : vector[k] \in C

(* What each loop reads and has written. *)
PropagatingInv ==
    phase = "propagating" =>
        source = previousParticles /\ source # <<>> /\ WritesTo(Candidates, N)

WeightingInv ==
    phase = "weighting" => ReadsFrom(Candidates) /\ WritesTo(Survivors, Len(source))

ResamplingInv ==
    phase = "resampling" =>
        /\ source # <<>> /\ ReadsFrom(Survivors)
        /\ WritesTo(Survivors, N) /\ particleCounter = i

InsertingInv ==
    phase = "inserting" =>
        /\ Len(source) = N /\ ReadsFrom(Survivors)
        /\ i <= N /\ i <= Len(particles)
        /\ \A k \in (Len(particles) - i + 1)..Len(particles) : particles[k] \in Survivors

IInv == TypeOK /\ FilteredWeightsEqual /\ PropagatingInv /\ WeightingInv /\ ResamplingInv
        /\ InsertingInv

-----------------------------------------------------------------------------
(* The helpers of the loops. *)

(* A round of a loop keeps what it has written within C, without gaps, if  *)
(* what it writes, when it writes anything, is in C.                       *)
RoundWithin(C) ==
    /\ i' = i + 1
    /\ source' = source
    /\ \/ \E p \in C : /\ vector' = [vector EXCEPT ![particleCounter + 1] = p]
                       /\ particleCounter' = particleCounter + 1
       \/ vector' = vector /\ particleCounter' = particleCounter

LEMMA RoundKeeps ==
    ASSUME NEW C, C \subseteq States, NEW size \in Nat,
           vector \in Seq(States \cup {Null}), i \in Nat, particleCounter \in Nat,
           WritesTo(C, size), i < size, RoundWithin(C)
    PROVE  /\ vector' \in Seq(States \cup {Null})
           /\ i' = i + 1 /\ i' \in Nat /\ particleCounter' \in Nat
           /\ source' = source
           /\ Len(vector') = size
           /\ particleCounter' <= i' /\ i' <= size
           /\ \A k \in 1..particleCounter' : vector'[k] \in C
<1>1. CASE \E p \in C : /\ vector' = [vector EXCEPT ![particleCounter + 1] = p]
                        /\ particleCounter' = particleCounter + 1
  <2>1. PICK p \in C : /\ vector' = [vector EXCEPT ![particleCounter + 1] = p]
                       /\ particleCounter' = particleCounter + 1
    BY <1>1
  <2>2. p \in States \cup {Null}
    OBVIOUS
  <2>3. particleCounter + 1 \in 1..Len(vector)
    BY DEF WritesTo
  <2>4. /\ vector' \in Seq(States \cup {Null}) /\ Len(vector') = Len(vector)
        /\ \A k \in 1..Len(vector) :
              vector'[k] = IF k = particleCounter + 1 THEN p ELSE vector[k]
    BY <2>1, <2>2, <2>3
  <2> QED
    BY <2>1, <2>2, <2>3, <2>4 DEF WritesTo, RoundWithin
<1>2. CASE vector' = vector /\ particleCounter' = particleCounter
  BY <1>2 DEF WritesTo, RoundWithin
<1> QED
  BY <1>1, <1>2 DEF RoundWithin

(* A vector of null pointers, of which nothing is written yet. *)
LEMMA StartLoopKeeps ==
    ASSUME NEW from \in Seq(States \cup {Null}), NEW size \in Nat, StartLoop(from, size)
    PROVE  /\ source' = from /\ i' = 0 /\ particleCounter' = 0
           /\ vector' \in Seq(States \cup {Null}) /\ Len(vector') = size
<1>1. /\ source' = from /\ i' = 0 /\ particleCounter' = 0
      /\ vector' = [k \in 1..size |-> Null]
  BY DEF StartLoop, Nulls
<1>2. Null \in States \cup {Null}
  OBVIOUS
<1>3. [k \in 1..size |-> Null] \in Seq(States \cup {Null})
  BY <1>2
<1>4. Len([k \in 1..size |-> Null]) = size
  OBVIOUS
<1> QED
  BY <1>1, <1>3, <1>4

(* The part of a vector that was written holds particles only. *)
LEMMA WrittenProperties ==
    ASSUME NEW C, C \subseteq States, NEW size \in Nat,
           vector \in Seq(States \cup {Null}), i \in Nat, particleCounter \in Nat,
           WritesTo(C, size)
    PROVE  /\ Written \in Seq(States \cup {Null})
           /\ Len(Written) = particleCounter
           /\ \A k \in 1..particleCounter : Written[k] \in C
<1>1. /\ 1 \in Int /\ particleCounter \in Int
      /\ \A k \in 1..particleCounter : vector[k] \in States \cup {Null}
  BY DEF WritesTo
<1>2. /\ Written \in Seq(States \cup {Null})
      /\ Len(Written) = IF 1 <= particleCounter THEN particleCounter - 1 + 1 ELSE 0
      /\ \A k \in 1..(particleCounter - 1 + 1) : Written[k] = vector[1 + k - 1]
  BY <1>1, SubSeqProperties DEF Written
<1>3. \A n \in Nat : /\ (IF 1 <= n THEN n - 1 + 1 ELSE 0) = n
                     /\ n - 1 + 1 = n
                     /\ \A k \in 1..n : 1 + k - 1 = k
  OBVIOUS
<1>4. /\ Len(Written) = particleCounter
      /\ \A k \in 1..particleCounter : Written[k] = vector[k]
  BY <1>2, <1>3, Zenon
<1> QED
  BY <1>2, <1>4 DEF WritesTo

LEMMA RemovalKeepsSeq ==
    ASSUME NEW S, NEW s \in Seq(S), NEW k \in DOMAIN s
    PROVE  RemoveAt(s, k) \in Seq(S) /\ Len(RemoveAt(s, k)) = Len(s) - 1
<1>1. k \in 1..Len(s) /\ Len(s) \in Nat
  OBVIOUS
<1>2. /\ SubSeq(s, 1, k - 1) \in Seq(S) /\ Len(SubSeq(s, 1, k - 1)) = k - 1
      /\ SubSeq(s, k + 1, Len(s)) \in Seq(S)
      /\ Len(SubSeq(s, k + 1, Len(s))) = Len(s) - k
  BY <1>1, SubSeqProperties
<1> DEFINE before == SubSeq(s, 1, k - 1)
           after == SubSeq(s, k + 1, Len(s))
<1>3. RemoveAt(s, k) = before \o after
  BY DEF RemoveAt
<1> HIDE DEF before, after
<1>4. /\ before \in Seq(S) /\ Len(before) = k - 1
      /\ after \in Seq(S) /\ Len(after) = Len(s) - k
  BY <1>2 DEF before, after
<1>5. before \o after \in Seq(S) /\ Len(before \o after) = Len(before) + Len(after)
  BY <1>4, ConcatProperties
<1> QED
  BY <1>1, <1>3, <1>4, <1>5

(* The states and the weights of the particles grow together. *)
LEMMA AppendKeepsPair ==
    ASSUME NEW S, NEW W, NEW s \in Seq(S), NEW w \in Seq(W), Len(s) = Len(w),
           NEW x \in S, NEW y \in W
    PROVE  /\ Append(s, x) \in Seq(S) /\ Append(w, y) \in Seq(W)
           /\ Len(Append(w, y)) = Len(Append(s, x))
BY AppendProperties

(* createOrGetInfo returns what it was asked for: the weight is part of    *)
(* what makes two states equal.                                            *)
LEMMA InfoIsEqual ==
    ASSUME NEW s \in States, NEW w \in {FilteredWeight, DefaultWeight},
           pool \subseteq States \X {FilteredWeight, DefaultWeight}
    PROVE  Info(<<s, w>>) = <<s, w>>
<1> DEFINE q == CHOOSE q \in pool : SameState(q, <<s, w>>)
<1>1. CASE \E p \in pool : SameState(p, <<s, w>>)
  <2>1. q \in pool /\ SameState(q, <<s, w>>)
    BY <1>1, Zenon
  <2>2. q = <<s, w>>
    BY <2>1 DEF SameState
  <2> QED
    BY <1>1, <2>2 DEF Info
<1>2. CASE ~\E p \in pool : SameState(p, <<s, w>>)
  BY <1>2 DEF Info
<1> QED
  BY <1>1, <1>2

(* The counter of a loop is a number. *)
LEMMA CounterIsNat == TypeOK => particleCounter \in Nat /\ Len(vector) \in Nat
BY DEF TypeOK

(* What moves no particle, and is not the start of an insertion, moves no weight. *)
LEMMA WeightsStable ==
    ASSUME FilteredWeightsEqual, UNCHANGED optionVars, UNCHANGED beliefVars,
           phase' # "inserting"
    PROVE  FilteredWeightsEqual'
BY DEF optionVars, beliefVars, FilteredWeightsEqual

(* The request and the options do not move during an update. *)
LEMMA RequestStable ==
    ASSUME UNCHANGED optionVars, UNCHANGED requestVars
    PROVE  Candidates' = Candidates /\ Survivors' = Survivors
BY DEF optionVars, requestVars, Candidates, Survivors

LEMMA SurvivorsAreStates == Candidates \subseteq States /\ Survivors \subseteq States
BY DEF Candidates, Survivors

-----------------------------------------------------------------------------
LEMMA InitEstablishesIInv == Init => IInv
<1> SUFFICES ASSUME Init PROVE IInv
  OBVIOUS
<1>1. /\ <<>> \in Seq(States) /\ <<>> \in Seq(States \cup {Null})
      /\ <<>> \in Seq({FilteredWeight, DefaultWeight})
      /\ DOMAIN <<>> = {} /\ Len(<<>>) = 0
  BY EmptySeq
<1>2. TypeOK
  <2>1. particleCounter \in 0..Len(vector) /\ Len(weights) = Len(particles)
    BY <1>1 DEF Init
  <2> QED
    BY <1>1, <2>1 DEF Init, TypeOK
<1>3. PropagatingInv /\ WeightingInv /\ ResamplingInv /\ InsertingInv
  BY DEF Init, PropagatingInv, WeightingInv, ResamplingInv, InsertingInv
<1>4. FilteredWeightsEqual
  BY DEF Init, FilteredWeightsEqual
<1> QED
  BY <1>2, <1>3, <1>4 DEF IInv

-----------------------------------------------------------------------------
(* Outside the loops. *)

LEMMA SearchKeepsIInv == IInv /\ Search => IInv'
<1> SUFFICES ASSUME IInv, Search PROVE IInv'
  OBVIOUS
<1>1. PICK s \in IF atRoot THEN InitStates ELSE ToSet(particles),
           visited \in SUBSET States :
        /\ pool' = pool \cup {Info(<<t, DefaultWeight>>) :
                                  t \in IF atRoot THEN visited \cup {s} ELSE visited}
        /\ \/ /\ atRoot
              /\ particles' = Append(particles, s)
              /\ weights' = Append(weights, DefaultWeight)
           \/ UNCHANGED <<particles, weights>>
  BY DEF Search
<1>2. s \in States
  BY FilterAssumption DEF IInv, TypeOK, ToSet
<1>3. /\ particles' \in Seq(States)
      /\ weights' \in Seq({FilteredWeight, DefaultWeight})
      /\ Len(weights') = Len(particles')
  <2>1. /\ particles \in Seq(States) /\ weights \in Seq({FilteredWeight, DefaultWeight})
        /\ Len(particles) = Len(weights)
    BY DEF IInv, TypeOK
  <2>2. /\ Append(particles, s) \in Seq(States)
        /\ Append(weights, DefaultWeight) \in Seq({FilteredWeight, DefaultWeight})
        /\ Len(Append(weights, DefaultWeight)) = Len(Append(particles, s))
    BY <1>2, <2>1, AppendKeepsPair
  <2> QED
    BY <1>1, <2>1, <2>2
<1>4. pool' \subseteq States \X {FilteredWeight, DefaultWeight}
  <2>1. \A t \in States :
           Info(<<t, DefaultWeight>>) \in States \X {FilteredWeight, DefaultWeight}
    <3> SUFFICES ASSUME NEW t \in States
                 PROVE  Info(<<t, DefaultWeight>>) \in
                           States \X {FilteredWeight, DefaultWeight}
      OBVIOUS
    <3>1. Info(<<t, DefaultWeight>>) = <<t, DefaultWeight>>
      BY InfoIsEqual DEF IInv, TypeOK
    <3> QED
      BY <3>1
  <2> QED
    BY <1>1, <1>2, <2>1 DEF IInv, TypeOK
<1>5. TypeOK'
  BY <1>3, <1>4 DEF Search, optionVars, requestVars, loopVars, IInv, TypeOK
<1>6. PropagatingInv' /\ WeightingInv' /\ ResamplingInv' /\ InsertingInv'
  BY DEF Search, PropagatingInv, WeightingInv, ResamplingInv, InsertingInv
<1>7. FilteredWeightsEqual'
  BY <1>1 DEF Search, optionVars, IInv, FilteredWeightsEqual
<1> QED
  BY <1>5, <1>6, <1>7 DEF IInv

LEMMA LoseParticleKeepsIInv == IInv /\ LoseParticle => IInv'
<1> SUFFICES ASSUME IInv, LoseParticle PROVE IInv'
  OBVIOUS
<1>1. PICK k \in DOMAIN particles : /\ particles' = RemoveAt(particles, k)
                                     /\ weights' = RemoveAt(weights, k)
  BY DEF LoseParticle
<1>2. /\ particles \in Seq(States) /\ weights \in Seq({FilteredWeight, DefaultWeight})
      /\ Len(weights) = Len(particles)
  BY DEF IInv, TypeOK
<1>3. /\ particles' \in Seq(States) /\ weights' \in Seq({FilteredWeight, DefaultWeight})
      /\ Len(weights') = Len(particles')
  <2>1. k \in DOMAIN weights
    BY <1>2
  <2>2. /\ RemoveAt(particles, k) \in Seq(States)
        /\ Len(RemoveAt(particles, k)) = Len(particles) - 1
    BY <1>2, RemovalKeepsSeq, Zenon
  <2>3. /\ RemoveAt(weights, k) \in Seq({FilteredWeight, DefaultWeight})
        /\ Len(RemoveAt(weights, k)) = Len(weights) - 1
    BY <1>2, <2>1, RemovalKeepsSeq, Zenon
  <2> QED
    BY <1>1, <1>2, <2>2, <2>3
<1>4. TypeOK'
  BY <1>3 DEF LoseParticle, optionVars, requestVars, loopVars, IInv, TypeOK
<1>5. FilteredWeightsEqual'
  BY DEF LoseParticle, optionVars, FilteredWeightsEqual
<1>6. PropagatingInv' /\ WeightingInv' /\ ResamplingInv' /\ InsertingInv'
  BY DEF LoseParticle, PropagatingInv, WeightingInv, ResamplingInv, InsertingInv
<1> QED
  BY <1>4, <1>5, <1>6 DEF IInv

(* The prior is a sequence of states, whatever initial states fill it up. *)
LEMMA PriorIsSeq ==
    ASSUME TypeOK,
           NEW extra \in IF atRoot /\ Len(particles) < N
                         THEN [1..(N - Len(particles)) -> InitStates] ELSE {<<>>}
    PROVE  particles \o extra \in Seq(States)
<1>1. CASE atRoot /\ Len(particles) < N
  <2>1. N - Len(particles) \in Nat
    BY <1>1, FilterAssumption DEF TypeOK
  <2>2. extra \in [1..(N - Len(particles)) -> States]
    BY <1>1, FilterAssumption
  <2>3. extra \in Seq(States)
    BY <2>1, <2>2
  <2> QED
    BY <2>3, ConcatProperties DEF TypeOK
<1>2. CASE ~(atRoot /\ Len(particles) < N)
  BY <1>2, EmptySeq, ConcatProperties DEF TypeOK
<1> QED
  BY <1>1, <1>2

LEMMA RequestKeepsIInv == IInv /\ Request => IInv'
<1> SUFFICES ASSUME IInv, Request PROVE IInv'
  OBVIOUS
<1>1. PICK extra \in IF atRoot /\ Len(particles) < N
                     THEN [1..(N - Len(particles)) -> InitStates] ELSE {<<>>} :
        LET prior == particles \o extra
        IN  IF prior = <<>>
            THEN phase' = "failed" /\ UNCHANGED <<requestVars, loopVars>>
            ELSE /\ phase' = "propagating"
                 /\ previousParticles' = prior
                 /\ likely' \in SUBSET States
                 /\ allowTerminal' \in BOOLEAN
                 /\ StartLoop(prior, N)
  BY DEF Request
<1> DEFINE prior == particles \o extra
<1>2. prior \in Seq(States)
  BY PriorIsSeq DEF IInv
<1>3. UNCHANGED <<optionVars, beliefVars>>
  BY DEF Request
<1>4. phase' # "inserting"
  BY <1>1, Zenon
<1>7. FilteredWeightsEqual'
  BY <1>3, <1>4, WeightsStable DEF IInv
<1> HIDE DEF prior
<1>5. CASE prior = <<>>
  <2>1. phase' = "failed" /\ UNCHANGED <<requestVars, loopVars>>
    BY <1>1, <1>5 DEF prior
  <2>2. TypeOK'
    BY <1>3, <2>1 DEF optionVars, beliefVars, requestVars, loopVars, IInv, TypeOK
  <2>3. PropagatingInv' /\ WeightingInv' /\ ResamplingInv' /\ InsertingInv'
    BY <2>1 DEF PropagatingInv, WeightingInv, ResamplingInv, InsertingInv
  <2> QED
    BY <1>7, <2>2, <2>3 DEF IInv
<1>6. CASE prior # <<>>
  <2>1. /\ phase' = "propagating" /\ previousParticles' = prior
        /\ likely' \in SUBSET States /\ allowTerminal' \in BOOLEAN
        /\ StartLoop(prior, N)
    BY <1>1, <1>6 DEF prior
  <2>2. prior \in Seq(States \cup {Null}) /\ N \in Nat
    BY <1>2, FilterAssumption
  <2>3. /\ source' = prior /\ i' = 0 /\ particleCounter' = 0
        /\ vector' \in Seq(States \cup {Null}) /\ Len(vector') = N
    BY <2>1, <2>2, StartLoopKeeps
  <2>4. TypeOK'
    BY <1>2, <1>3, <2>1, <2>2, <2>3 DEF optionVars, beliefVars, IInv, TypeOK
  <2>5. PropagatingInv'
    BY <1>6, <2>1, <2>2, <2>3 DEF PropagatingInv, WritesTo
  <2>6. WeightingInv' /\ ResamplingInv' /\ InsertingInv'
    BY <2>1 DEF WeightingInv, ResamplingInv, InsertingInv
  <2> QED
    BY <1>7, <2>4, <2>5, <2>6 DEF IInv
<1> QED
  BY <1>5, <1>6

-----------------------------------------------------------------------------
(* The loops of the filter. *)

LEMMA PropagateKeepsIInv == IInv /\ Propagate => IInv'
<1> SUFFICES ASSUME IInv, Propagate PROVE IInv'
  OBVIOUS
<1>1. PICK k \in DOMAIN source, t \in States :
        /\ <<source[k], t>> \in Moves
        /\ Write(t, \/ allowCollisions \/ allowTerminal
                    \/ <<source[k], t>> \notin Colliding)
  BY DEF Propagate
<1>2. /\ phase = "propagating" /\ i < N
      /\ UNCHANGED <<optionVars, beliefVars, requestVars, phase>>
  BY DEF Propagate
<1>3. source = previousParticles /\ source # <<>> /\ WritesTo(Candidates, N)
  BY <1>2 DEF IInv, PropagatingInv
<1>4. \/ allowCollisions \/ allowTerminal \/ <<source[k], t>> \notin Colliding
      => t \in Candidates
  BY <1>1, <1>3 DEF Candidates
<1>5. RoundWithin(Candidates)
  BY <1>1, <1>4 DEF Write, RoundWithin
<1>7. /\ vector' \in Seq(States \cup {Null})
      /\ i' = i + 1 /\ i' \in Nat /\ particleCounter' \in Nat
      /\ source' = source /\ Len(vector') = N
      /\ particleCounter' <= i' /\ i' <= N
      /\ \A n \in 1..particleCounter' : vector'[n] \in Candidates
  BY <1>2, <1>3, <1>5, RoundKeeps, CounterIsNat, SurvivorsAreStates, FilterAssumption
     DEF IInv, TypeOK
<1>8. TypeOK'
  BY <1>2, <1>7 DEF optionVars, beliefVars, requestVars, IInv, TypeOK
<1>9. PropagatingInv'
  BY <1>2, <1>3, <1>7, RequestStable DEF requestVars, PropagatingInv, WritesTo
<1>10. WeightingInv' /\ ResamplingInv' /\ InsertingInv'
  BY <1>2 DEF WeightingInv, ResamplingInv, InsertingInv
<1>11. FilteredWeightsEqual'
  BY <1>2, WeightsStable DEF IInv
<1> QED
  BY <1>8, <1>9, <1>10, <1>11 DEF IInv

LEMMA EndPropagateKeepsIInv == IInv /\ EndPropagate => IInv'
<1> SUFFICES ASSUME IInv, EndPropagate PROVE IInv'
  OBVIOUS
<1>1. /\ phase = "propagating" /\ phase' = "weighting"
      /\ StartLoop(Written, particleCounter)
      /\ UNCHANGED <<optionVars, beliefVars, requestVars>>
  BY DEF EndPropagate
<1>2. WritesTo(Candidates, N)
  BY <1>1 DEF IInv, PropagatingInv
<1>3. /\ Written \in Seq(States \cup {Null}) /\ Len(Written) = particleCounter
      /\ \A k \in 1..particleCounter : Written[k] \in Candidates
  BY <1>2, WrittenProperties, CounterIsNat, SurvivorsAreStates, FilterAssumption DEF IInv, TypeOK
<1>4. /\ source' = Written /\ i' = 0 /\ particleCounter' = 0
      /\ vector' \in Seq(States \cup {Null}) /\ Len(vector') = particleCounter
  BY <1>1, <1>3, StartLoopKeeps, CounterIsNat DEF IInv
<1> HIDE DEF Written
<1>5. TypeOK'
  BY <1>1, <1>3, <1>4 DEF optionVars, beliefVars, requestVars, IInv, TypeOK
<1>6. WeightingInv'
  BY <1>1, <1>3, <1>4, RequestStable DEF WeightingInv, ReadsFrom, WritesTo, IInv, TypeOK
<1>7. PropagatingInv' /\ ResamplingInv' /\ InsertingInv'
  BY <1>1 DEF PropagatingInv, ResamplingInv, InsertingInv
<1>8. FilteredWeightsEqual'
  BY <1>1, WeightsStable DEF IInv
<1> QED
  BY <1>5, <1>6, <1>7, <1>8 DEF IInv

LEMMA WeightKeepsIInv == IInv /\ Weight => IInv'
<1> SUFFICES ASSUME IInv, Weight PROVE IInv'
  OBVIOUS
<1> DEFINE p == source[i + 1]
<1>1. /\ phase = "weighting" /\ i < Len(source) /\ Write(p, p \in likely)
      /\ UNCHANGED <<optionVars, beliefVars, requestVars, phase>>
  BY DEF Weight
<1>2. ReadsFrom(Candidates) /\ WritesTo(Survivors, Len(source))
  BY <1>1 DEF IInv, WeightingInv
<1>3. i + 1 \in 1..Len(source) /\ Len(source) \in Nat
  BY <1>1 DEF IInv, TypeOK
<1>4. p \in Candidates
  BY <1>2, <1>3 DEF ReadsFrom
<1>5. RoundWithin(Survivors)
  BY <1>1, <1>4 DEF Write, RoundWithin, Survivors
<1> HIDE DEF p
<1>6. /\ vector' \in Seq(States \cup {Null})
      /\ i' = i + 1 /\ i' \in Nat /\ particleCounter' \in Nat
      /\ source' = source /\ Len(vector') = Len(source)
      /\ particleCounter' <= i' /\ i' <= Len(source)
      /\ \A k \in 1..particleCounter' : vector'[k] \in Survivors
  BY <1>1, <1>2, <1>3, <1>5, RoundKeeps, CounterIsNat, SurvivorsAreStates DEF IInv, TypeOK
<1>7. TypeOK'
  BY <1>1, <1>6 DEF optionVars, beliefVars, requestVars, IInv, TypeOK
<1>8. WeightingInv'
  BY <1>1, <1>2, <1>6, RequestStable DEF WeightingInv, ReadsFrom, WritesTo
<1>9. PropagatingInv' /\ ResamplingInv' /\ InsertingInv'
  BY <1>1 DEF PropagatingInv, ResamplingInv, InsertingInv
<1>10. FilteredWeightsEqual'
  BY <1>1, WeightsStable DEF IInv
<1> QED
  BY <1>7, <1>8, <1>9, <1>10 DEF IInv

LEMMA EndWeightKeepsIInv == IInv /\ EndWeight => IInv'
<1> SUFFICES ASSUME IInv, EndWeight PROVE IInv'
  OBVIOUS
<1>1. phase = "weighting" /\ UNCHANGED <<optionVars, beliefVars, requestVars>>
  BY DEF EndWeight
<1>2. FilteredWeightsEqual'
  <2>1. phase' # "inserting"
    BY DEF EndWeight
  <2> QED
    BY <1>1, <2>1, WeightsStable DEF IInv
<1>3. CASE particleCounter = 0
  <2>1. phase' = "failed" /\ UNCHANGED loopVars
    BY <1>3 DEF EndWeight
  <2>2. TypeOK'
    BY <1>1, <2>1 DEF optionVars, beliefVars, requestVars, loopVars, IInv, TypeOK
  <2>3. PropagatingInv' /\ WeightingInv' /\ ResamplingInv' /\ InsertingInv'
    BY <2>1 DEF PropagatingInv, WeightingInv, ResamplingInv, InsertingInv
  <2> QED
    BY <1>2, <2>2, <2>3 DEF IInv
<1>4. CASE particleCounter # 0
  <2>1. phase' = "resampling" /\ StartLoop(Written, N)
    BY <1>4 DEF EndWeight
  <2>2. WritesTo(Survivors, Len(source)) /\ Len(source) \in Nat
    BY <1>1 DEF IInv, WeightingInv, TypeOK
  <2>3. /\ Written \in Seq(States \cup {Null}) /\ Len(Written) = particleCounter
        /\ \A k \in 1..particleCounter : Written[k] \in Survivors
    BY <2>2, WrittenProperties, CounterIsNat, SurvivorsAreStates DEF IInv, TypeOK
  <2>4. /\ source' = Written /\ i' = 0 /\ particleCounter' = 0
        /\ vector' \in Seq(States \cup {Null}) /\ Len(vector') = N
    BY <2>1, <2>3, StartLoopKeeps, FilterAssumption
  <2> HIDE DEF Written
  <2>5. TypeOK'
    BY <1>1, <2>1, <2>3, <2>4 DEF optionVars, beliefVars, requestVars, IInv, TypeOK
  <2>6. ResamplingInv'
    <3>1. source' # <<>> /\ Len(source') = particleCounter
      BY <1>4, <2>3, <2>4
    <3> QED
      BY <1>1, <2>1, <2>3, <2>4, <3>1, RequestStable, FilterAssumption
         DEF ResamplingInv, ReadsFrom, WritesTo
  <2>7. PropagatingInv' /\ WeightingInv' /\ InsertingInv'
    BY <2>1 DEF PropagatingInv, WeightingInv, InsertingInv
  <2> QED
    BY <1>2, <2>5, <2>6, <2>7 DEF IInv
<1> QED
  BY <1>3, <1>4

LEMMA ResampleKeepsIInv == IInv /\ Resample => IInv'
<1> SUFFICES ASSUME IInv, Resample PROVE IInv'
  OBVIOUS
<1>1. PICK k \in DOMAIN source : Write(source[k], TRUE)
  BY DEF Resample
<1>2. /\ phase = "resampling" /\ i < N
      /\ UNCHANGED <<optionVars, beliefVars, requestVars, phase>>
  BY DEF Resample
<1>3. /\ source # <<>> /\ ReadsFrom(Survivors)
      /\ WritesTo(Survivors, N) /\ particleCounter = i
  BY <1>2 DEF IInv, ResamplingInv
<1>4. source[k] \in Survivors
  BY <1>3 DEF ReadsFrom, IInv, TypeOK
<1>5. RoundWithin(Survivors)
  BY <1>1, <1>4 DEF Write, RoundWithin
<1>6. /\ vector' \in Seq(States \cup {Null})
      /\ i' = i + 1 /\ i' \in Nat /\ particleCounter' \in Nat
      /\ source' = source /\ Len(vector') = N
      /\ particleCounter' <= i' /\ i' <= N
      /\ \A n \in 1..particleCounter' : vector'[n] \in Survivors
  BY <1>2, <1>3, <1>5, RoundKeeps, CounterIsNat, SurvivorsAreStates, FilterAssumption
     DEF IInv, TypeOK
<1>7. particleCounter' = i'
  BY <1>1, <1>3, <1>6 DEF Write
<1>8. TypeOK'
  BY <1>2, <1>6 DEF optionVars, beliefVars, requestVars, IInv, TypeOK
<1>9. ResamplingInv'
  BY <1>2, <1>3, <1>6, <1>7, RequestStable DEF ResamplingInv, ReadsFrom, WritesTo
<1>10. PropagatingInv' /\ WeightingInv' /\ InsertingInv'
  BY <1>2 DEF PropagatingInv, WeightingInv, InsertingInv
<1>11. FilteredWeightsEqual'
  BY <1>2, WeightsStable DEF IInv
<1> QED
  BY <1>8, <1>9, <1>10, <1>11 DEF IInv

-----------------------------------------------------------------------------
(* The insertion of the result into the next belief. *)

LEMMA EndResampleKeepsIInv == IInv /\ EndResample => IInv'
<1> SUFFICES ASSUME IInv, EndResample PROVE IInv'
  OBVIOUS
<1>1. /\ phase = "resampling" /\ i = N /\ phase' = "inserting" /\ atRoot' = FALSE
      /\ StartLoop(vector, 0)
      /\ UNCHANGED <<optionVars, pool, requestVars>>
  BY DEF EndResample
<1>2. PICK n \in Nat :
        /\ particles' \in [1..n -> {s \in States : <<s, DefaultWeight>> \in pool}]
        /\ weights' = [k \in 1..n |-> DefaultWeight]
        /\ ~keepsHistories => n = 0
  BY FilterAssumption DEF EndResample
<1>3. /\ particles' \in Seq(States) /\ Len(particles') = n
      /\ weights' \in Seq({FilteredWeight, DefaultWeight}) /\ Len(weights') = n
  <2>1. particles' \in [1..n -> States]
    BY <1>2
  <2>2. weights' \in [1..n -> {FilteredWeight, DefaultWeight}]
    BY <1>2
  <2> QED
    BY <2>1, <2>2
<1>4. WritesTo(Survivors, N) /\ particleCounter = N
  BY <1>1 DEF IInv, ResamplingInv
<1>5. /\ source' = vector /\ i' = 0 /\ particleCounter' = 0
      /\ vector' \in Seq(States \cup {Null}) /\ Len(vector') = 0
  BY <1>1, StartLoopKeeps DEF IInv, TypeOK
<1>6. TypeOK'
  <2>1. particleCounter' \in 0..Len(vector') /\ i' \in Nat
    BY <1>5
  <2>2. source' \in Seq(States \cup {Null})
    BY <1>5 DEF IInv, TypeOK
  <2> QED
    BY <1>1, <1>3, <1>5, <2>1, <2>2 DEF optionVars, requestVars, IInv, TypeOK
<1>7. InsertingInv'
  <2>1. Len(particles') \in Nat /\ N \in Nat
    BY <1>3, FilterAssumption
  <2>2. ReadsFrom(Survivors)' /\ Len(source') = N
    BY <1>1, <1>4, <1>5, RequestStable DEF ReadsFrom, WritesTo
  <2> QED
    BY <1>5, <2>1, <2>2 DEF InsertingInv
<1>8. PropagatingInv' /\ WeightingInv' /\ ResamplingInv'
  BY <1>1 DEF PropagatingInv, WeightingInv, ResamplingInv
<1>9. FilteredWeightsEqual'
  <2>1. DOMAIN weights' = 1..n /\ Len(weights') = n
    BY <1>2, <1>3
  <2>2. \A k \in DOMAIN weights' : k <= Len(weights') - i'
    BY <1>5, <2>1
  <2>3. ~keepsHistories' => DOMAIN weights' = {}
    BY <1>1, <1>2, <2>1 DEF optionVars
  <2> QED
    BY <1>1, <1>5, <2>1, <2>2, <2>3 DEF FilteredWeightsEqual
<1> QED
  BY <1>6, <1>7, <1>8, <1>9 DEF IInv

LEMMA InsertKeepsIInv == IInv /\ Insert => IInv'
<1> SUFFICES ASSUME IInv, Insert PROVE IInv'
  OBVIOUS
<1> DEFINE s == source[i + 1]
<1>1. /\ phase = "inserting" /\ i < N /\ i' = i + 1 /\ phase' = phase
      /\ pool' = pool \cup {Info(<<s, FilteredWeight>>)}
      /\ particles' = Append(particles, Info(<<s, FilteredWeight>>)[1])
      /\ weights' = Append(weights, Info(<<s, FilteredWeight>>)[2])
      /\ UNCHANGED <<optionVars, atRoot, requestVars, source, vector, particleCounter>>
  BY DEF Insert
<1>2. /\ Len(source) = N /\ ReadsFrom(Survivors) /\ i <= Len(particles)
      /\ \A k \in (Len(particles) - i + 1)..Len(particles) : particles[k] \in Survivors
  BY <1>1 DEF IInv, InsertingInv
<1>3. s \in Survivors
  BY <1>1, <1>2, FilterAssumption DEF ReadsFrom, IInv, TypeOK
<1> HIDE DEF s
<1>4. Info(<<s, FilteredWeight>>) = <<s, FilteredWeight>>
  BY <1>3, SurvivorsAreStates, InfoIsEqual DEF IInv, TypeOK
<1>5. /\ particles' \in Seq(States) /\ Len(particles') = Len(particles) + 1
      /\ \A k \in 1..Len(particles) : particles'[k] = particles[k]
      /\ particles'[Len(particles) + 1] = s
  BY <1>1, <1>3, <1>4, SurvivorsAreStates, AppendProperties DEF IInv, TypeOK
<1>6. /\ weights' \in Seq({FilteredWeight, DefaultWeight})
      /\ Len(weights') = Len(weights) + 1
      /\ \A k \in 1..Len(weights) : weights'[k] = weights[k]
      /\ weights'[Len(weights) + 1] = FilteredWeight
  BY <1>1, <1>4, AppendProperties DEF IInv, TypeOK
<1>10. TypeOK'
  <2>1. pool' \subseteq States \X {FilteredWeight, DefaultWeight}
    <3>1. <<s, FilteredWeight>> \in States \X {FilteredWeight, DefaultWeight}
      BY <1>3, SurvivorsAreStates
    <3> QED
      BY <1>1, <1>4, <3>1 DEF IInv, TypeOK
  <2>2. i' \in Nat /\ Len(weights') = Len(particles')
    BY <1>1, <1>5, <1>6 DEF IInv, TypeOK
  <2> QED
    BY <1>1, <1>5, <1>6, <2>1, <2>2 DEF optionVars, requestVars, IInv, TypeOK
<1>7. InsertingInv'
  <2>1. i \in Nat /\ N \in Nat /\ Len(particles) \in Nat
    BY FilterAssumption DEF IInv, TypeOK
  <2>2. \A k \in (Len(particles) - i + 1)..(Len(particles) + 1) : particles'[k] \in Survivors
    BY <1>2, <1>3, <1>5, <2>1
  <2>3. Len(particles') - i' + 1 = Len(particles) - i + 1
    BY <1>1, <1>5, <2>1
  <2>4. UNCHANGED optionVars /\ UNCHANGED requestVars /\ UNCHANGED source
    BY <1>1
  <2>5. ReadsFrom(Survivors)' /\ Survivors' = Survivors
    BY <1>2, <2>4, RequestStable DEF ReadsFrom
  <2>6. i' <= N /\ i' <= Len(particles')
    BY <1>1, <1>2, <1>5, <2>1
  <2> QED
    BY <1>2, <1>5, <2>2, <2>3, <2>4, <2>5, <2>6 DEF InsertingInv
<1>8. PropagatingInv' /\ WeightingInv' /\ ResamplingInv'
  BY <1>1 DEF PropagatingInv, WeightingInv, ResamplingInv
<1>9. FilteredWeightsEqual'
  <2>1. /\ i \in Nat /\ Len(weights) \in Nat /\ phase = "inserting"
        /\ DOMAIN weights = 1..Len(weights) /\ DOMAIN weights' = 1..Len(weights')
    BY <1>1, <1>6 DEF IInv, TypeOK
  <2>2. /\ \A k \in 1..Len(weights) : k > Len(weights) - i => weights[k] = FilteredWeight
        /\ ~atRoot /\ ~keepsHistories =>
              \A k \in 1..Len(weights) : weights[k] = FilteredWeight
    BY <2>1 DEF IInv, FilteredWeightsEqual
  <2>3. \A k \in 1..Len(weights') : k > Len(weights') - i' => weights'[k] = FilteredWeight
    BY <1>1, <1>6, <2>1, <2>2
  <2>4. ~atRoot' /\ ~keepsHistories' =>
           \A k \in 1..Len(weights') : weights'[k] = FilteredWeight
    BY <1>1, <1>6, <2>1, <2>2 DEF optionVars
  <2> QED
    BY <2>1, <2>3, <2>4 DEF FilteredWeightsEqual
<1> QED
  BY <1>7, <1>8, <1>9, <1>10 DEF IInv

LEMMA EndInsertKeepsIInv == IInv /\ EndInsert => IInv'
<1> SUFFICES ASSUME IInv, EndInsert PROVE IInv'
  OBVIOUS
<1>1. /\ phase = "inserting" /\ phase' = "planning"
      /\ UNCHANGED <<optionVars, atRoot, particles, weights, requestVars, loopVars>>
      /\ \/ pool' = {<<particles[k], weights[k]>> : k \in DOMAIN particles}
         \/ pool' = pool
  BY DEF EndInsert
<1>2. \A k \in DOMAIN particles :
         particles[k] \in States /\ weights[k] \in {FilteredWeight, DefaultWeight}
  BY DEF IInv, TypeOK
<1>3. pool' \subseteq States \X {FilteredWeight, DefaultWeight}
  BY <1>1, <1>2 DEF IInv, TypeOK
<1>4. TypeOK'
  BY <1>1, <1>3 DEF optionVars, requestVars, loopVars, IInv, TypeOK
<1>5. FilteredWeightsEqual'
  BY <1>1 DEF optionVars, IInv, FilteredWeightsEqual
<1>6. PropagatingInv' /\ WeightingInv' /\ ResamplingInv' /\ InsertingInv'
  BY <1>1 DEF PropagatingInv, WeightingInv, ResamplingInv, InsertingInv
<1> QED
  BY <1>4, <1>5, <1>6 DEF IInv

LEMMA ResetKeepsIInv == IInv /\ Reset => IInv'
<1> SUFFICES ASSUME IInv, Reset PROVE IInv'
  OBVIOUS
<1>1. /\ <<>> \in Seq(States) /\ <<>> \in Seq(States \cup {Null})
      /\ <<>> \in Seq({FilteredWeight, DefaultWeight})
      /\ DOMAIN <<>> = {} /\ Len(<<>>) = 0
  BY EmptySeq
<1>2. /\ source' = <<>> /\ i' = 0 /\ particleCounter' = 0
      /\ vector' \in Seq(States \cup {Null}) /\ Len(vector') = 0
  BY <1>1, StartLoopKeeps DEF Reset
<1>3. TypeOK'
  <2>1. particleCounter' \in 0..Len(vector') /\ Len(weights') = Len(particles')
    BY <1>1, <1>2 DEF Reset
  <2> QED
    BY <1>1, <1>2, <2>1 DEF Reset, optionVars, IInv, TypeOK
<1>4. FilteredWeightsEqual'
  BY <1>1 DEF Reset, FilteredWeightsEqual
<1>5. PropagatingInv' /\ WeightingInv' /\ ResamplingInv' /\ InsertingInv'
  BY DEF Reset, PropagatingInv, WeightingInv, ResamplingInv, InsertingInv
<1> QED
  BY <1>3, <1>4, <1>5 DEF IInv

LEMMA StutterKeepsIInv == IInv /\ UNCHANGED vars => IInv'
<1> SUFFICES ASSUME IInv, UNCHANGED vars PROVE IInv'
  OBVIOUS
<1>1. UNCHANGED optionVars /\ UNCHANGED requestVars
  BY DEF vars
<1>2. Candidates' = Candidates /\ Survivors' = Survivors
  BY <1>1, RequestStable
<1>3. TypeOK' /\ FilteredWeightsEqual'
  BY DEF vars, optionVars, beliefVars, requestVars, loopVars, IInv, TypeOK,
         FilteredWeightsEqual
<1>4. PropagatingInv' /\ WeightingInv'
  BY <1>2 DEF vars, requestVars, loopVars, IInv, PropagatingInv, WeightingInv, WritesTo, ReadsFrom
<1>5. ResamplingInv' /\ InsertingInv'
  BY <1>2 DEF vars, beliefVars, loopVars, IInv, ResamplingInv, InsertingInv, WritesTo, ReadsFrom
<1> QED
  BY <1>3, <1>4, <1>5 DEF IInv

LEMMA NextKeepsIInv == IInv /\ [Next]_vars => IInv'
BY SearchKeepsIInv, LoseParticleKeepsIInv, RequestKeepsIInv, PropagateKeepsIInv,
   EndPropagateKeepsIInv, WeightKeepsIInv, EndWeightKeepsIInv, ResampleKeepsIInv,
   EndResampleKeepsIInv, InsertKeepsIInv, EndInsertKeepsIInv, ResetKeepsIInv,
   StutterKeepsIInv DEF Next

LEMMA IInvInvariant == Spec => []IInv
<1>1. IInv /\ [Next]_vars => IInv'
  BY NextKeepsIInv
<1> QED
  BY InitEstablishesIInv, <1>1, PTL DEF Spec

-----------------------------------------------------------------------------
(* The state keeps its types: no loop counts beyond the vector it writes,  *)
(* and each particle has one of the two weights.                           *)
THEOREM TypeCorrect == Spec => []TypeOK
<1>1. IInv => TypeOK
  BY DEF IInv
<1> QED
  BY <1>1, IInvInvariant, PTL

(* No loop of the filter reads a null particle, however many particles the *)
(* loops before it have dropped, and sampling has something to draw from.  *)
THEOREM NoNullParticle == Spec => []LoopsReadParticles
<1>1. IInv => LoopsReadParticles
  <2> SUFFICES ASSUME IInv PROVE LoopsReadParticles
    OBVIOUS
  <2>1. DOMAIN source = 1..Len(source)
    BY DEF IInv, TypeOK
  <2>2. \A s \in States : s # Null
    BY FilterAssumption
  <2>3. CASE phase = "propagating"
    BY <2>2, <2>3 DEF IInv, TypeOK, PropagatingInv, LoopsReadParticles
  <2>4. CASE phase = "weighting"
    BY <2>1, <2>2, <2>4, SurvivorsAreStates
       DEF IInv, WeightingInv, ReadsFrom, LoopsReadParticles
  <2>5. CASE phase = "resampling"
    BY <2>1, <2>2, <2>5, SurvivorsAreStates
       DEF IInv, ResamplingInv, ReadsFrom, LoopsReadParticles
  <2>6. CASE phase = "inserting"
    <3>1. Len(source) = N /\ ReadsFrom(Survivors) /\ N # 0
      BY <2>6, FilterAssumption DEF IInv, InsertingInv
    <3>2. source # <<>>
      BY <3>1, EmptySeq
    <3> QED
      BY <2>1, <2>2, <2>6, <3>1, <3>2, SurvivorsAreStates DEF ReadsFrom, LoopsReadParticles
  <2> QED
    BY <2>3, <2>4, <2>5, <2>6 DEF LoopsReadParticles
<1> QED
  BY <1>1, IInvInvariant, PTL

(* A particle that could only have collided does not get through the loops *)
(* of a robot that may not, whatever they drop, move and draw.             *)
THEOREM CollisionsDropped == Spec => []CollisionFree
<1>1. IInv => CollisionFree
  <2> SUFFICES ASSUME IInv,
                      phase \in {"weighting", "resampling", "inserting"},
                      ~allowCollisions, ~allowTerminal,
                      NEW k \in DOMAIN source
               PROVE  \E j \in DOMAIN previousParticles :
                         <<previousParticles[j], source[k]>> \in Moves \ Colliding
    BY DEF CollisionFree
  <2>1. k \in 1..Len(source)
    BY DEF IInv, TypeOK
  <2>2. source[k] \in Candidates
    BY <2>1 DEF IInv, WeightingInv, ResamplingInv, InsertingInv, ReadsFrom, Survivors
  <2> QED
    BY <2>2 DEF Candidates
<1> QED
  BY <1>1, IInvInvariant, PTL

(* A belief of filtered particles only has no particle that outweighs the  *)
(* others, whichever states planning had in the pool before.               *)
THEOREM WeightsCarriedOver == Spec => []FilteredWeightsEqual
<1>1. IInv => FilteredWeightsEqual
  BY DEF IInv
<1> QED
  BY <1>1, IInvInvariant, PTL

-----------------------------------------------------------------------------
(* The refinement: outside an update a step moves the particles, the loops *)
(* stutter, and the end of the insertion finishes the abstract update.     *)

LEMMA SurvivorsArePosterior == Survivors \subseteq Update!Posterior
BY DEF Survivors, Candidates, Update!Posterior

LEMMA InitRefines == Init => Update!Init
BY DEF Init, Update!Init, Status

Belief == IF phase = "planning" THEN particles ELSE <<>>

LEMMA StepRefines ==
    IInv /\ IInv' /\ [Next]_vars =>
        [Update!Next]_<<Status, previousParticles, likely, Belief>>
<1> SUFFICES ASSUME IInv, IInv', [Next]_vars
             PROVE  [Update!Next]_<<Status, previousParticles, likely, Belief>>
  OBVIOUS
<1> DEFINE Stutter == UNCHANGED <<Status, previousParticles, likely, Belief>>
<1>1. CASE Search \/ LoseParticle
  <2>1. /\ phase = "planning" /\ phase' = "planning"
        /\ UNCHANGED <<previousParticles, likely>>
    BY <1>1 DEF Search, LoseParticle, requestVars
  <2>2. particles' \in Seq(States)
    BY DEF IInv, TypeOK
  <2> QED
    BY <2>1, <2>2 DEF Status, Update!Next, Update!Plan
<1>2. CASE Request
  <2>1. CASE phase' = "failed"
    <3>1. phase = "planning" /\ UNCHANGED <<previousParticles, likely>>
      BY <1>2, <2>1 DEF Request, requestVars
    <3> QED
      BY <2>1, <3>1 DEF Status, Update!Next, Update!Fail
  <2>2. CASE phase' # "failed"
    <3>1. phase = "planning" /\ phase' = "propagating" /\ likely' \in SUBSET States
      BY <1>2, <2>2 DEF Request
    <3>2. previousParticles' \in Seq(States) \ {<<>>}
      BY <3>1 DEF IInv, TypeOK, PropagatingInv
    <3> QED
      BY <3>1, <3>2 DEF Status, Update!Next, Update!Begin
  <2> QED
    BY <2>1, <2>2
<1>3. CASE Propagate \/ EndPropagate \/ Weight \/ Resample \/ EndResample \/ Insert
  BY <1>3 DEF Propagate, EndPropagate, Weight, Resample, EndResample, Insert,
              requestVars, Status, Belief
<1>4. CASE EndWeight
  <2>1. /\ phase = "weighting" /\ phase' \in {"failed", "resampling"}
        /\ UNCHANGED <<previousParticles, likely>>
    BY <1>4 DEF EndWeight, requestVars
  <2> QED
    BY <2>1 DEF Status, Belief, Update!Next, Update!Fail
<1>5. CASE EndInsert
  <2>1. /\ phase = "inserting" /\ phase' = "planning" /\ i = N
        /\ UNCHANGED <<particles, previousParticles, likely>>
    BY <1>5 DEF EndInsert, requestVars
  <2>2. /\ particles \in Seq(States) /\ N <= Len(particles)
        /\ \A k \in (Len(particles) - N + 1)..Len(particles) : particles[k] \in Survivors
    BY <2>1 DEF IInv, TypeOK, InsertingInv
  <2> QED
    BY <2>1, <2>2, SurvivorsArePosterior DEF Status, Update!Next, Update!Finish
<1>6. CASE Reset
  BY <1>6 DEF Reset, Status, Update!Next, Update!Reset
<1>7. CASE UNCHANGED vars
  BY <1>7 DEF vars, beliefVars, requestVars, Status, Belief
<1> QED
  BY <1>1, <1>2, <1>3, <1>4, <1>5, <1>6, <1>7 DEF Next

(* The filter and the insertion implement the belief update they promise:  *)
(* it fails, or exactly N particles go in, all of them posterior ones.     *)
THEOREM Refinement == Spec => ImplementsBeliefUpdate
<1>1. IInv /\ IInv' /\ [Next]_vars =>
        [Update!Next]_<<Status, previousParticles, likely, Belief>>
  BY StepRefines
<1> QED
  BY InitRefines, <1>1, IInvInvariant, PTL
     DEF Spec, ImplementsBeliefUpdate, Update!Spec, Belief
=============================================================================
