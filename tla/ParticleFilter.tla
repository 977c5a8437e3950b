--------------------------- MODULE ParticleFilter ---------------------------
(***************************************************************************)
(* The belief update of the ABT plugin: SolverABT::generateParticles_, the *)
(* two loops and the resampling of oppt::ParticleFilter, and the insertion *)
(* of the result into the next belief by updateNextBelief_.                *)
(*                                                                         *)
(* Each loop reads one vector of particles and writes those that survive   *)
(* to the front of another of fixed size, counted by particleCounter; what *)
(* is behind the counter are null pointers.                                *)
(*                                                                         *)
(* The weight of a particle of a belief is kept in its state, and is       *)
(* either 1, the default, or 1/N, that of a filtered particle; it is given *)
(* here in units of 1/N.  Neither is 0, so weighted sampling may draw any  *)
(* particle.  In the filter a likelihood is either zero or positive.       *)
(***************************************************************************)
EXTENDS Integers, SequencesExt

CONSTANTS
    States,         \* states of the model
    InitStates,     \* states sampleInitialState may return
    Moves,          \* the pairs of states the transition function relates
    Colliding,      \* those of them that report a collision
    Null,           \* a null pointer in a vector of particles
    N,              \* minParticleCount
    MaxPlanned      \* bound: particles planning puts into a belief

ASSUME FilterAssumption ==
    /\ InitStates \subseteq States
    /\ InitStates # {}
    /\ Moves \subseteq States \X States
    /\ Colliding \subseteq Moves
    /\ Null \notin States
    /\ N \in Nat \ {0}
    /\ MaxPlanned \in Nat

VARIABLES
    allowCollisions,    \* the robot's setting of that name
    keepsHistories,     \* hasChanges || interactive
    pruneEveryStep,     \* the option of that name
    pool,               \* StatePool: the states that it holds, with their weights
    atRoot,             \* the current belief is the root of the tree
    particles,          \* the states of the particles of the current belief,
    weights,            \*   and their weights
    phase,              \* what the plugin is doing
    previousParticles,  \* the request of the update: the prior,
    likely,             \*   the states with a likelihood above 0, and
    allowTerminal,      \*   allowTerminalStates
    source,             \* the vector the running loop reads
    vector,             \* the vector it writes
    i,                  \* its index
    particleCounter     \* the particles it has written

optionVars == <<allowCollisions, keepsHistories, pruneEveryStep>>
beliefVars == <<pool, atRoot, particles, weights>>
requestVars == <<previousParticles, likely, allowTerminal>>
loopVars == <<source, vector, i, particleCounter>>
vars == <<optionVars, beliefVars, requestVars, loopVars, phase>>

-----------------------------------------------------------------------------
Nulls(n) == [k \in 1..n |-> Null]

(* The start of a loop over from that writes at most size particles. *)
StartLoop(from, size) ==
    /\ source' = from
    /\ vector' = Nulls(size)
    /\ i' = 0
    /\ particleCounter' = 0

(* One round: a surviving particle goes behind those already written. *)
WriteAtIndex(p, survives) ==                                        \* mutant
    /\ vector' = IF survives THEN [vector EXCEPT ![i + 1] = p] ELSE vector
    /\ particleCounter' = IF survives THEN particleCounter + 1 ELSE particleCounter
    /\ i' = i + 1
    /\ UNCHANGED source

Write(p, survives) ==
    /\ vector' = IF survives THEN [vector EXCEPT ![particleCounter + 1] = p] ELSE vector
    /\ particleCounter' = IF survives THEN particleCounter + 1 ELSE particleCounter
    /\ i' = i + 1
    /\ UNCHANGED source

(* The vector cut down to what was written. *)
Written == SubSeq(vector, 1, particleCounter)

(* The weights of new states and of filtered particles, in units of 1/N. *)
DefaultWeight == N
FilteredWeight == 1

SameValues(p, q) == p[1] = q[1]                                     \* mutant

(* VectorState::equals: the same values and the same weight. *)
SameState(p, q) == p[1] = q[1] /\ p[2] = q[2]

(* createOrGetInfo: a state equal to one in the pool is dropped for that.  *)
Info(p) == IF \E q \in pool : SameState(q, p)
           THEN CHOOSE q \in pool : SameState(q, p) ELSE p

-----------------------------------------------------------------------------
Init ==
    /\ allowCollisions \in BOOLEAN
    /\ keepsHistories \in BOOLEAN
    /\ pruneEveryStep \in BOOLEAN
    /\ pool = {}
    /\ atRoot = TRUE
    /\ particles = <<>>
    /\ weights = <<>>
    /\ phase = "planning"
    /\ previousParticles = <<>> /\ likely = {} /\ allowTerminal = FALSE
    /\ source = <<>> /\ vector = <<>> /\ i = 0 /\ particleCounter = 0

(* A search puts the states it visits into the pool.  From the root it     *)
(* starts at an initial state and makes that a particle of the root.       *)
Search ==
    /\ phase = "planning"
    /\ \E s \in IF atRoot THEN InitStates ELSE ToSet(particles),
          visited \in SUBSET States :
          /\ \A t \in visited : \E p \in visited \cup {s} : <<p, t>> \in Moves
          /\ pool' = pool \cup {Info(<<t, DefaultWeight>>) :
                                    t \in IF atRoot THEN visited \cup {s} ELSE visited}
          /\ IF atRoot
             THEN /\ Len(particles) < MaxPlanned
                  /\ particles' = Append(particles, s)
                  /\ weights' = Append(weights, DefaultWeight)
             ELSE UNCHANGED <<particles, weights>>
    /\ UNCHANGED <<optionVars, atRoot, requestVars, loopVars, phase>>

(* A changed model deletes the sequences whose first state it deletes. *)
LoseParticle ==
    /\ phase = "planning"
    /\ keepsHistories
    /\ \E k \in DOMAIN particles : /\ particles' = RemoveAt(particles, k)
                                   /\ weights' = RemoveAt(weights, k)
    /\ UNCHANGED <<optionVars, pool, atRoot, requestVars, loopVars, phase>>

-----------------------------------------------------------------------------
(* generateParticles_: the prior is the current belief, at the root filled *)
(* up with initial states; without any particle the update fails.          *)
Request ==
    /\ phase = "planning"
    /\ \E extra \in IF atRoot /\ Len(particles) < N
                    THEN [1..(N - Len(particles)) -> InitStates] ELSE {<<>>} :
       LET prior == particles \o extra
       IN IF prior = <<>>
          THEN /\ phase' = "failed"
               /\ UNCHANGED <<requestVars, loopVars>>
          ELSE /\ phase' = "propagating"
               /\ previousParticles' = prior
               /\ likely' \in SUBSET States
               /\ allowTerminal' \in BOOLEAN
               /\ StartLoop(prior, N)
    /\ UNCHANGED <<optionVars, beliefVars>>

PropagateUnchecked ==                                               \* mutant
    /\ phase = "propagating"
    /\ i < N
    /\ \E k \in DOMAIN source, t \in States : <<source[k], t>> \in Moves /\ Write(t, TRUE)
    /\ UNCHANGED <<optionVars, beliefVars, requestVars, phase>>

(* propagateParticles, a round of its loop: a particle of the prior moves, *)
(* and is dropped if it collides and may not.                              *)
Propagate ==
    /\ phase = "propagating"
    /\ i < N
    /\ \E k \in DOMAIN source, t \in States :
          /\ <<source[k], t>> \in Moves
          /\ Write(t, \/ allowCollisions \/ allowTerminal
                      \/ <<source[k], t>> \notin Colliding)
    /\ UNCHANGED <<optionVars, beliefVars, requestVars, phase>>

EndPropagate ==
    /\ phase = "propagating"
    /\ i = N
    /\ phase' = "weighting"
    /\ StartLoop(Written, particleCounter)
    /\ UNCHANGED <<optionVars, beliefVars, requestVars>>

(* filter, a round of its loop: particles the observation excludes go. *)
Weight ==
    /\ phase = "weighting"
    /\ i < Len(source)
    /\ Write(source[i + 1], source[i + 1] \in likely)
    /\ UNCHANGED <<optionVars, beliefVars, requestVars, phase>>

(* With no particle left the update fails. *)
EndWeight ==
    /\ phase = "weighting"
    /\ i = Len(source)
    /\ IF particleCounter = 0
       THEN phase' = "failed" /\ UNCHANGED loopVars
       ELSE phase' = "resampling" /\ StartLoop(Written, N)
    /\ UNCHANGED <<optionVars, beliefVars, requestVars>>

ResampleOffByOne ==                                                 \* mutant
    /\ phase = "resampling"
    /\ i <= N
    /\ \E k \in DOMAIN source : Write(source[k], TRUE)
    /\ UNCHANGED <<optionVars, beliefVars, requestVars, phase>>

(* sampleWeighted, with replacement; N particles in place of those left. *)
Resample ==
    /\ phase = "resampling"
    /\ i < N
    /\ \E k \in DOMAIN source : Write(source[k], TRUE)
    /\ UNCHANGED <<optionVars, beliefVars, requestVars, phase>>

-----------------------------------------------------------------------------
(* updateNextBelief_: the particles that planning left in the next belief  *)
(* are deleted, unless histories are kept.                                 *)
EndResample ==
    /\ phase = "resampling"
    /\ i = N
    /\ phase' = "inserting"
    /\ atRoot' = FALSE
    /\ \E n \in IF keepsHistories THEN 0..MaxPlanned ELSE {0} :
          /\ particles' \in [1..n -> {s \in States : <<s, DefaultWeight>> \in pool}]
          /\ weights' = [k \in 1..n |-> DefaultWeight]
    /\ StartLoop(vector, 0)
    /\ UNCHANGED <<optionVars, pool, requestVars>>

InsertIfNew ==                                                      \* mutant
    /\ phase = "inserting"
    /\ i < N
    /\ LET info == Info(<<source[i + 1], FilteredWeight>>)
       IN IF info \in pool
          THEN UNCHANGED <<pool, particles, weights>>
          ELSE /\ pool' = pool \cup {info}
               /\ particles' = Append(particles, info[1])
               /\ weights' = Append(weights, info[2])
    /\ i' = i + 1
    /\ UNCHANGED <<optionVars, atRoot, requestVars, source, vector, particleCounter, phase>>

Insert ==
    /\ phase = "inserting"
    /\ i < N
    /\ LET info == Info(<<source[i + 1], FilteredWeight>>)
       IN /\ pool' = pool \cup {info}
          /\ particles' = Append(particles, info[1])
          /\ weights' = Append(weights, info[2])
    /\ i' = i + 1
    /\ UNCHANGED <<optionVars, atRoot, requestVars, source, vector, particleCounter, phase>>

(* serializeStep: with pruneEveryStep the pool keeps the states of the     *)
(* current belief, unless histories are kept.                              *)
EndInsert ==
    /\ phase = "inserting"
    /\ i = N
    /\ phase' = "planning"
    /\ pool' = IF pruneEveryStep /\ ~keepsHistories
               THEN {<<particles[k], weights[k]>> : k \in DOMAIN particles} ELSE pool
    /\ UNCHANGED <<optionVars, atRoot, particles, weights, requestVars, loopVars>>

(* The next run: reset makes a new solver. *)
Reset ==
    /\ phase = "failed"
    /\ phase' = "planning"
    /\ pool' = {}
    /\ atRoot' = TRUE
    /\ particles' = <<>>
    /\ weights' = <<>>
    /\ previousParticles' = <<>> /\ likely' = {} /\ allowTerminal' = FALSE
    /\ StartLoop(<<>>, 0)
    /\ UNCHANGED optionVars

Next ==
    \/ Search \/ LoseParticle
    \/ Request \/ Propagate \/ EndPropagate \/ Weight \/ EndWeight
    \/ Resample \/ EndResample \/ Insert \/ EndInsert \/ Reset

Spec == Init /\ [][Next]_vars

-----------------------------------------------------------------------------
(* The types of the state.  No loop counts beyond the vector it writes. *)
TypeOK ==
    /\ allowCollisions \in BOOLEAN /\ keepsHistories \in BOOLEAN
    /\ pruneEveryStep \in BOOLEAN /\ atRoot \in BOOLEAN /\ allowTerminal \in BOOLEAN
    /\ pool \subseteq States \X {FilteredWeight, DefaultWeight}
    /\ particles \in Seq(States)
    /\ weights \in Seq({FilteredWeight, DefaultWeight})
    /\ Len(weights) = Len(particles)
    /\ phase \in {"planning", "propagating", "weighting", "resampling", "inserting",
                   "failed"}
    /\ previousParticles \in Seq(States)
    /\ likely \subseteq States
    /\ source \in Seq(States \cup {Null})
    /\ vector \in Seq(States \cup {Null})
    /\ i \in Nat /\ particleCounter \in 0..Len(vector)

(* No loop reads a null particle, and none is left with nothing to read:   *)
(* the particles that survive are written without gaps, cut off at their   *)
(* number, and a loop that wrote none is the last.                         *)
LoopsReadParticles ==
    phase \in {"propagating", "weighting", "resampling", "inserting"} =>
        /\ \A k \in DOMAIN source : source[k] # Null
        /\ source = <<>> => phase = "weighting"

(* Unless terminal states are allowed, a robot that may not collide has no *)
(* particle that could only have got where it is by a collision, whatever  *)
(* the loops dropped and moved after it was propagated.                    *)
CollisionFree ==
    phase \in {"weighting", "resampling", "inserting"} /\ ~allowCollisions /\ ~allowTerminal =>
        \A k \in DOMAIN source :
            \E j \in DOMAIN previousParticles :
                <<previousParticles[j], source[k]>> \in Moves \ Colliding

(* The vectors, counters and loops implement the belief update promised.   *)
Status == IF phase = "planning" THEN "idle"
          ELSE IF phase = "failed" THEN "failed" ELSE "updating"

Update == INSTANCE BeliefUpdate WITH
    status <- Status,
    prior  <- previousParticles,
    belief <- IF phase = "planning" THEN particles ELSE <<>>

ImplementsBeliefUpdate == Update!Spec

(* ParticleFilter.hpp: the filtered particles come with their new weights, *)
(* which after resampling are all the same.  They enter the belief with    *)
(* them, also when planning has met an equal state with another weight;    *)
(* so where a belief holds only filtered particles, none of them outweighs *)
(* another in the next prior.                                              *)
FilteredWeightsEqual ==
    /\ phase = "inserting" =>
           \A k \in DOMAIN weights : k > Len(weights) - i => weights[k] = FilteredWeight
    /\ ~atRoot /\ ~keepsHistories => \A k \in DOMAIN weights : weights[k] = FilteredWeight
=============================================================================
