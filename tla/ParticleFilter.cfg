SPECIFICATION Spec
CONSTANTS
    States <- MCStates
    InitStates <- MCInitStates
    Moves <- MCMoves
    Colliding <- MCColliding
    Null = Null
    N = 2
    MaxPlanned = 1
INVARIANTS
    TypeOK
    LoopsReadParticles
    CollisionFree
    FilteredWeightsEqual
PROPERTIES
    ImplementsBeliefUpdate
