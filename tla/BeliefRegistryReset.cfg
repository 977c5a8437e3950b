SPECIFICATION SpecWithChanges
CONSTANTS
    q1 = q1
    q2 = q2
    q3 = q3
    Sequences <- MCSequences
    States <- MCStates
    InitStates <- MCInitStates
    TerminalStates <- MCTerminalStates
    Edges <- MCEdges
    MaxDepth = 2
    MinParticles = 1
SYMMETRY MCSymmetry
INVARIANT UsersAreOwned
