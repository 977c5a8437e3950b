SPECIFICATION Spec
CONSTANTS
    States <- MCStates
    Initial = {"i"}
    Terminal = {"t"}
    Colliding = {"a", "b"}
    Actions = {"go"}
    NoAction = "none"
    Observations = {"o1", "o2", "o3"}
    NoObservation = "none"
    Cell <- MCCell
    Moves <- MCMoves
    Observe <- MCObserve
    MaximumDepth = 3
    NSimulationSteps = 2
    Sequences = {1, 2}
INVARIANT ObservationsCurrent
CHECK_DEADLOCK FALSE
