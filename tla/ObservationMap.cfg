SPECIFICATION Spec
CONSTANTS
    q1 = q1
    q2 = q2
    q3 = q3
    Last_ = 4
    MaxDistance = 1
    Observations <- MCObservations
    Distance <- MCDistance
    Sequences <- MCSequences
SYMMETRY MCSymmetry
INVARIANTS
    HistoriesFindEntries
    VisitsFollowHistories
CHECK_DEADLOCK FALSE
