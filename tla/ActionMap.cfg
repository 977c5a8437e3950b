SPECIFICATION Spec
CONSTANTS
    Bins <- MCBins
    LegalBins <- MCLegalBins
    NoMean = NoMean
    NoBin = NoBin
    QDeltas <- MCQDeltas
    MaxVisits = 2
    MaxQ = 1
    MaxChildren = 5
INVARIANTS
    TypeOK
    UntriedExactlyOnce
    CountersExact
    ChildlessIsPristine
    VisitedSurviveSaving
PROPERTIES
    EveryBinGetsTried
