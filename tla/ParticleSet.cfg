SPECIFICATION Spec
CONSTANTS
    Entries = {e1, e2, e3, e4, e5}
    Nothing = Nothing
    Capacity = 5
SYMMETRY MCSymmetry
INVARIANTS
    TypeOK
    ListMatchesMap
    LoopReadsOwnedEntries
PROPERTIES
    ImplementsEntrySet
