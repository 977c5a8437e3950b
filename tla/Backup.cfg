SPECIFICATION Spec
CONSTANTS
    Edges <- MCEdges
    Nodes <- MCNodes
INVARIANTS
    TypeOK
    StaleIsQueued
    QueuedNodesExist
    BackedUpOnce
PROPERTIES
    BackupEnds
