SPECIFICATION Spec
CONSTANTS
    NRuns <- MCNRuns
    NSimulationSteps <- MCSteps
    Options <- MCOptions
CHECK_DEADLOCK FALSE
INVARIANTS
    TypeOK
    TerminalOnlyInitially
    SuccessIsEarned
    LogAccountsForRewards

    
