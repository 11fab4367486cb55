CONSTANTS
    Scenarios <- MCScenarios
    Increment = 2
    MaxErrors = 1
SPECIFICATION Spec
INVARIANTS TestTells MinimumFound
PROPERTIES Terminates
CHECK_DEADLOCK FALSE
