SPECIFICATION Spec
CONSTANTS
    Definitions <- MCDefinitions
    Root = "r"
INVARIANTS
    LoopMatchesClosedForm
    NeverStuck
    RunsOnlySelectedNodes
    JoinsWaitForEveryRoute
CHECK_DEADLOCK FALSE
