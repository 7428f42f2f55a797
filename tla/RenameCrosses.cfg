SPECIFICATION Spec
CONSTANTS
    MaxEdits = 2
    MaxTitles = 1
    MaxFaults = 0
INVARIANTS
    RenameCarriesTheCanvas
CHECK_DEADLOCK FALSE
