SPECIFICATION SpecRepair
CONSTANTS
    MaxRows = 2
    Workshops = {"w1", "w2"}
    MaxOperations = 3
    MaxFaults = 2
    ByRename = FALSE
INVARIANTS NothingElseLost FilesBelongTogether BackupSurvives
