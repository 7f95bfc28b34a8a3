SPECIFICATION SchemaSpec
CONSTANTS
    AddColumn = {5, 6, 7, 8, 9}
    Last = 10
    VersionColumn = 5
    MaxFaults = 3
INVARIANTS SchemaTypeOK OpenedUpToDate
PROPERTY Reopens
