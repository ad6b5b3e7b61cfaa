SPECIFICATION Spec
CONSTANTS
    n1 = n1
    n2 = n2
    j1 = j1
    j2 = j2
    p = p
    d = d
    Null = Null
    Absent = Absent
    Gone = Gone
    NoEvent = NoEvent
    OutOfRange = OutOfRange
    Uuid <- MCUuid
    KindOf <- MCKindOf
    Edits <- MCEdits
    Network <- MCNetwork
    Import <- MCImport
    MaxIncremental = 2
    MaxEdits = 2
\* The bounds stop every run.
CHECK_DEADLOCK FALSE
INVARIANTS IndexesMatchRows NetworksStayValid UndoRefusedOnlyForOrphans
