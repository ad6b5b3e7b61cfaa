SPECIFICATION Spec
CONSTANTS
    Branch = {b1}
    Revision = {r1, r2}
    Object = {o1, o2}
    Kind = {k1}
    Content = {c1}
    Bytes = {s1, s2}
    NoBranch = NoBranch
    NoRevision = NoRevision
    NoKind = NoKind
    NoContent = NoContent
    NoBytes = NoBytes
    NoRoot = NoRoot
    ObjectManifest = ObjectManifest
    MaxGeneration = 6
    MaxEdits = 6
    MaxGroup = 2
    Version <- MCVersion
SYMMETRY MCSymmetry
\* Callers may stop calling, and the bounds stop every run.
CHECK_DEADLOCK FALSE
CONSTRAINT Short
INVARIANTS TypeOK WorkingRowsReplay GroupsPartitionJournal UndoRedoNeverConflicts SnapshotUndoNeverConflicts
PROPERTIES ObjectEditsAreAHistory SnapshotEditsAreAHistory
