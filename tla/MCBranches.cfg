SPECIFICATION Spec
CONSTANTS
    Branch = {b1, b2}
    Revision = {r1, r2, r3, r4, r5}
    Object = {o1}
    Kind = {k1, k2}
    Content = {c1, c2}
    Bytes = {s1, s2}
    NoBranch = NoBranch
    NoRevision = NoRevision
    NoKind = NoKind
    NoContent = NoContent
    NoBytes = NoBytes
    NoRoot = NoRoot
    ObjectManifest = ObjectManifest
    MaxGeneration = 2
    MaxGroup = 1
    Version <- MCVersion
SYMMETRY MCSymmetry
\* Callers may stop calling, and the bounds stop every run.
CHECK_DEADLOCK FALSE
INVARIANTS OneWorkingHeadPerBranch ModesNeverMix
PROPERTIES HistoryIsImmutable FinalizePreservesModel VersionsAreNeverReused GenerationCountsEdits
