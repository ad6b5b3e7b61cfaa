SPECIFICATION MCSpec
CONSTANTS
    Branch = {b1, b2}
    Revision = {1, 2, 3, 4, 5, 6, 7}
    Object = {o1}
    Kind = {k1}
    Content = {c1}
    Bytes = {}
    NoBranch = NoBranch
    NoRevision = NoRevision
    NoKind = NoKind
    NoContent = NoContent
    NoBytes = NoBytes
    NoRoot = NoRoot
    ObjectManifest = ObjectManifest
    MaxGeneration = 1
    MaxGroup = 1
    MaxEdits = 1
    MaxLocalEdits = 0
    FirstMerge = 5
    Version <- MCVersion
    Merger = {m1}
    NoMerge = NoMerge
    Field = {}
    TypedKind = {}
\* Callers may stop calling, and the bounds stop every run.
CHECK_DEADLOCK FALSE
INVARIANTS MergeBasesAreBest MergeParentsDiverge
