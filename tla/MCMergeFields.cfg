SPECIFICATION MCSpec
CONSTANTS
    Branch = {b1, b2}
    Revision = {1, 2, 3, 4, 5, 6}
    Object = {o1}
    Kind = {k1}
    Content <- MCTypedContent
    Bytes = {}
    NoBranch = NoBranch
    NoRevision = NoRevision
    NoKind = NoKind
    NoContent = NoContent
    NoBytes = NoBytes
    NoRoot = NoRoot
    ObjectManifest = ObjectManifest
    MaxGeneration = 1
    MaxGroup = 1
    MaxEdits = 4
    MaxLocalEdits = 0
    FirstMerge = 5
    Version <- MCVersion
    Merger = {m1}
    NoMerge = NoMerge
    Field <- MCField
    TypedKind = {k1}
\* Callers may stop calling, and the bounds stop every run.
CHECK_DEADLOCK FALSE
PROPERTIES MergesLoseNoEdit
