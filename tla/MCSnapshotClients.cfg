SPECIFICATION ClientSpec
CONSTANTS
    Branch = {b1}
    Revision = {r1, r2}
    Object = {o1}
    Kind = {k1}
    Content = {c1, c2}
    Bytes = {s1, s2}
    NoBranch = NoBranch
    NoRevision = NoRevision
    NoKind = NoKind
    NoContent = NoContent
    NoBytes = NoBytes
    NoRoot = NoRoot
    ObjectManifest = ObjectManifest
    MaxGeneration = 2
    Client = {u1, u2}
    NoView = NoView
    MaxGroup = 1
    Version <- MCVersion
SYMMETRY MCSymmetry
\* Callers may stop calling, and the bounds stop every run.
CHECK_DEADLOCK FALSE
PROPERTIES StaleReplacementsAreRejected
