SPECIFICATION Spec
CONSTANTS
    Failed = Failed
    NoDigest = NoDigest
    KeyLength = 3
    Branches = 2
    Key <- MCKey
    Requests <- MCRequests
    Record = {r1, r2}
    MaxSealed = 2
    MaxDamaged = 1
SYMMETRY MCSymmetry
\* The bounds stop every run.
CHECK_DEADLOCK FALSE
INVARIANTS RootsAreCanonical RootsReadBack VerificationFindsDamage DifferencesAreExact StoreHoldsTheRoots
