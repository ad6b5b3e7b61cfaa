SPECIFICATION Spec
CONSTANTS
    Editor = {e1, e2}
    Finalizer = {f}
    MaxRevisions = 3
    NoRevision = NoRevision
    NoRoot = NoRoot
    NoLock = NoLock
    NoRequest = NoRequest
\* Editors that got their answer may never call again.
CHECK_DEADLOCK FALSE
INVARIANTS AnswersAreTrue EveryStatementIsAllowed
PROPERTIES StoreIsAtomic NothingWaitsForever
