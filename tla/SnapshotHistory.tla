--------------------------- MODULE SnapshotHistory ---------------------------
(***************************************************************************)
(* Opaque-mode editing of a working revision: whole-snapshot replacement   *)
(* with a linear undo and redo history (database.cpp, history.cpp).        *)
(***************************************************************************)
EXTENDS RevisionTables, UndoStack

\* applySnapshotOperation: store or remove the snapshot and record the change
\* under the next generation.  An operation that changes nothing is refused.
ApplySnapshotOperation(r, new, action, target) ==
    /\ generation[r] < MaxGeneration
    /\ snapshot[r] # new
    /\ snapshot' = [snapshot EXCEPT ![r] = new]
    /\ generation' = [generation EXCEPT ![r] = @ + 1]
    /\ operations' = [operations EXCEPT ![r] =
                         Append(@, [action |-> action, target |-> target,
                                    before |-> snapshot[r], after |-> new])]
    /\ UNCHANGED <<head, rows, state, branchOf, number, objectMode, parents,
                   root, journal, groups>>

\* The head of b can take an opaque operation of a caller that expects this
\* generation.
OpaqueHead(b, expected) ==
    /\ HasWorkingHead(b)
    /\ generation[head[b]] = expected
    /\ objectMode[head[b]] = 0

ReplaceWorkingSnapshot(b, expected, bytes) ==
    /\ OpaqueHead(b, expected)
    /\ ApplySnapshotOperation(head[b], bytes, "replace", 0)

\* The stored snapshot must be exactly what the operation left behind.
UndoLastChange(b, expected) ==
    LET r      == head[b]
        stack  == Stacks(operations[r]).applied
        target == Top(stack)
    IN
    /\ OpaqueHead(b, expected)
    /\ Stacks(operations[r]).valid
    /\ stack # <<>>
    /\ target \in DOMAIN operations[r]
    /\ snapshot[r] # NoBytes
    /\ snapshot[r] = operations[r][target].after
    /\ ApplySnapshotOperation(r, operations[r][target].before, "undo", target)

\* The stored snapshot must be exactly what the operation had found.
RedoLastChange(b, expected) ==
    LET r      == head[b]
        stack  == Stacks(operations[r]).undone
        target == Top(stack)
    IN
    /\ OpaqueHead(b, expected)
    /\ Stacks(operations[r]).valid
    /\ stack # <<>>
    /\ target \in DOMAIN operations[r]
    /\ snapshot[r] = operations[r][target].before
    /\ ApplySnapshotOperation(r, operations[r][target].after, "redo", target)
=============================================================================
