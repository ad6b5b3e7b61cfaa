-------------------------- MODULE HistoryRefinement --------------------------
(***************************************************************************)
(* The store implements EditHistory on every branch, for object edits and  *)
(* for opaque snapshots.  The store keeps no stack of earlier models: what *)
(* the abstract stacks hold is recovered from the journal by the mapping.  *)
(***************************************************************************)
EXTENDS RevisionStore

\* An object as an editor sees it: tombstones and missing rows are the same,
\* and versions do not show.
Gone == [kind |-> NoKind, content |-> NoContent]

Visible(row) ==
    IF row.deleted THEN Gone ELSE [kind |-> row.kind, content |-> row.content]

VisibleModel(model) == [o \in Object |-> Visible(model[o])]

Smallest(S) == CHOOSE x \in S : \A y \in S : x <= y

\* The positions from 'from' on of the groups of a stack that name object o.
Naming(r, stack, from, o) ==
    {k \in from..Len(stack) : IsTouched(GroupEvents(r, stack[k]), o)}

EventOn(r, g, o) ==
    LET events == GroupEvents(r, g)
    IN  events[CHOOSE i \in DOMAIN events : events[i].object = o]

\* The model before the groups stack[k..], of which all are in effect.
BeforeApplied(b, stack, k) ==
    [o \in Object |->
        LET named == Naming(head[b], stack, k, o) IN
        IF named = {} THEN Visible(rows[b][o])
        ELSE Visible(EventOn(head[b], stack[Smallest(named)], o).before)]

\* The model after the groups stack[k..] are redone, the last one first.
AfterRedone(b, stack, k) ==
    [o \in Object |->
        LET named == Naming(head[b], stack, k, o) IN
        IF named = {} THEN Visible(rows[b][o])
        ELSE Visible(EventOn(head[b], stack[Smallest(named)], o).after)]

IsOpen(b) == head[b] # NoRevision

ObjectPast(b) ==
    IF IsOpen(b)
    THEN LET stack == Compensable(head[b], FALSE)
         IN  [k \in DOMAIN stack |-> BeforeApplied(b, stack, k)]
    ELSE <<>>

ObjectFuture(b) ==
    IF IsOpen(b)
    THEN LET stack == Compensable(head[b], TRUE)
         IN  [k \in DOMAIN stack |-> AfterRedone(b, stack, k)]
    ELSE <<>>

ObjectHistory(b) ==
    INSTANCE EditHistory WITH
        State <- [Object -> [kind : Kind \cup {NoKind},
                             content : Content \cup {NoContent}]],
        open <- IsOpen(b),
        current <- VisibleModel(rows[b]),
        past <- ObjectPast(b),
        future <- ObjectFuture(b)

\* The opaque bytes an editor of b sees; an object-mode branch has none.
VisibleBytes(b) ==
    IF IsOpen(b) /\ objectMode[head[b]] = 0 THEN snapshot[head[b]] ELSE NoBytes

SnapshotPast(b) ==
    IF IsOpen(b)
    THEN LET stack == Stacks(operations[head[b]]).applied
         IN  [k \in DOMAIN stack |-> operations[head[b]][stack[k]].before]
    ELSE <<>>

SnapshotFuture(b) ==
    IF IsOpen(b)
    THEN LET stack == Stacks(operations[head[b]]).undone
         IN  [k \in DOMAIN stack |-> operations[head[b]][stack[k]].after]
    ELSE <<>>

SnapshotHistoryOf(b) ==
    INSTANCE EditHistory WITH
        State <- Bytes \cup {NoBytes},
        open <- IsOpen(b),
        current <- VisibleBytes(b),
        past <- SnapshotPast(b),
        future <- SnapshotFuture(b)

\* Grouped undo and redo of object edits (compensateObjectGroup) behave as a
\* linear edit history on every branch: whatever mixture of single edits,
\* groups, undos, redos and finalizations happened, an undo shows exactly the
\* model before the latest edit in effect, and a redo exactly the one undone.
ObjectEditsAreAHistory ==
    /\ \A b \in Branch : ObjectHistory(b)!HInit
    /\ [][\A b \in Branch :
             [ObjectHistory(b)!HNext]_(ObjectHistory(b)!hvars)]_tables

\* Undo and redo of whole-snapshot replacements (undoLastChange,
\* redoLastChange) behave as a linear edit history on every branch.
SnapshotEditsAreAHistory ==
    /\ \A b \in Branch : SnapshotHistoryOf(b)!HInit
    /\ [][\A b \in Branch :
             [SnapshotHistoryOf(b)!HNext]_(SnapshotHistoryOf(b)!hvars)]_tables
=============================================================================
