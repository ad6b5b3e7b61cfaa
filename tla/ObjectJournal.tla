---------------------------- MODULE ObjectJournal ----------------------------
(***************************************************************************)
(* Object-mode editing of a working revision: single edits, atomic groups  *)
(* of edits, and grouped undo and redo as compensating edits               *)
(* (objects.cpp, object_groups.cpp).                                       *)
(*                                                                         *)
(* An edit names an object, a kind, the new content (NoContent deletes)    *)
(* and the version of the row its caller expects to replace.  The edits    *)
(* of a group name distinct objects, so each of them meets the row that    *)
(* the transaction found when it began.                                    *)
(***************************************************************************)
EXTENDS RevisionTables, UndoStack

CONSTANT Version,      \* the expected versions callers may pass
         MaxGroup      \* bound on the edits of a group

ASSUME VersionsAreInts == Version \subseteq Int

Edit == [object : Object, kind : Kind, content : Content \cup {NoContent},
         expected : Version]

DistinctObjects(edits) ==
    \A i, j \in DOMAIN edits : edits[i].object = edits[j].object => i = j

\* What a caller can hand to commitObjectGroup: no empty group, no object twice.
EditGroups ==
    {edits \in UNION {[1..n -> Edit] : n \in 1..MaxGroup} :
        DistinctObjects(edits)}

-----------------------------------------------------------------------------
(* modifyObjectInTransaction                                               *)

\* A mistaken ObjectModeAllowed: opaque data does not forbid object edits.
AnyModeAllowed(r) == TRUE

\* A fresh revision becomes an object-mode one on its first edit, unless it
\* already holds opaque data.
ObjectModeAllowed(r) ==
    objectMode[r] = 0 => snapshot[r] = NoBytes /\ operations[r] = <<>>

\* The checks on one edit against the row it would replace.
Accepts(row, edit) ==
    /\ edit.expected = row.version
    /\ edit.content = NoContent => ~row.deleted
    /\ edit.content # NoContent =>
          /\ row # Absent => edit.kind = row.kind
          /\ ~row.deleted => edit.content # row.content

\* Two mistakes in Written: counting up from the version that stands for "no
\* row", and starting again when a deleted object is created again.
CountedFromAbsent(row, edit) ==
    [kind    |-> IF row = Absent THEN edit.kind ELSE row.kind,
     version |-> row.version + 1,
     deleted |-> edit.content = NoContent,
     content |-> edit.content]

RestartedVersion(row, edit) ==
    [kind    |-> IF row = Absent THEN edit.kind ELSE row.kind,
     version |-> IF row.deleted THEN 1 ELSE row.version + 1,
     deleted |-> edit.content = NoContent,
     content |-> edit.content]

\* The row an accepted edit leaves.  A deletion keeps the row as a tombstone.
Written(row, edit) ==
    [kind    |-> IF row = Absent THEN edit.kind ELSE row.kind,
     version |-> IF row = Absent THEN 1 ELSE row.version + 1,
     deleted |-> edit.content = NoContent,
     content |-> edit.content]

EventOf(model, edit) ==
    [object |-> edit.object,
     before |-> model[edit.object],
     after  |-> Written(model[edit.object], edit)]

\* The model after every event of a list of events on distinct objects.
AfterEvents(model, events) ==
    [o \in Object |->
        IF IsTouched(events, o)
        THEN events[CHOOSE i \in DOMAIN events : events[i].object = o].after
        ELSE model[o]]

\* A mistaken WriteObjectGroup: the group claims the event before its first.
OverlappingGroup(r, action, target, before, after) ==
    /\ after > before
    /\ groups' = [groups EXCEPT ![r] =
                     Append(@, [action |-> action, target |-> target,
                                first |-> before, last |-> after])]

\* writeObjectGroupInTransaction: one group over the events the transaction
\* appended after generation before.
WriteObjectGroup(r, action, target, before, after) ==
    /\ after > before
    /\ groups' = [groups EXCEPT ![r] =
                     Append(@, [action |-> action, target |-> target,
                                first |-> before + 1, last |-> after])]

\* One transaction that makes these edits on the head of b, in order, and
\* records them as one group.
ApplyEdits(b, edits, action, target) ==
    LET r      == head[b]
        events == [i \in 1..Len(edits) |-> EventOf(rows[b], edits[i])]
    IN
    /\ generation[r] + Len(edits) <= MaxGeneration
    /\ ObjectModeAllowed(r)
    /\ \A i \in 1..Len(edits) : Accepts(rows[b][edits[i].object], edits[i])
    /\ rows' = [rows EXCEPT ![b] = AfterEvents(@, events)]
    /\ generation' = [generation EXCEPT ![r] = @ + Len(edits)]
    /\ objectMode' = [objectMode EXCEPT ![r] = 1]
    /\ journal' = [journal EXCEPT ![r] = @ \o events]
    /\ WriteObjectGroup(r, action, target, generation[r],
                        generation[r] + Len(edits))
    /\ UNCHANGED <<head, state, branchOf, number, parents, root, snapshot,
                   operations>>

\* A mistaken ModifyObject: the row is written without a journal entry.
UnjournaledEdit(b, edit) ==
    /\ HasWorkingHead(b)
    /\ ObjectModeAllowed(head[b])
    /\ Accepts(rows[b][edit.object], edit)
    /\ rows' = [rows EXCEPT ![b][edit.object] = Written(@, edit)]
    /\ objectMode' = [objectMode EXCEPT ![head[b]] = 1]
    /\ UNCHANGED <<head, state, branchOf, number, generation, parents, root,
                   snapshot, journal, groups, operations>>

\* putObject and deleteObject: no generation is expected, only the version.
ModifyObject(b, edit) ==
    /\ HasWorkingHead(b)
    /\ ApplyEdits(b, <<edit>>, "edit", 0)

CommitObjectGroup(b, expected, edits) ==
    /\ HasWorkingHead(b)
    /\ generation[head[b]] = expected
    /\ ApplyEdits(b, edits, "edit", 0)

-----------------------------------------------------------------------------
(* compensateObjectGroup                                                   *)

GroupEvents(r, g) ==
    SubSeq(journal[r], groups[r][g].first, groups[r][g].last)

\* The events of group g in the order they are compensated: undo goes
\* backwards.
CompensatedEvents(r, g, redo) ==
    LET events == GroupEvents(r, g)
        n      == Len(events)
    IN  [i \in 1..n |-> IF redo THEN events[i] ELSE events[n + 1 - i]]

SameObject(left, right) ==
    /\ left.deleted = right.deleted
    /\ ~left.deleted => left.content = right.content

\* The live row still is what the event left (undo) or found (redo).
Matches(row, event, redo) ==
    /\ row # Absent
    /\ SameObject(row, IF redo THEN event.before ELSE event.after)

\* The edit that takes the row back (undo) or forward again (redo).
CompensatingEdit(row, event, redo) ==
    LET wanted == IF redo THEN event.after ELSE event.before IN
    [object   |-> event.object,
     kind     |-> event.after.kind,
     content  |-> IF wanted.deleted THEN NoContent ELSE wanted.content,
     expected |-> row.version]

\* What undo or redo would compensate next.
Compensable(r, redo) ==
    IF redo THEN Stacks(groups[r]).undone ELSE Stacks(groups[r]).applied

\* undoObjectGroup and redoObjectGroup.
CompensateObjectGroup(b, expected, redo) ==
    LET r      == head[b]
        stack  == Compensable(r, redo)
        target == Top(stack)
        events == CompensatedEvents(r, target, redo)
    IN
    /\ HasWorkingHead(b)
    /\ generation[r] = expected
    /\ Stacks(groups[r]).valid
    /\ stack # <<>>
    /\ target \in DOMAIN groups[r]
    /\ groups[r][target].action = "edit"
    /\ events # <<>>
    /\ \A i \in DOMAIN events : Matches(rows[b][events[i].object], events[i], redo)
    /\ ApplyEdits(b, [i \in DOMAIN events |->
                         CompensatingEdit(rows[b][events[i].object],
                                          events[i], redo)],
                  IF redo THEN "redo" ELSE "undo", target)

-----------------------------------------------------------------------------
(* verifyRevisionJournalReplay                                             *)

\* Replaying the first n events on baseline leaves this row for object o: the
\* one its last event wrote or, if none names o, the one of the baseline.
Yields(baseline, events, n, o, row) ==
    \/ /\ \A i \in 1..n : events[i].object # o
       /\ row = baseline[o]
    \/ \E i \in 1..n :
          /\ events[i].object = o
          /\ \A k \in (i + 1)..n : events[k].object # o
          /\ row = events[i].after

\* The checks on one event alone: version step, stable kind, no deletion of
\* what is not there, content exactly when not deleted.
WellFormedEvent(event) ==
    LET before == event.before
        after  == event.after
    IN
    /\ after.version = IF before = Absent THEN 1 ELSE before.version + 1
    /\ before # Absent => after.kind = before.kind
    /\ after.deleted => ~before.deleted
    /\ after.deleted <=> after.content = NoContent

\* Every event found what the events before it had left, and together they
\* turn the baseline into the result.
JournalReplays(baseline, events, result) ==
    /\ \A i \in 1..Len(events) :
          /\ WellFormedEvent(events[i])
          /\ Yields(baseline, events, i - 1, events[i].object, events[i].before)
    /\ \A o \in Object : Yields(baseline, events, Len(events), o, result[o])

\* The snapshot a revision's journal is relative to: that of its first parent.
Baseline(r) ==
    IF parents[r] = <<>> THEN EmptyModel ELSE root[parents[r][1]]
=============================================================================
