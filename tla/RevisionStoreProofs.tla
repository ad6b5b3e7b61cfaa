------------------------- MODULE RevisionStoreProofs -------------------------
(***************************************************************************)
(* Proofs about RevisionStore for every set of branches, revisions,        *)
(* objects and contents and every bound: the tables have their types, and  *)
(* the journals are complete.  Whatever was edited, undone, redone,        *)
(* finalized and branched, replaying the journal of a revision on the      *)
(* snapshot of its first parent gives the revision's own model.  The code  *)
(* relies on it when it seals only the rows that the journal names, and    *)
(* checks it in verifyRevisionJournalReplay.                               *)
(***************************************************************************)
EXTENDS RevisionStore, TLAPS

(***************************************************************************)
(* TypeOK alone is not inductive: undo reads the slice of the journal that *)
(* a group names, so the slice has to lie inside the journal.  That holds  *)
(* because a group ends at the generation of its revision, and the         *)
(* generation counts the journal as long as no opaque operation shares it. *)
(***************************************************************************)
GenerationCountsJournal ==
    \A r \in Revision : generation[r] = Len(journal[r]) + Len(operations[r])

ObjectModeHasNoOperations ==
    \A r \in Revision : objectMode[r] = 1 => operations[r] = <<>>

\* Only the seal of an object-mode revision stores the object manifest.
OpaqueSnapshots ==
    \A r \in Revision : objectMode[r] = 0 => snapshot[r] # ObjectManifest

GroupsInsideJournal ==
    \A r \in Revision : \A g \in DOMAIN groups[r] :
        /\ 1 <= groups[r][g].first
        /\ groups[r][g].first <= groups[r][g].last
        /\ groups[r][g].last <= Len(journal[r])

UnusedRevisionsAreBlank ==
    \A r \in Revision : state[r] = "unused" =>
        /\ generation[r] = 0
        /\ journal[r] = <<>>
        /\ groups[r] = <<>>
        /\ operations[r] = <<>>
        /\ parents[r] = <<>>
        /\ objectMode[r] = 0
        /\ snapshot[r] = NoBytes

Bookkeeping ==
    /\ TypeOK
    /\ GenerationCountsJournal
    /\ ObjectModeHasNoOperations
    /\ OpaqueSnapshots
    /\ GroupsInsideJournal
    /\ UnusedRevisionsAreBlank

-----------------------------------------------------------------------------
(* Types of what the actions build.                                        *)

\* The edits that ApplyEdits receives; the expected version is only compared.
TypedEdit ==
    [object : Object, kind : Kind,
     content : Content \cup {NoContent}, expected : Int]

LEMMA AbsentType == Absent \in Row
  BY DEF Row

LEMMA EmptyModelType == EmptyModel \in Model
  BY AbsentType DEF EmptyModel, Model

LEMMA WrittenType ==
    ASSUME NEW row \in Row, NEW edit \in TypedEdit
    PROVE  Written(row, edit) \in StoredRow
  <1>1. CASE row = Absent
    BY <1>1 DEF Written, StoredRow, TypedEdit
  <1>2. CASE row # Absent
    <2>1. row \in StoredRow
      BY <1>2 DEF Row
    <2>2. row.kind \in Kind /\ row.version + 1 \in Nat \ {0}
      BY <2>1 DEF StoredRow
    <2> QED
      BY <1>2, <2>2 DEF Written, StoredRow, TypedEdit
  <1> QED
    BY <1>1, <1>2

LEMMA EventType ==
    ASSUME NEW model \in Model, NEW edit \in TypedEdit
    PROVE  EventOf(model, edit) \in Event
  <1>1. edit.object \in Object
    BY DEF TypedEdit
  <1>2. model[edit.object] \in Row
    BY <1>1 DEF Model
  <1>3. Written(model[edit.object], edit) \in StoredRow
    BY <1>2, WrittenType
  <1> QED
    BY <1>1, <1>2, <1>3 DEF EventOf, Event

LEMMA AfterEventsType ==
    ASSUME NEW model \in Model, NEW events \in Seq(Event)
    PROVE  AfterEvents(model, events) \in Model
  <1> SUFFICES ASSUME NEW o \in Object
               PROVE  AfterEvents(model, events)[o] \in Row
    BY DEF AfterEvents, Model
  <1>1. CASE IsTouched(events, o)
    <2> DEFINE i == CHOOSE i \in DOMAIN events : events[i].object = o
    <2>1. i \in DOMAIN events
      BY <1>1 DEF IsTouched
    <2>2. events[i] \in Event
      BY <2>1
    <2> QED
      BY <1>1, <2>2 DEF AfterEvents, Event, Row
  <1>2. CASE ~IsTouched(events, o)
    BY <1>2 DEF AfterEvents, Model
  <1> QED
    BY <1>1, <1>2

-----------------------------------------------------------------------------
(* Bookkeeping holds initially and every step preserves it.                *)

LEMMA InitBookkeeping == Init => Bookkeeping
  <1> SUFFICES ASSUME Init PROVE Bookkeeping
    OBVIOUS
  <1>1. TypeOK
    BY EmptyModelType DEF Init, TypeOK
  <1>2. GenerationCountsJournal /\ ObjectModeHasNoOperations
    BY DEF Init, GenerationCountsJournal, ObjectModeHasNoOperations
  <1>3. GroupsInsideJournal /\ UnusedRevisionsAreBlank
    BY DEF Init, GroupsInsideJournal, UnusedRevisionsAreBlank
  <1>4. OpaqueSnapshots
    BY NullsAreNotValues DEF Init, OpaqueSnapshots
  <1> QED
    BY <1>1, <1>2, <1>3, <1>4 DEF Bookkeeping

LEMMA CreateProjectBookkeeping ==
    ASSUME Bookkeeping, NEW b \in Branch, NEW r \in Revision, CreateProject(b, r)
    PROVE  Bookkeeping'
  <1>1. TypeOK'
    BY DEF CreateProject, Bookkeeping, TypeOK
  <1>2. UnusedRevisionsAreBlank'
    BY DEF CreateProject, Bookkeeping, TypeOK, UnusedRevisionsAreBlank
  <1> QED
    BY <1>1, <1>2 DEF CreateProject, Bookkeeping, GenerationCountsJournal,
                      ObjectModeHasNoOperations, GroupsInsideJournal,
                      OpaqueSnapshots

LEMMA CreateBranchBookkeeping ==
    ASSUME Bookkeeping, NEW b \in Branch, NEW r \in Revision,
           NEW base \in Revision, CreateBranch(b, r, base)
    PROVE  Bookkeeping'
  <1>1. TypeOK'
    <2>1. (IF objectMode[base] = 1 THEN root[base] ELSE EmptyModel) \in Model
      BY EmptyModelType DEF CreateBranch, Bookkeeping, TypeOK
    <2>2. rows' \in [Branch -> Model]
      BY <2>1 DEF CreateBranch, Bookkeeping, TypeOK
    <2>3. parents' \in [Revision -> Seq(Revision)]
      BY DEF CreateBranch, Bookkeeping, TypeOK
    <2> QED
      BY <2>2, <2>3 DEF CreateBranch, Bookkeeping, TypeOK
  <1>2. UnusedRevisionsAreBlank'
    BY DEF CreateBranch, Bookkeeping, TypeOK, UnusedRevisionsAreBlank
  <1>3. ObjectModeHasNoOperations'
    BY DEF CreateBranch, Bookkeeping, TypeOK, UnusedRevisionsAreBlank,
           ObjectModeHasNoOperations
  <1>4. OpaqueSnapshots'
    BY NullsAreNotValues DEF CreateBranch, Bookkeeping, TypeOK, OpaqueSnapshots
  <1> QED
    BY <1>1, <1>2, <1>3, <1>4 DEF CreateBranch, Bookkeeping,
                                  GenerationCountsJournal, GroupsInsideJournal

LEMMA FinalizeBookkeeping ==
    ASSUME Bookkeeping, NEW b \in Branch, NEW new \in Revision,
           NEW expected, Finalize(b, new, expected)
    PROVE  Bookkeeping'
  <1> DEFINE r == head[b]
  <1>1. r \in Revision /\ state[r] = "working" /\ state[new] = "unused" /\ new # r
    BY DEF Finalize, HasWorkingHead, SealAndAdvance, Bookkeeping, TypeOK
  <1>2. root' \in [Revision -> Model \cup {NoRoot}]
    <2> DEFINE inherited == IF parents[r] = <<>> THEN NoRoot
                            ELSE root[parents[r][1]]
    <2>1. rows' = rows /\ journal' = journal
      BY DEF Finalize
    <2>2. rows[b] \in Model
      BY DEF Bookkeeping, TypeOK
    <2>3. inherited \in Model \cup {NoRoot}
      <3>1. parents[r] \in Seq(Revision)
        BY <1>1 DEF Bookkeeping, TypeOK
      <3>2. parents[r] # <<>> => parents[r][1] \in Revision
        BY <3>1
      <3> QED
        BY <3>2 DEF Bookkeeping, TypeOK
    <2>4. BuildRevisionRoot(inherited, rows[b], journal[r]) \in Model
      BY <2>2, <2>3 DEF BuildRevisionRoot, Model
    <2>5. root' = [root EXCEPT ![r] =
                      IF objectMode[r] = 0 THEN NoRoot
                      ELSE BuildRevisionRoot(inherited, rows[b], journal[r])]
      BY <2>1 DEF Finalize, SealAndAdvance
    <2> HIDE DEF inherited
    <2> QED
      BY <1>1, <2>4, <2>5 DEF Bookkeeping, TypeOK
  <1>3. snapshot' \in [Revision -> Bytes \cup {NoBytes, ObjectManifest}]
    BY <1>1 DEF Finalize, SealAndAdvance, Bookkeeping, TypeOK
  <1>4. parents' \in [Revision -> Seq(Revision)]
    BY <1>1 DEF Finalize, Bookkeeping, TypeOK
  <1>5. TypeOK'
    <2>1. number[r] + 1 \in Nat /\ objectMode[r] \in {0, 1}
      BY <1>1 DEF Bookkeeping, TypeOK
    <2>2. /\ number' \in [Revision -> Nat]
          /\ objectMode' \in [Revision -> {0, 1}]
          /\ state' \in [Revision -> {"unused", "working", "finalized"}]
          /\ branchOf' \in [Revision -> Branch \cup {NoBranch}]
          /\ head' \in [Branch -> Revision \cup {NoRevision}]
      BY <2>1 DEF Finalize, SealAndAdvance, NextNumber, Bookkeeping, TypeOK
    <2>3. UNCHANGED <<rows, generation, journal, groups, operations>>
      BY DEF Finalize
    <2> QED
      BY <1>2, <1>3, <1>4, <2>2, <2>3 DEF Bookkeeping, TypeOK
  <1>6. UnusedRevisionsAreBlank'
    BY <1>1 DEF Finalize, SealAndAdvance, Bookkeeping, TypeOK,
                UnusedRevisionsAreBlank
  <1>7. ObjectModeHasNoOperations'
    BY <1>1 DEF Finalize, SealAndAdvance, Bookkeeping, TypeOK,
                UnusedRevisionsAreBlank, ObjectModeHasNoOperations
  <1>8. OpaqueSnapshots'
    BY <1>1, NullsAreNotValues
       DEF Finalize, SealAndAdvance, Bookkeeping, TypeOK, OpaqueSnapshots
  <1> QED
    BY <1>5, <1>6, <1>7, <1>8 DEF Finalize, Bookkeeping, GenerationCountsJournal,
                                  GroupsInsideJournal

LEMMA ApplySnapshotBookkeeping ==
    ASSUME Bookkeeping, NEW b \in Branch, NEW expected, OpaqueHead(b, expected),
           NEW new \in Bytes \cup {NoBytes},
           NEW action \in {"replace", "undo", "redo"}, NEW target \in Nat,
           ApplySnapshotOperation(head[b], new, action, target)
    PROVE  Bookkeeping'
  <1> DEFINE r == head[b]
  <1>1. r \in Revision /\ state[r] = "working" /\ objectMode[r] = 0
    BY DEF OpaqueHead, HasWorkingHead, Bookkeeping, TypeOK
  <1>2. snapshot[r] \in Bytes \cup {NoBytes}
    BY <1>1 DEF Bookkeeping, TypeOK, OpaqueSnapshots
  <1> DEFINE op == [action |-> action, target |-> target,
                    before |-> snapshot[r], after |-> new]
  <1>3. op \in Operation
    BY <1>2 DEF Operation
  <1>4. /\ operations' = [operations EXCEPT ![r] = Append(@, op)]
        /\ generation' = [generation EXCEPT ![r] = @ + 1]
        /\ snapshot' = [snapshot EXCEPT ![r] = new]
        /\ UNCHANGED <<head, rows, state, branchOf, number, objectMode, parents,
                       root, journal, groups>>
    BY DEF ApplySnapshotOperation
  <1>5. /\ operations[r] \in Seq(Operation)
        /\ Append(operations[r], op) \in Seq(Operation)
        /\ Len(Append(operations[r], op)) = Len(operations[r]) + 1
    BY <1>1, <1>3 DEF Bookkeeping, TypeOK
  <1> HIDE DEF op, r
  <1>6. TypeOK'
    <2>1. /\ generation \in [Revision -> Nat]
          /\ operations \in [Revision -> Seq(Operation)]
          /\ snapshot \in [Revision -> Bytes \cup {NoBytes, ObjectManifest}]
          /\ generation[r] + 1 \in Nat
      BY <1>1 DEF Bookkeeping, TypeOK
    <2>2. generation' \in [Revision -> Nat]
      BY <1>4, <2>1
    <2>3. operations' \in [Revision -> Seq(Operation)]
      BY <1>4, <1>5, <2>1
    <2>4. snapshot' \in [Revision -> Bytes \cup {NoBytes, ObjectManifest}]
      BY <1>4, <2>1
    <2> QED
      BY <1>4, <2>2, <2>3, <2>4 DEF Bookkeeping, TypeOK
  <1>7. GenerationCountsJournal'
    <2> SUFFICES ASSUME NEW s \in Revision
                 PROVE  generation'[s] = Len(journal'[s]) + Len(operations'[s])
      BY DEF GenerationCountsJournal
    <2>1. /\ generation[s] \in Nat /\ journal[s] \in Seq(Event)
          /\ operations[s] \in Seq(Operation)
          /\ generation[s] = Len(journal[s]) + Len(operations[s])
      BY DEF Bookkeeping, TypeOK, GenerationCountsJournal
    <2>2. /\ generation'[s] = IF s = r THEN generation[s] + 1 ELSE generation[s]
          /\ operations'[s] = IF s = r THEN Append(operations[s], op)
                                      ELSE operations[s]
      BY <1>4 DEF Bookkeeping, TypeOK
    <2> DEFINE events == Len(journal[s])
               ops    == Len(operations[s])
               ops1   == Len(operations'[s])
    <2>3. /\ events \in Nat /\ ops \in Nat
          /\ generation[s] = events + ops
          /\ Len(journal'[s]) = events
      BY <1>4, <2>1
    <2>4. ops1 = IF s = r THEN ops + 1 ELSE ops
      BY <1>5, <2>2
    <2> HIDE DEF events, ops, ops1
    <2>5. generation'[s] = events + ops1
      BY <2>2, <2>3, <2>4
    <2> QED
      BY <2>3, <2>5, Zenon DEF ops1
  <1>8. ObjectModeHasNoOperations' /\ UnusedRevisionsAreBlank'
    BY <1>1, <1>4 DEF Bookkeeping, TypeOK, ObjectModeHasNoOperations,
                      UnusedRevisionsAreBlank
  <1>9. OpaqueSnapshots' /\ GroupsInsideJournal'
    BY <1>1, <1>4, NullsAreNotValues
       DEF Bookkeeping, TypeOK, OpaqueSnapshots, GroupsInsideJournal
  <1> QED
    BY <1>6, <1>7, <1>8, <1>9 DEF Bookkeeping

LEMMA SnapshotStepsBookkeeping ==
    ASSUME Bookkeeping, NEW b \in Branch, NEW expected \in Generations
    PROVE  /\ \A bytes \in Bytes :
                 ReplaceWorkingSnapshot(b, expected, bytes) => Bookkeeping'
           /\ UndoLastChange(b, expected) => Bookkeeping'
           /\ RedoLastChange(b, expected) => Bookkeeping'
  <1> DEFINE r == head[b]
  <1>1. ASSUME NEW bytes \in Bytes, ReplaceWorkingSnapshot(b, expected, bytes)
        PROVE  Bookkeeping'
    BY <1>1, ApplySnapshotBookkeeping DEF ReplaceWorkingSnapshot
  <1>2. ASSUME NEW target \in DOMAIN operations[r], OpaqueHead(b, expected)
        PROVE  /\ operations[r][target].before \in Bytes \cup {NoBytes}
               /\ operations[r][target].after \in Bytes \cup {NoBytes}
               /\ target \in Nat
    <2>1. operations[r] \in Seq(Operation)
      BY <1>2 DEF OpaqueHead, HasWorkingHead, Bookkeeping, TypeOK
    <2>2. operations[r][target] \in Operation /\ target \in Nat
      BY <1>2, <2>1
    <2> QED
      BY <2>2 DEF Operation
  <1>3. ASSUME UndoLastChange(b, expected)
        PROVE  Bookkeeping'
    <2> DEFINE target == Top(Stacks(operations[r]).applied)
    <2>1. /\ OpaqueHead(b, expected)
          /\ target \in DOMAIN operations[r]
          /\ ApplySnapshotOperation(r, operations[r][target].before, "undo", target)
      BY <1>3 DEF UndoLastChange
    <2> HIDE DEF target
    <2> QED
      BY <1>2, <2>1, ApplySnapshotBookkeeping
  <1>4. ASSUME RedoLastChange(b, expected)
        PROVE  Bookkeeping'
    <2> DEFINE target == Top(Stacks(operations[r]).undone)
    <2>1. /\ OpaqueHead(b, expected)
          /\ target \in DOMAIN operations[r]
          /\ ApplySnapshotOperation(r, operations[r][target].after, "redo", target)
      BY <1>4 DEF RedoLastChange
    <2> HIDE DEF target
    <2> QED
      BY <1>2, <2>1, ApplySnapshotBookkeeping
  <1> QED
    BY <1>1, <1>3, <1>4

-----------------------------------------------------------------------------
(* The object-mode steps all end in ApplyEdits.                            *)

\* The events that a transaction of these edits appends to the journal.
EditEvents(model, edits) == [i \in 1..Len(edits) |-> EventOf(model, edits[i])]

LEMMA EditEventsType ==
    ASSUME NEW model \in Model, NEW edits \in Seq(TypedEdit)
    PROVE  /\ EditEvents(model, edits) \in Seq(Event)
           /\ Len(EditEvents(model, edits)) = Len(edits)
           /\ \A i \in 1..Len(edits) :
                 /\ edits[i] \in TypedEdit
                 /\ EditEvents(model, edits)[i] = EventOf(model, edits[i])
  <1>1. Len(edits) \in Nat
    OBVIOUS
  <1>2. \A i \in 1..Len(edits) : edits[i] \in TypedEdit
    OBVIOUS
  <1>3. \A i \in 1..Len(edits) : EventOf(model, edits[i]) \in Event
    BY <1>2, EventType
  <1> QED
    BY <1>1, <1>2, <1>3 DEF EditEvents

\* What ApplyEdits does to the tables, with the events named.
EditEffect(b, edits, action, target) ==
    LET r      == head[b]
        events == EditEvents(rows[b], edits)
    IN
    /\ r \in Revision
    /\ state[r] = "working"
    /\ operations[r] = <<>>
    /\ objectMode[r] = 0 => snapshot[r] = NoBytes
    /\ Len(edits) > 0
    /\ events \in Seq(Event)
    /\ generation[r] = Len(journal[r])
    /\ rows' = [rows EXCEPT ![b] = AfterEvents(rows[b], events)]
    /\ generation' = [generation EXCEPT ![r] = @ + Len(edits)]
    /\ objectMode' = [objectMode EXCEPT ![r] = 1]
    /\ journal' = [journal EXCEPT ![r] = @ \o events]
    /\ groups' = [groups EXCEPT ![r] =
          Append(@, [action |-> action, target |-> target,
                     first |-> generation[r] + 1,
                     last |-> generation[r] + Len(edits)])]
    /\ UNCHANGED <<head, state, branchOf, number, parents, root,
                   snapshot, operations>>

LEMMA ApplyEditsEffect ==
    ASSUME Bookkeeping, NEW b \in Branch, HasWorkingHead(b),
           NEW edits \in Seq(TypedEdit), NEW action, NEW target,
           ApplyEdits(b, edits, action, target)
    PROVE  EditEffect(b, edits, action, target)
  <1> DEFINE r == head[b]
             events == EditEvents(rows[b], edits)
  <1>1. r \in Revision /\ state[r] = "working"
    BY DEF HasWorkingHead, Bookkeeping, TypeOK
  <1>2. operations[r] = <<>> /\ (objectMode[r] = 0 => snapshot[r] = NoBytes)
    BY <1>1 DEF ApplyEdits, ObjectModeAllowed, Bookkeeping, TypeOK,
                ObjectModeHasNoOperations
  <1>3. generation[r] = Len(journal[r])
    <2>1. Len(operations[r]) = 0
      BY <1>2
    <2>2. Len(journal[r]) \in Nat
      BY <1>1 DEF Bookkeeping, TypeOK
    <2>3. generation[r] = Len(journal[r]) + Len(operations[r])
      BY <1>1 DEF Bookkeeping, GenerationCountsJournal
    <2> DEFINE events0 == Len(journal[r])
               ops0    == Len(operations[r])
    <2>4. events0 \in Nat /\ ops0 = 0 /\ generation[r] = events0 + ops0
      BY <2>1, <2>2, <2>3
    <2> HIDE DEF events0, ops0
    <2>5. generation[r] = events0
      BY <2>4
    <2> QED
      BY <2>5 DEF events0
  <1>4. rows[b] \in Model
    BY DEF Bookkeeping, TypeOK
  <1>5. events \in Seq(Event)
    BY <1>4, EditEventsType
  <1>6. generation[r] \in Nat /\ Len(edits) \in Nat
    BY <1>1 DEF Bookkeeping, TypeOK
  <1>7. Len(edits) > 0
    BY <1>6 DEF ApplyEdits, WriteObjectGroup
  <1> QED
    BY <1>1, <1>2, <1>3, <1>5, <1>7
       DEF ApplyEdits, WriteObjectGroup, EditEvents, EditEffect

LEMMA ApplyEditsBookkeeping ==
    ASSUME Bookkeeping, NEW b \in Branch, HasWorkingHead(b),
           NEW edits \in Seq(TypedEdit),
           NEW action \in {"edit", "undo", "redo"}, NEW target \in Nat,
           ApplyEdits(b, edits, action, target)
    PROVE  Bookkeeping'
  <1> DEFINE r      == head[b]
             events == EditEvents(rows[b], edits)
             n      == Len(edits)
             g0     == generation[r]
             group  == [action |-> action, target |-> target,
                        first |-> g0 + 1, last |-> g0 + n]
  <1> EditEffect(b, edits, action, target)
    BY ApplyEditsEffect
  <1>1. /\ r \in Revision
        /\ state[r] = "working"
        /\ operations[r] = <<>>
        /\ events \in Seq(Event)
        /\ g0 = Len(journal[r])
        /\ rows' = [rows EXCEPT ![b] = AfterEvents(rows[b], events)]
        /\ generation' = [generation EXCEPT ![r] = @ + n]
        /\ objectMode' = [objectMode EXCEPT ![r] = 1]
        /\ journal' = [journal EXCEPT ![r] = @ \o events]
        /\ groups' = [groups EXCEPT ![r] = Append(@, group)]
        /\ UNCHANGED <<head, state, branchOf, number, parents, root,
                       snapshot, operations>>
    BY DEF EditEffect
  <1>2. n \in Nat /\ n > 0
    BY DEF EditEffect
  <1>3. Len(events) = n
    BY EditEventsType DEF Bookkeeping, TypeOK
  <1>4. g0 \in Nat
    BY <1>1 DEF Bookkeeping, TypeOK
  <1>5. group \in Group /\ group.first = g0 + 1 /\ group.last = g0 + n
    BY <1>2, <1>4 DEF Group
  <1>6. AfterEvents(rows[b], events) \in Model
    BY <1>1, AfterEventsType DEF Bookkeeping, TypeOK
  <1>7. /\ journal[r] \o events \in Seq(Event)
        /\ Len(journal[r] \o events) = g0 + n
    <2> DEFINE old == journal[r]
    <2>1. old \in Seq(Event) /\ events \in Seq(Event)
          /\ Len(old) = g0 /\ Len(events) = n
      BY <1>1, <1>3 DEF Bookkeeping, TypeOK
    <2> HIDE DEF old, events, g0, n
    <2>2. old \o events \in Seq(Event) /\ Len(old \o events) = g0 + n
      BY <2>1
    <2> QED
      BY <2>2 DEF old
  <1>8. /\ groups[r] \in Seq(Group)
        /\ Append(groups[r], group) \in Seq(Group)
    BY <1>1, <1>5 DEF Bookkeeping, TypeOK
  <1> HIDE DEF r, events, n, g0, group
  <1>9. TypeOK'
    <2>1. generation' \in [Revision -> Nat]
      BY <1>1, <1>2 DEF Bookkeeping, TypeOK
    <2> QED
      BY <1>1, <1>6, <1>7, <1>8, <2>1 DEF Bookkeeping, TypeOK
  <1>10. GenerationCountsJournal'
    <2> SUFFICES ASSUME NEW s \in Revision
                 PROVE  generation'[s] = Len(journal'[s]) + Len(operations'[s])
      BY DEF GenerationCountsJournal
    <2>1. CASE s # r
      BY <1>1, <2>1 DEF Bookkeeping, TypeOK, GenerationCountsJournal
    <2>2. CASE s = r
      <3>1. generation'[s] = g0 + n
        BY <1>1, <2>2 DEF Bookkeeping, TypeOK, g0
      <3>2. Len(journal'[s]) = g0 + n
        BY <1>1, <1>7, <2>2 DEF Bookkeeping, TypeOK
      <3>3. Len(operations'[s]) = 0
        BY <1>1, <2>2
      <3> DEFINE events1 == Len(journal'[s])
                 ops1    == Len(operations'[s])
      <3>4. events1 = g0 + n /\ ops1 = 0
        BY <3>2, <3>3
      <3> HIDE DEF events1, ops1
      <3>5. generation'[s] = events1 + ops1
        BY <1>2, <1>4, <3>1, <3>4
      <3> QED
        BY <3>5, Zenon DEF events1, ops1
    <2> QED
      BY <2>1, <2>2
  <1>11. GroupsInsideJournal'
    <2> SUFFICES ASSUME NEW s \in Revision, NEW g \in DOMAIN groups'[s]
                 PROVE  /\ 1 <= groups'[s][g].first
                        /\ groups'[s][g].first <= groups'[s][g].last
                        /\ groups'[s][g].last <= Len(journal'[s])
      BY DEF GroupsInsideJournal
    <2>1. CASE s # r
      <3>1. groups'[s] = groups[s] /\ journal'[s] = journal[s]
        BY <1>1, <2>1 DEF Bookkeeping, TypeOK
      <3> QED
        BY <3>1 DEF Bookkeeping, GroupsInsideJournal
    <2>2. CASE s = r
      <3>1. groups'[s] = Append(groups[r], group)
        BY <1>1, <2>2 DEF Bookkeeping, TypeOK
      <3>2. Len(journal'[s]) = g0 + n
        BY <1>1, <1>7, <2>2 DEF Bookkeeping, TypeOK
      <3>3. CASE g = Len(groups[r]) + 1
        <4>1. groups'[s][g] = group
          BY <1>8, <3>1, <3>3
        <4> QED
          BY <1>2, <1>4, <1>5, <3>2, <4>1
      <3>4. CASE g # Len(groups[r]) + 1
        <4>1. g \in DOMAIN groups[r] /\ groups'[s][g] = groups[r][g]
          BY <1>8, <3>1, <3>4
        <4>2. groups[r][g] \in Group
          BY <1>8, <4>1
        <4>3. /\ 1 <= groups[r][g].first
              /\ groups[r][g].first <= groups[r][g].last
              /\ groups[r][g].last <= g0
          BY <1>1, <4>1 DEF Bookkeeping, GroupsInsideJournal
        <4>4. groups[r][g].last \in Nat
          BY <4>2 DEF Group
        <4> QED
          BY <1>2, <1>4, <3>2, <4>1, <4>3, <4>4
      <3> QED
        BY <3>3, <3>4
    <2> QED
      BY <2>1, <2>2
  <1>12. ObjectModeHasNoOperations' /\ UnusedRevisionsAreBlank'
    BY <1>1 DEF Bookkeeping, TypeOK, ObjectModeHasNoOperations,
                UnusedRevisionsAreBlank
  <1>13. OpaqueSnapshots'
    BY <1>1 DEF Bookkeeping, TypeOK, OpaqueSnapshots
  <1> QED
    BY <1>9, <1>10, <1>11, <1>12, <1>13 DEF Bookkeeping

\* The edits callers can pass to the two editing operations are typed.
LEMMA EditsAreTyped ==
    /\ \A edit \in Edit : <<edit>> \in Seq(TypedEdit)
    /\ EditGroups \subseteq Seq(TypedEdit)
  <1>1. Edit \subseteq TypedEdit
    BY VersionsAreInts DEF Edit, TypedEdit
  <1>2. \A edit \in Edit : <<edit>> \in Seq(TypedEdit)
    BY <1>1
  <1>3. ASSUME NEW edits \in EditGroups
        PROVE  edits \in Seq(TypedEdit)
    <2>1. PICK n \in 1..MaxGroup : edits \in [1..n -> Edit]
      BY DEF EditGroups
    <2>2. n \in Nat /\ edits \in [1..n -> TypedEdit]
      BY <1>1, <2>1
    <2> QED
      BY <2>2
  <1> QED
    BY <1>2, <1>3

\* The edits of an undo or a redo, with the facts about the events they come
\* from: event i of the list is some event of the group it compensates.
CompensatingEdits(b, g, redo) ==
    LET events == CompensatedEvents(head[b], g, redo)
    IN  [i \in DOMAIN events |->
            CompensatingEdit(rows[b][events[i].object], events[i], redo)]

LEMMA CompensatedEventsType ==
    ASSUME Bookkeeping, NEW r \in Revision, NEW g \in DOMAIN groups[r],
           NEW redo \in BOOLEAN
    PROVE  /\ CompensatedEvents(r, g, redo) \in Seq(Event)
           /\ \A i \in DOMAIN CompensatedEvents(r, g, redo) :
                 \E k \in DOMAIN journal[r] :
                    CompensatedEvents(r, g, redo)[i] = journal[r][k]
  <1> DEFINE first  == groups[r][g].first
             last   == groups[r][g].last
             events == GroupEvents(r, g)
             n      == Len(events)
             back   == CompensatedEvents(r, g, redo)
             old    == journal[r]
  <1>1. old \in Seq(Event)
    BY DEF Bookkeeping, TypeOK
  <1>2. first \in Nat /\ last \in Nat
    <2>1. groups[r] \in Seq(Group)
      BY DEF Bookkeeping, TypeOK
    <2>2. groups[r][g] \in Group
      BY <2>1
    <2> QED
      BY <2>2 DEF Group
  <1>3. 1 <= first /\ first <= last /\ last <= Len(old)
    BY DEF Bookkeeping, GroupsInsideJournal
  <1>4. events = SubSeq(old, first, last)
    BY DEF GroupEvents
  <1>5. back = [i \in 1..n |-> IF redo THEN events[i] ELSE events[n + 1 - i]]
    BY DEF CompensatedEvents
  <1> HIDE DEF old, first, last, events, n, back
  <1>6. /\ events \in Seq(Event)
        /\ \A i \in DOMAIN events : \E k \in DOMAIN old : events[i] = old[k]
    <2>1. /\ Len(events) = last - first + 1
          /\ events \in Seq(Event)
          /\ \A i \in 1..(last - first + 1) : events[i] = old[first + i - 1]
      BY <1>1, <1>2, <1>3, <1>4
    <2>2. \A i \in 1..(last - first + 1) : first + i - 1 \in DOMAIN old
      BY <1>1, <1>2, <1>3
    <2>3. DOMAIN events = 1..(last - first + 1)
      BY <1>2, <2>1
    <2> QED
      BY <2>1, <2>2, <2>3
  <1>7. n \in Nat /\ DOMAIN events = 1..n
    BY <1>6 DEF n
  <1>8. \A i \in 1..n : /\ n + 1 - i \in 1..n
                       /\ back[i] \in Event
                       /\ \E k \in DOMAIN old : back[i] = old[k]
    BY <1>5, <1>6, <1>7
  <1>9. back \in Seq(Event)
    BY <1>5, <1>7, <1>8
  <1>10. DOMAIN back = 1..n
    BY <1>5
  <1> QED
    BY <1>8, <1>9, <1>10 DEF back, old

LEMMA CompensatingEditsType ==
    ASSUME Bookkeeping, NEW b \in Branch, head[b] \in Revision,
           NEW g \in DOMAIN groups[head[b]], NEW redo \in BOOLEAN
    PROVE  CompensatingEdits(b, g, redo) \in Seq(TypedEdit)
  <1> DEFINE events == CompensatedEvents(head[b], g, redo)
             edits  == CompensatingEdits(b, g, redo)
  <1>1. events \in Seq(Event)
    BY CompensatedEventsType
  <1>2. ASSUME NEW event \in Event
        PROVE  CompensatingEdit(rows[b][event.object], event, redo) \in TypedEdit
    <2>1. event.object \in Object /\ event.before \in Row /\ event.after \in StoredRow
      BY DEF Event
    <2>2. rows[b][event.object] \in Row
      BY <2>1 DEF Bookkeeping, TypeOK, Model
    <2> DEFINE wanted == IF redo THEN event.after ELSE event.before
    <2>3. wanted \in Row
      BY <2>1 DEF Row
    <2>4. \A row \in Row : /\ row.version \in Int
                          /\ row.content \in Content \cup {NoContent}
      BY DEF Row, StoredRow, Absent
    <2>5. /\ event.after.kind \in Kind
          /\ rows[b][event.object].version \in Int
          /\ wanted.content \in Content \cup {NoContent}
      BY <2>1, <2>2, <2>3, <2>4 DEF StoredRow
    <2> QED
      BY <2>1, <2>5 DEF CompensatingEdit, TypedEdit
  <1>3. \A i \in 1..Len(events) : events[i] \in Event
    BY <1>1
  <1>4. edits = [i \in 1..Len(events) |->
                   CompensatingEdit(rows[b][events[i].object], events[i], redo)]
    BY <1>1 DEF CompensatingEdits
  <1>5. Len(events) \in Nat
    BY <1>1
  <1> HIDE DEF events, edits
  <1>6. \A i \in 1..Len(events) : edits[i] \in TypedEdit
    BY <1>2, <1>3, <1>4
  <1> QED
    BY <1>4, <1>5, <1>6 DEF edits

LEMMA ObjectStepsBookkeeping ==
    ASSUME Bookkeeping, NEW b \in Branch, NEW expected \in Generations
    PROVE  /\ \A edit \in Edit : ModifyObject(b, edit) => Bookkeeping'
           /\ \A edits \in EditGroups :
                 CommitObjectGroup(b, expected, edits) => Bookkeeping'
           /\ \A redo \in BOOLEAN :
                 CompensateObjectGroup(b, expected, redo) => Bookkeeping'
  <1>1. ASSUME NEW edit \in Edit, ModifyObject(b, edit)
        PROVE  Bookkeeping'
    <2>1. <<edit>> \in Seq(TypedEdit)
      BY EditsAreTyped
    <2>2. HasWorkingHead(b) /\ ApplyEdits(b, <<edit>>, "edit", 0)
      BY <1>1 DEF ModifyObject
    <2> QED
      BY <2>1, <2>2, ApplyEditsBookkeeping
  <1>2. ASSUME NEW edits \in EditGroups, CommitObjectGroup(b, expected, edits)
        PROVE  Bookkeeping'
    <2>1. edits \in Seq(TypedEdit)
      BY EditsAreTyped
    <2>2. HasWorkingHead(b) /\ ApplyEdits(b, edits, "edit", 0)
      BY <1>2 DEF CommitObjectGroup
    <2> QED
      BY <2>1, <2>2, ApplyEditsBookkeeping
  <1>3. ASSUME NEW redo \in BOOLEAN, CompensateObjectGroup(b, expected, redo)
        PROVE  Bookkeeping'
    <2> DEFINE target == Top(Compensable(head[b], redo))
               action == IF redo THEN "redo" ELSE "undo"
    <2>1. /\ HasWorkingHead(b)
          /\ target \in DOMAIN groups[head[b]]
          /\ ApplyEdits(b, CompensatingEdits(b, target, redo), action, target)
      BY <1>3 DEF CompensateObjectGroup, CompensatingEdits
    <2>2. head[b] \in Revision
      BY <2>1 DEF HasWorkingHead, Bookkeeping, TypeOK
    <2>3. target \in Nat
      <3>1. groups[head[b]] \in Seq(Group)
        BY <2>2 DEF Bookkeeping, TypeOK
      <3> QED
        BY <2>1, <3>1
    <2>4. action \in {"edit", "undo", "redo"}
      OBVIOUS
    <2> HIDE DEF target, action
    <2>5. CompensatingEdits(b, target, redo) \in Seq(TypedEdit)
      BY <2>1, <2>2, CompensatingEditsType
    <2> QED
      BY <2>1, <2>3, <2>4, <2>5, ApplyEditsBookkeeping
  <1> QED
    BY <1>1, <1>2, <1>3

LEMMA BookkeepingStep == Bookkeeping /\ [Next]_tables => Bookkeeping'
  <1> SUFFICES ASSUME Bookkeeping, [Next]_tables
               PROVE  Bookkeeping'
    OBVIOUS
  <1>1. CASE UNCHANGED tables
    BY <1>1 DEF tables, Bookkeeping, TypeOK, GenerationCountsJournal,
                ObjectModeHasNoOperations, OpaqueSnapshots,
                GroupsInsideJournal, UnusedRevisionsAreBlank
  <1>2. ASSUME NEW b \in Branch, NEW r \in Revision, CreateProject(b, r)
        PROVE  Bookkeeping'
    BY <1>2, CreateProjectBookkeeping
  <1>3. ASSUME NEW b \in Branch, NEW r \in Revision, NEW base \in Revision,
               CreateBranch(b, r, base)
        PROVE  Bookkeeping'
    BY <1>3, CreateBranchBookkeeping
  <1>4. ASSUME NEW b \in Branch, NEW new \in Revision,
               NEW expected \in Generations, Finalize(b, new, expected)
        PROVE  Bookkeeping'
    BY <1>4, FinalizeBookkeeping
  <1>5. ASSUME NEW b \in Branch, NEW edit \in Edit, ModifyObject(b, edit)
        PROVE  Bookkeeping'
    BY <1>5, MaxGenerationIsNat, ObjectStepsBookkeeping DEF Generations
  <1>6. ASSUME NEW b \in Branch, NEW expected \in Generations
        PROVE  /\ \A edits \in EditGroups :
                     CommitObjectGroup(b, expected, edits) => Bookkeeping'
               /\ \A redo \in BOOLEAN :
                     CompensateObjectGroup(b, expected, redo) => Bookkeeping'
               /\ \A bytes \in Bytes :
                     ReplaceWorkingSnapshot(b, expected, bytes) => Bookkeeping'
               /\ UndoLastChange(b, expected) => Bookkeeping'
               /\ RedoLastChange(b, expected) => Bookkeeping'
    BY <1>6, ObjectStepsBookkeeping, SnapshotStepsBookkeeping
  <1> QED
    BY <1>1, <1>2, <1>3, <1>4, <1>5, <1>6 DEF Next

LEMMA BookkeepingIsInvariant == Spec => []Bookkeeping
  BY InitBookkeeping, BookkeepingStep, PTL DEF Spec

\* Every reachable state of the store is well typed, for every set of branches,
\* revisions, objects, kinds and contents: in particular the sealed snapshot
\* that finalizeInWriteTransaction builds is always a whole object model, and a
\* grouped undo or redo only ever restores rows that its journal recorded.
THEOREM TypeCorrect == Spec => []TypeOK
  <1>1. Bookkeeping => TypeOK
    BY DEF Bookkeeping
  <1> QED
    BY <1>1, BookkeepingIsInvariant, PTL

-----------------------------------------------------------------------------
(* Replaying: events that do not name an object leave it alone, and the    *)
(* events of an accepted group extend a journal that replays.              *)

LEMMA NothingReplays ==
    ASSUME NEW model
    PROVE  JournalReplays(model, <<>>, model)
  BY DEF JournalReplays, Yields

\* Later events on other objects do not change what a replay yields for o.
LEMMA YieldsExtends ==
    ASSUME NEW base, NEW short, NEW long, NEW n \in Nat, NEW m \in Nat, n <= m,
           \A i \in 1..n : long[i] = short[i],
           NEW o, NEW row, Yields(base, short, n, o, row),
           \A i \in (n + 1)..m : long[i].object # o
    PROVE  Yields(base, long, m, o, row)
  <1>1. CASE /\ \A i \in 1..n : short[i].object # o
             /\ row = base[o]
    <2>1. \A i \in 1..m : long[i].object # o
      <3> SUFFICES ASSUME NEW i \in 1..m PROVE long[i].object # o
        OBVIOUS
      <3>1. i \in 1..n \/ i \in (n + 1)..m
        OBVIOUS
      <3> QED
        BY <1>1, <3>1
    <2> QED
      BY <1>1, <2>1 DEF Yields
  <1>2. ASSUME NEW i \in 1..n, short[i].object = o,
               \A k \in (i + 1)..n : short[k].object # o,
               row = short[i].after
        PROVE  Yields(base, long, m, o, row)
    <2>1. i \in 1..m /\ long[i].object = o /\ row = long[i].after
      BY <1>2
    <2>2. ASSUME NEW k \in (i + 1)..m PROVE long[k].object # o
      <3>1. k \in (i + 1)..n \/ k \in (n + 1)..m
        OBVIOUS
      <3>2. k \in (i + 1)..n => k \in 1..n
        OBVIOUS
      <3> QED
        BY <1>2, <3>1, <3>2
    <2> QED
      BY <2>1, <2>2 DEF Yields
  <1> QED
    BY <1>1, <1>2 DEF Yields

\* The event of an accepted edit passes the checks of a replay.
LEMMA EventIsWellFormed ==
    ASSUME NEW model, NEW edit, Accepts(model[edit.object], edit)
    PROVE  WellFormedEvent(EventOf(model, edit))
  BY DEF Accepts, WellFormedEvent, EventOf, Written

\* An accepted group of edits extends a journal that replays to the model.
LEMMA GroupExtendsReplay ==
    ASSUME NEW base, NEW old \in Seq(Event), NEW model \in Model,
           JournalReplays(base, old, model),
           NEW edits \in Seq(TypedEdit), DistinctObjects(edits),
           \A i \in 1..Len(edits) : Accepts(model[edits[i].object], edits[i])
    PROVE  JournalReplays(base, old \o EditEvents(model, edits),
                          AfterEvents(model, EditEvents(model, edits)))
  <1> DEFINE events == EditEvents(model, edits)
             all    == old \o events
             n      == Len(old)
             m      == Len(events)
  <1>1. /\ events \in Seq(Event)
        /\ m = Len(edits)
        /\ \A i \in 1..m : events[i] = EventOf(model, edits[i])
    BY EditEventsType
  <1>2. n \in Nat /\ m \in Nat
    BY <1>1
  <1>3. /\ Len(all) = n + m
        /\ \A i \in 1..n : all[i] = old[i]
        /\ \A i \in 1..m : all[n + i] = events[i]
    <2> HIDE DEF events
    <2>1. /\ Len(old \o events) = Len(old) + Len(events)
          /\ \A i \in 1..Len(old) : (old \o events)[i] = old[i]
          /\ \A i \in 1..Len(events) : (old \o events)[Len(old) + i] = events[i]
      <3>1. events \in Seq(Event) /\ old \in Seq(Event)
        BY <1>1
      <3> QED
        BY <3>1
    <2> QED
      BY <2>1, Zenon
  <1>4. \A i \in 1..m : /\ events[i].object = edits[i].object
                        /\ events[i].before = model[edits[i].object]
                        /\ edits[i].object \in Object
    <2> SUFFICES ASSUME NEW i \in 1..m
                 PROVE  /\ events[i].object = edits[i].object
                        /\ events[i].before = model[edits[i].object]
                        /\ edits[i].object \in Object
      OBVIOUS
    <2>1. edits[i] \in TypedEdit /\ events[i] = EventOf(model, edits[i])
      BY <1>1, EditEventsType
    <2> QED
      BY <2>1 DEF EventOf, TypedEdit
  <1>5. \A i, k \in 1..m : events[i].object = events[k].object => i = k
    BY <1>1, <1>4 DEF DistinctObjects
  <1>6. \A i \in 1..m : WellFormedEvent(events[i])
    BY <1>1, EventIsWellFormed
  <1>7. /\ \A i \in 1..n : WellFormedEvent(old[i])
        /\ \A i \in 1..n : Yields(base, old, i - 1, old[i].object, old[i].before)
        /\ \A o \in Object : Yields(base, old, n, o, model[o])
    BY DEF JournalReplays
  <1> HIDE DEF events, all, n, m
  <1>8. ASSUME NEW i \in 1..(n + m)
        PROVE  /\ WellFormedEvent(all[i])
               /\ Yields(base, all, i - 1, all[i].object, all[i].before)
    <2>1. CASE i \in 1..n
      <3>1. all[i] = old[i] /\ i - 1 \in Nat
        BY <1>3, <2>1
      <3>2. \A k \in 1..(i - 1) : all[k] = old[k]
        BY <1>2, <1>3, <2>1
      <3>3. Yields(base, all, i - 1, old[i].object, old[i].before)
        BY <1>7, <2>1, <3>1, <3>2, YieldsExtends
      <3> QED
        BY <1>7, <2>1, <3>1, <3>3
    <2>2. CASE i \notin 1..n
      <3>1. PICK k \in 1..m : i = n + k
        <4>1. i - n \in 1..m /\ i = n + (i - n)
          BY <1>2, <2>2
        <4> QED
          BY <4>1
      <3>2. all[i] = events[k]
        BY <1>3, <3>1
      <3> DEFINE o == events[k].object
      <3>3. o \in Object /\ events[k].before = model[o]
        BY <1>4
      <3>4. Yields(base, old, n, o, model[o])
        BY <1>7, <3>3
      <3>5. ASSUME NEW j \in (n + 1)..(i - 1) PROVE all[j].object # o
        <4>1. j - n \in 1..m /\ j = n + (j - n) /\ j - n # k
          BY <1>2, <3>1
        <4>2. all[j] = events[j - n]
          BY <1>3, <4>1
        <4> QED
          BY <1>5, <4>1, <4>2
      <3>6. i - 1 \in Nat /\ n <= i - 1
        BY <1>2, <3>1
      <3> HIDE DEF o
      <3>7. Yields(base, all, i - 1, o, model[o])
        BY <1>2, <1>3, <3>4, <3>5, <3>6, YieldsExtends
      <3> QED
        BY <1>6, <3>2, <3>3, <3>7 DEF o
    <2> QED
      BY <2>1, <2>2
  <1>9. ASSUME NEW o \in Object
        PROVE  Yields(base, all, n + m, o, AfterEvents(model, events)[o])
    <2>1. CASE IsTouched(events, o)
      <3> DEFINE k == CHOOSE k \in DOMAIN events : events[k].object = o
      <3>1. k \in DOMAIN events /\ events[k].object = o
        BY <2>1 DEF IsTouched
      <3>2. AfterEvents(model, events)[o] = events[k].after
        BY <2>1 DEF AfterEvents
      <3> HIDE DEF k
      <3>3. k \in 1..m
        BY <1>1, <3>1 DEF m
      <3>4. n + k \in 1..(n + m) /\ all[n + k] = events[k]
        BY <1>2, <1>3, <3>3
      <3>5. ASSUME NEW j \in (n + k + 1)..(n + m) PROVE all[j].object # o
        <4>1. j - n \in 1..m /\ j = n + (j - n) /\ j - n # k
          BY <1>2, <3>3
        <4>2. all[j] = events[j - n]
          BY <1>3, <4>1
        <4> QED
          BY <1>5, <3>1, <3>3, <4>1, <4>2
      <3> QED
        BY <3>1, <3>2, <3>4, <3>5 DEF Yields
    <2>2. CASE ~IsTouched(events, o)
      <3>1. AfterEvents(model, events)[o] = model[o]
        BY <2>2 DEF AfterEvents
      <3>2. ASSUME NEW j \in (n + 1)..(n + m) PROVE all[j].object # o
        <4>1. j - n \in 1..m /\ j = n + (j - n)
          BY <1>2
        <4>2. all[j] = events[j - n] /\ j - n \in DOMAIN events
          BY <1>1, <1>3, <4>1 DEF m
        <4> QED
          BY <2>2, <4>2 DEF IsTouched
      <3>3. n + m \in Nat /\ n <= n + m
        BY <1>2
      <3>4. Yields(base, old, n, o, model[o])
        BY <1>7
      <3> QED
        BY <1>2, <1>3, <3>1, <3>2, <3>3, <3>4, YieldsExtends
    <2> QED
      BY <2>1, <2>2
  <1> QED
    BY <1>3, <1>8, <1>9 DEF JournalReplays, all, events

-----------------------------------------------------------------------------
(* The inductive invariant.                                                *)

\* The head of a branch in use is a working revision of that branch.
HeadsAreWorking ==
    \A b \in Branch : head[b] # NoRevision =>
        /\ state[head[b]] = "working"
        /\ branchOf[head[b]] = b

ParentsAreSealed ==
    \A r \in Revision : \A i \in DOMAIN parents[r] :
        state[parents[r][i]] = "finalized"

\* The mode of a revision is that of its first parent.
ModesFollow ==
    \A r \in Revision : parents[r] # <<>> =>
        objectMode[r] = objectMode[parents[r][1]]

\* Once opaque, a branch cannot fall back to the empty state in which a first
\* object edit would turn it into an object-mode one.
OpaqueStaysOpaque ==
    \A r \in Revision : objectMode[r] = 0 =>
        /\ journal[r] = <<>>
        /\ parents[r] # <<>> => snapshot[r] # NoBytes \/ operations[r] # <<>>

SealedHaveRoots ==
    \A r \in Revision :
        state[r] = "finalized" /\ objectMode[r] = 1 => root[r] \in Model

\* Rows exist on object-mode branches only.
OpaqueRowsAreEmpty ==
    \A b \in Branch :
        head[b] = NoRevision \/ objectMode[head[b]] = 0 => rows[b] = EmptyModel

GroupsNameDistinctObjects ==
    \A r \in Revision : \A g \in DOMAIN groups[r] :
        \A i, k \in groups[r][g].first..groups[r][g].last :
            journal[r][i].object = journal[r][k].object => i = k

Lineage ==
    /\ HeadsAreWorking
    /\ ParentsAreSealed
    /\ ModesFollow
    /\ OpaqueStaysOpaque
    /\ SealedHaveRoots
    /\ OpaqueRowsAreEmpty

ReplayInvariant ==
    /\ Bookkeeping
    /\ Lineage
    /\ GroupsNameDistinctObjects
    /\ SealedJournalsReplay
    /\ WorkingRowsReplay

-----------------------------------------------------------------------------
(* Facts every step uses.                                                  *)

\* A revision is the working head of one branch only.
LEMMA HeadsAreApart ==
    ASSUME HeadsAreWorking, NEW b \in Branch, NEW c \in Branch, b # c,
           head[b] # NoRevision
    PROVE  head[c] # head[b]
  BY DEF HeadsAreWorking

\* What a journal is relative to is sealed, so it only moves if a seal does.
LEMMA BaselineIsStable ==
    ASSUME Bookkeeping, ParentsAreSealed, NEW s \in Revision,
           parents'[s] = parents[s],
           \A p \in Revision : state[p] = "finalized" => root'[p] = root[p]
    PROVE  Baseline(s)' = Baseline(s)
  <1>1. CASE parents[s] = <<>>
    BY <1>1 DEF Baseline
  <1>2. CASE parents[s] # <<>>
    <2>1. parents[s] \in Seq(Revision)
      BY DEF Bookkeeping, TypeOK
    <2>2. 1 \in DOMAIN parents[s] /\ parents[s][1] \in Revision
      BY <1>2, <2>1
    <2>3. root'[parents[s][1]] = root[parents[s][1]]
      BY <2>2 DEF ParentsAreSealed
    <2> QED
      BY <1>2, <2>3 DEF Baseline
  <1> QED
    BY <1>1, <1>2

LEMMA FirstParentIsSealed ==
    ASSUME Bookkeeping, ParentsAreSealed, NEW s \in Revision, parents[s] # <<>>
    PROVE  /\ parents[s][1] \in Revision
           /\ state[parents[s][1]] = "finalized"
  <1>1. parents[s] \in Seq(Revision)
    BY DEF Bookkeeping, TypeOK
  <1>2. 1 \in DOMAIN parents[s] /\ parents[s][1] \in Revision
    BY <1>1
  <1> QED
    BY <1>2 DEF ParentsAreSealed

LEMMA InitReplayInvariant == Init => ReplayInvariant
  <1> SUFFICES ASSUME Init PROVE ReplayInvariant
    OBVIOUS
  <1>1. Bookkeeping
    BY InitBookkeeping
  <1>2. Lineage
    BY DEF Init, Lineage, HeadsAreWorking, ParentsAreSealed, ModesFollow,
           OpaqueStaysOpaque, SealedHaveRoots, OpaqueRowsAreEmpty
  <1>3. /\ GroupsNameDistinctObjects
        /\ SealedJournalsReplay
        /\ WorkingRowsReplay
    BY DEF Init, GroupsNameDistinctObjects, SealedJournalsReplay,
           WorkingRowsReplay
  <1> QED
    BY <1>1, <1>2, <1>3 DEF ReplayInvariant

-----------------------------------------------------------------------------
(* Object edits.                                                           *)

LEMMA ApplyEditsLineage ==
    ASSUME ReplayInvariant, NEW b \in Branch, HasWorkingHead(b),
           NEW edits, NEW action, NEW target,
           EditEffect(b, edits, action, target)
    PROVE  Lineage'
  <1> DEFINE r == head[b]
  <1>1. /\ r \in Revision
        /\ r # NoRevision
        /\ state[r] = "working"
        /\ operations[r] = <<>>
        /\ objectMode[r] = 0 => snapshot[r] = NoBytes
    BY DEF EditEffect, HasWorkingHead
  <1>2. /\ \E model : rows' = [rows EXCEPT ![b] = model]
        /\ objectMode' = [objectMode EXCEPT ![r] = 1]
        /\ \A s \in Revision : s # r => journal'[s] = journal[s]
        /\ UNCHANGED <<head, state, branchOf, number, parents, root,
                       snapshot, operations>>
    BY DEF EditEffect, ReplayInvariant, Bookkeeping, TypeOK
  <1>3. /\ objectMode \in [Revision -> {0, 1}]
        /\ rows \in [Branch -> Model]
    BY DEF ReplayInvariant, Bookkeeping, TypeOK
  <1> HIDE DEF r
  <1>4. HeadsAreWorking' /\ ParentsAreSealed'
    BY <1>2 DEF ReplayInvariant, Lineage, HeadsAreWorking, ParentsAreSealed
  <1>5. ModesFollow'
    <2> SUFFICES ASSUME NEW s \in Revision, parents[s] # <<>>
                 PROVE  objectMode'[s] = objectMode'[parents[s][1]]
      BY <1>2 DEF ModesFollow
    <2> DEFINE p == parents[s][1]
    <2>1. p \in Revision /\ state[p] = "finalized" /\ objectMode[s] = objectMode[p]
      BY FirstParentIsSealed DEF ReplayInvariant, Lineage, ModesFollow
    <2>2. p # r
      BY <1>1, <2>1
    <2>3. objectMode[r] = 0 => parents[r] = <<>>
      BY <1>1 DEF ReplayInvariant, Lineage, OpaqueStaysOpaque
    <2> QED
      BY <1>1, <1>2, <1>3, <2>1, <2>2, <2>3
  <1>6. OpaqueStaysOpaque'
    <2> SUFFICES ASSUME NEW s \in Revision, objectMode'[s] = 0
                 PROVE  /\ journal'[s] = <<>>
                        /\ parents[s] # <<>> =>
                              snapshot[s] # NoBytes \/ operations[s] # <<>>
      BY <1>2 DEF OpaqueStaysOpaque
    <2>1. s # r /\ objectMode[s] = 0 /\ journal'[s] = journal[s]
      BY <1>1, <1>2, <1>3
    <2> QED
      BY <2>1 DEF ReplayInvariant, Lineage, OpaqueStaysOpaque
  <1>7. SealedHaveRoots'
    BY <1>1, <1>2, <1>3 DEF ReplayInvariant, Lineage, SealedHaveRoots
  <1>8. OpaqueRowsAreEmpty'
    <2> SUFFICES ASSUME NEW c \in Branch,
                        head[c] = NoRevision \/ objectMode'[head[c]] = 0
                 PROVE  rows'[c] = EmptyModel
      BY <1>2 DEF OpaqueRowsAreEmpty
    <2>1. c # b
      BY <1>1, <1>2, <1>3 DEF r
    <2>2. head[c] # r
      BY <1>1, <2>1, HeadsAreApart DEF r, ReplayInvariant, Lineage
    <2>3. head[c] # NoRevision => head[c] \in Revision
      BY DEF ReplayInvariant, Bookkeeping, TypeOK
    <2>4. head[c] = NoRevision \/ objectMode[head[c]] = 0
      BY <1>2, <1>3, <2>2, <2>3
    <2>5. rows'[c] = rows[c]
      BY <1>2, <1>3, <2>1
    <2> QED
      BY <2>4, <2>5 DEF ReplayInvariant, Lineage, OpaqueRowsAreEmpty
  <1> QED
    BY <1>4, <1>5, <1>6, <1>7, <1>8 DEF Lineage

LEMMA ApplyEditsDistinct ==
    ASSUME ReplayInvariant, NEW b \in Branch, HasWorkingHead(b),
           NEW edits \in Seq(TypedEdit), DistinctObjects(edits),
           NEW action, NEW target,
           EditEffect(b, edits, action, target)
    PROVE  GroupsNameDistinctObjects'
  <1> DEFINE r      == head[b]
             old    == journal[r]
             events == EditEvents(rows[b], edits)
             n      == Len(old)
             m      == Len(edits)
             group  == [action |-> action, target |-> target,
                        first |-> n + 1, last |-> n + m]
  <1>1. /\ r \in Revision
        /\ journal' = [journal EXCEPT ![r] = old \o events]
        /\ groups' = [groups EXCEPT ![r] = Append(groups[r], group)]
    BY DEF EditEffect
  <1>2. /\ journal \in [Revision -> Seq(Event)]
        /\ groups \in [Revision -> Seq(Group)]
        /\ rows[b] \in Model
    BY DEF ReplayInvariant, Bookkeeping, TypeOK
  <1>3. /\ old \in Seq(Event)
        /\ groups[r] \in Seq(Group)
        /\ n \in Nat
        /\ m \in Nat
    BY <1>1, <1>2
  <1>4. /\ events \in Seq(Event)
        /\ Len(events) = m
        /\ \A i \in 1..m : events[i].object = edits[i].object
    <2>1. /\ events \in Seq(Event)
          /\ Len(events) = m
          /\ \A i \in 1..m : events[i] = EventOf(rows[b], edits[i])
      BY <1>2, EditEventsType
    <2> HIDE DEF events, m
    <2>2. ASSUME NEW i \in 1..m PROVE events[i].object = edits[i].object
      BY <2>1 DEF EventOf
    <2> QED
      BY <2>1, <2>2
  <1>5. \A i, k \in 1..m : events[i].object = events[k].object => i = k
    BY <1>3, <1>4 DEF DistinctObjects
  <1>6. /\ \A i \in 1..n : (old \o events)[i] = old[i]
        /\ \A i \in 1..m : (old \o events)[n + i] = events[i]
    <2> HIDE DEF events
    <2>1. old \in Seq(Event) /\ events \in Seq(Event) /\ Len(events) = m
      BY <1>3, <1>4
    <2> HIDE DEF old, m
    <2> QED
      BY <2>1
  <1> HIDE DEF r, old, events, n, m
  <1> SUFFICES ASSUME NEW s \in Revision, NEW g \in DOMAIN groups'[s],
                      NEW i \in groups'[s][g].first..groups'[s][g].last,
                      NEW k \in groups'[s][g].first..groups'[s][g].last,
                      journal'[s][i].object = journal'[s][k].object
               PROVE  i = k
    BY DEF GroupsNameDistinctObjects
  <1>7. CASE s # r
    <2>1. groups'[s] = groups[s] /\ journal'[s] = journal[s]
      BY <1>1, <1>2, <1>7
    <2> QED
      BY <2>1 DEF ReplayInvariant, GroupsNameDistinctObjects
  <1>8. CASE s = r /\ g \in DOMAIN groups[r]
    <2>1. groups'[s][g] = groups[r][g] /\ journal'[s] = old \o events
      BY <1>1, <1>2, <1>3, <1>8
    <2>2. /\ groups[r][g] \in Group
          /\ 1 <= groups[r][g].first
          /\ groups[r][g].last <= n
      BY <1>1, <1>3, <1>8
         DEF ReplayInvariant, Bookkeeping, GroupsInsideJournal, n, old
    <2>3. groups[r][g].first \in Nat /\ groups[r][g].last \in Nat
      BY <2>2 DEF Group
    <2>4. i \in 1..n /\ k \in 1..n
      <3>1. /\ i \in groups[r][g].first..groups[r][g].last
            /\ k \in groups[r][g].first..groups[r][g].last
        BY <2>1
      <3>2. groups[r][g].first \in Int /\ groups[r][g].last \in Int /\ n \in Int
        BY <1>3, <2>3
      <3> QED
        BY <2>2, <3>1, <3>2
    <2>5. old[i].object = old[k].object
      BY <1>6, <2>1, <2>4
    <2> QED
      BY <1>1, <1>8, <2>1, <2>5
         DEF ReplayInvariant, GroupsNameDistinctObjects, old
  <1>9. CASE s = r /\ g \notin DOMAIN groups[r]
    <2>1. groups'[s] = Append(groups[r], group)
      BY <1>1, <1>2, <1>9
    <2>2. g = Len(groups[r]) + 1
      BY <1>3, <1>9, <2>1
    <2>3. groups'[s][g] = group
      BY <1>3, <2>1, <2>2
    <2>4. i \in (n + 1)..(n + m) /\ k \in (n + 1)..(n + m)
      BY <2>3
    <2>5. /\ i - n \in 1..m /\ i = n + (i - n)
          /\ k - n \in 1..m /\ k = n + (k - n)
      BY <1>3, <2>4
    <2>6. events[i - n].object = events[k - n].object
      BY <1>1, <1>2, <1>6, <1>9, <2>5
    <2>7. i - n = k - n
      BY <1>5, <2>5, <2>6
    <2> QED
      BY <1>3, <2>5, <2>7
  <1> QED
    BY <1>7, <1>8, <1>9

LEMMA ApplyEditsReplayInvariant ==
    ASSUME ReplayInvariant, NEW b \in Branch, HasWorkingHead(b),
           NEW edits \in Seq(TypedEdit), DistinctObjects(edits),
           NEW action \in {"edit", "undo", "redo"}, NEW target \in Nat,
           ApplyEdits(b, edits, action, target)
    PROVE  ReplayInvariant'
  <1> DEFINE r      == head[b]
             events == EditEvents(rows[b], edits)
  <1> EditEffect(b, edits, action, target)
    BY ApplyEditsEffect DEF ReplayInvariant
  <1>1. /\ r \in Revision
        /\ state[r] = "working"
        /\ operations[r] = <<>>
        /\ objectMode[r] = 0 => snapshot[r] = NoBytes
        /\ rows' = [rows EXCEPT ![b] = AfterEvents(rows[b], events)]
        /\ objectMode' = [objectMode EXCEPT ![r] = 1]
        /\ journal' = [journal EXCEPT ![r] = journal[r] \o events]
        /\ UNCHANGED <<head, state, parents, root>>
    BY DEF EditEffect
  <1>2. /\ objectMode \in [Revision -> {0, 1}]
        /\ rows \in [Branch -> Model]
        /\ journal \in [Revision -> Seq(Event)]
        /\ head[b] # NoRevision
    BY DEF HasWorkingHead, ReplayInvariant, Bookkeeping, TypeOK
  <1>3. \A s \in Revision : Baseline(s)' = Baseline(s)
    BY <1>1, BaselineIsStable DEF ReplayInvariant, Lineage
  <1>4. Bookkeeping'
    BY ApplyEditsBookkeeping DEF ReplayInvariant
  <1>5. Lineage' /\ GroupsNameDistinctObjects'
    BY ApplyEditsLineage, ApplyEditsDistinct
  <1>6. SealedJournalsReplay'
    <2> SUFFICES ASSUME NEW s \in Revision, state[s] = "finalized",
                        objectMode'[s] = 1
                 PROVE  /\ parents[s] # <<>> => root[parents[s][1]] # NoRoot
                        /\ JournalReplays(Baseline(s)', journal'[s], root[s])
      BY <1>1 DEF SealedJournalsReplay
    <2>1. s # r
      BY <1>1
    <2>2. objectMode[s] = 1 /\ journal'[s] = journal[s]
      BY <1>1, <1>2, <2>1
    <2> QED
      BY <1>3, <2>2 DEF ReplayInvariant, SealedJournalsReplay
  <1>7. JournalReplays(Baseline(r), journal[r], rows[b])
    <2>1. CASE objectMode[r] = 1
      BY <1>2, <2>1 DEF ReplayInvariant, WorkingRowsReplay
    <2>2. CASE objectMode[r] = 0
      <3>1. parents[r] = <<>> /\ journal[r] = <<>>
        BY <1>1, <2>2 DEF ReplayInvariant, Lineage, OpaqueStaysOpaque
      <3>2. rows[b] = EmptyModel
        BY <2>2 DEF ReplayInvariant, Lineage, OpaqueRowsAreEmpty
      <3> QED
        BY <3>1, <3>2, NothingReplays DEF Baseline
    <2> QED
      BY <1>1, <1>2, <2>1, <2>2
  <1>8. JournalReplays(Baseline(r), journal[r] \o events,
                       AfterEvents(rows[b], events))
    <2>1. \A i \in 1..Len(edits) : Accepts(rows[b][edits[i].object], edits[i])
      BY DEF ApplyEdits
    <2>2. journal[r] \in Seq(Event) /\ rows[b] \in Model
      BY <1>1, <1>2
    <2> HIDE DEF r
    <2> QED
      BY <1>7, <2>1, <2>2, GroupExtendsReplay
  <1> HIDE DEF events
  <1>9. WorkingRowsReplay'
    <2> SUFFICES ASSUME NEW c \in Branch, head[c] # NoRevision,
                        objectMode'[head[c]] = 1
                 PROVE  JournalReplays(Baseline(head[c])', journal'[head[c]],
                                       rows'[c])
      BY <1>1 DEF WorkingRowsReplay
    <2>1. head[c] \in Revision
      BY DEF ReplayInvariant, Bookkeeping, TypeOK
    <2>2. CASE c = b
      BY <1>1, <1>2, <1>3, <1>8, <2>2
    <2>3. CASE c # b
      <3>1. head[c] # r
        BY <1>2, <2>3, HeadsAreApart DEF ReplayInvariant, Lineage
      <3>2. /\ objectMode[head[c]] = 1
            /\ journal'[head[c]] = journal[head[c]]
            /\ rows'[c] = rows[c]
        BY <1>1, <1>2, <2>1, <2>3, <3>1
      <3>3. JournalReplays(Baseline(head[c]), journal[head[c]], rows[c])
        BY <3>2 DEF ReplayInvariant, WorkingRowsReplay
      <3>4. Baseline(head[c])' = Baseline(head[c])
        BY <1>1, <1>3, <2>1
      <3> QED
        BY <3>2, <3>3, <3>4
    <2> QED
      BY <2>2, <2>3
  <1> QED
    BY <1>4, <1>5, <1>6, <1>9 DEF ReplayInvariant

LEMMA CompensatingEditsAreDistinct ==
    ASSUME ReplayInvariant, NEW b \in Branch, head[b] \in Revision,
           NEW g \in DOMAIN groups[head[b]], NEW redo \in BOOLEAN
    PROVE  DistinctObjects(CompensatingEdits(b, g, redo))
  <1> DEFINE r      == head[b]
             old    == journal[r]
             first  == groups[r][g].first
             last   == groups[r][g].last
             events == GroupEvents(r, g)
             n      == Len(events)
             back   == CompensatedEvents(r, g, redo)
             edits  == CompensatingEdits(b, g, redo)
  <1>1. old \in Seq(Event)
    BY DEF ReplayInvariant, Bookkeeping, TypeOK
  <1>2. first \in Nat /\ last \in Nat
    <2>1. groups[r] \in Seq(Group)
      BY DEF ReplayInvariant, Bookkeeping, TypeOK
    <2>2. groups[r][g] \in Group
      BY <2>1
    <2> QED
      BY <2>2 DEF Group
  <1>3. 1 <= first /\ first <= last /\ last <= Len(old)
    BY DEF ReplayInvariant, Bookkeeping, GroupsInsideJournal
  <1>4. \A i, k \in first..last : old[i].object = old[k].object => i = k
    BY DEF ReplayInvariant, GroupsNameDistinctObjects
  <1>5. events = SubSeq(old, first, last)
    BY DEF GroupEvents
  <1>6. back = [i \in 1..n |-> IF redo THEN events[i] ELSE events[n + 1 - i]]
    BY DEF CompensatedEvents
  <1>7. edits = [i \in DOMAIN back |->
                   CompensatingEdit(rows[b][back[i].object], back[i], redo)]
    BY DEF CompensatingEdits
  <1> HIDE DEF r, old, first, last, events, n, back, edits
  <1>8. /\ n = last - first + 1
        /\ \A i \in 1..n : events[i] = old[first + i - 1]
    BY <1>1, <1>2, <1>3, <1>5 DEF n
  <1>9. \A i, k \in 1..n : events[i].object = events[k].object => i = k
    <2> SUFFICES ASSUME NEW i \in 1..n, NEW k \in 1..n,
                        events[i].object = events[k].object
                 PROVE  i = k
      OBVIOUS
    <2>1. /\ first + i - 1 \in first..last
          /\ first + k - 1 \in first..last
      BY <1>2, <1>3, <1>8
    <2>2. first + i - 1 = first + k - 1
      BY <1>4, <1>8, <2>1
    <2> QED
      BY <1>2, <2>2
  <1>10. \A i, k \in 1..n : back[i].object = back[k].object => i = k
    <2> SUFFICES ASSUME NEW i \in 1..n, NEW k \in 1..n,
                        back[i].object = back[k].object
                 PROVE  i = k
      OBVIOUS
    <2>1. n \in Int /\ n + 1 - i \in 1..n /\ n + 1 - k \in 1..n
      BY <1>2, <1>8
    <2>2. CASE redo
      BY <1>6, <1>9, <2>2
    <2>3. CASE ~redo
      <3>1. n + 1 - i = n + 1 - k
        BY <1>6, <1>9, <2>1, <2>3
      <3> QED
        BY <2>1, <3>1
    <2> QED
      BY <2>2, <2>3
  <1>11. DOMAIN edits = 1..n /\ \A i \in 1..n : edits[i].object = back[i].object
    BY <1>6, <1>7 DEF CompensatingEdit
  <1> QED
    BY <1>10, <1>11 DEF DistinctObjects, edits

LEMMA ObjectStepsReplayInvariant ==
    ASSUME ReplayInvariant, NEW b \in Branch, NEW expected \in Generations
    PROVE  /\ \A edit \in Edit : ModifyObject(b, edit) => ReplayInvariant'
           /\ \A edits \in EditGroups :
                 CommitObjectGroup(b, expected, edits) => ReplayInvariant'
           /\ \A redo \in BOOLEAN :
                 CompensateObjectGroup(b, expected, redo) => ReplayInvariant'
  <1>1. ASSUME NEW edit \in Edit, ModifyObject(b, edit)
        PROVE  ReplayInvariant'
    <2>1. <<edit>> \in Seq(TypedEdit) /\ DistinctObjects(<<edit>>)
      BY EditsAreTyped DEF DistinctObjects
    <2>2. HasWorkingHead(b) /\ ApplyEdits(b, <<edit>>, "edit", 0)
      BY <1>1 DEF ModifyObject
    <2> QED
      BY <2>1, <2>2, ApplyEditsReplayInvariant
  <1>2. ASSUME NEW edits \in EditGroups, CommitObjectGroup(b, expected, edits)
        PROVE  ReplayInvariant'
    <2>1. edits \in Seq(TypedEdit) /\ DistinctObjects(edits)
      BY EditsAreTyped DEF EditGroups
    <2>2. HasWorkingHead(b) /\ ApplyEdits(b, edits, "edit", 0)
      BY <1>2 DEF CommitObjectGroup
    <2> QED
      BY <2>1, <2>2, ApplyEditsReplayInvariant
  <1>3. ASSUME NEW redo \in BOOLEAN, CompensateObjectGroup(b, expected, redo)
        PROVE  ReplayInvariant'
    <2> DEFINE target == Top(Compensable(head[b], redo))
               action == IF redo THEN "redo" ELSE "undo"
    <2>1. /\ HasWorkingHead(b)
          /\ target \in DOMAIN groups[head[b]]
          /\ ApplyEdits(b, CompensatingEdits(b, target, redo), action, target)
      BY <1>3 DEF CompensateObjectGroup, CompensatingEdits
    <2>2. head[b] \in Revision
      BY <2>1 DEF HasWorkingHead, ReplayInvariant, Bookkeeping, TypeOK
    <2>3. target \in Nat
      <3>1. groups[head[b]] \in Seq(Group)
        BY <2>2 DEF ReplayInvariant, Bookkeeping, TypeOK
      <3> QED
        BY <2>1, <3>1
    <2>4. action \in {"edit", "undo", "redo"}
      OBVIOUS
    <2> HIDE DEF target, action
    <2>5. /\ CompensatingEdits(b, target, redo) \in Seq(TypedEdit)
          /\ DistinctObjects(CompensatingEdits(b, target, redo))
      BY <2>1, <2>2, CompensatingEditsType, CompensatingEditsAreDistinct
         DEF ReplayInvariant
    <2> QED
      BY <2>1, <2>3, <2>4, <2>5, ApplyEditsReplayInvariant
  <1> QED
    BY <1>1, <1>2, <1>3

-----------------------------------------------------------------------------
(* Opaque edits.                                                           *)

LEMMA SnapshotReplayInvariant ==
    ASSUME ReplayInvariant, Bookkeeping', NEW b \in Branch, NEW expected,
           OpaqueHead(b, expected), NEW new, NEW action, NEW target,
           ApplySnapshotOperation(head[b], new, action, target)
    PROVE  ReplayInvariant'
  <1> DEFINE r == head[b]
  <1>1. r \in Revision /\ state[r] = "working" /\ objectMode[r] = 0
    BY DEF OpaqueHead, HasWorkingHead, ReplayInvariant, Bookkeeping, TypeOK
  <1>2. /\ \A s \in Revision : s # r => /\ snapshot'[s] = snapshot[s]
                                       /\ operations'[s] = operations[s]
        /\ operations'[r] # <<>>
        /\ UNCHANGED <<head, rows, state, branchOf, number, objectMode, parents,
                       root, journal, groups>>
    <2>1. operations[r] \in Seq(Operation)
      BY <1>1 DEF ReplayInvariant, Bookkeeping, TypeOK
    <2> DEFINE op == [action |-> action, target |-> target,
                      before |-> snapshot[r], after |-> new]
    <2>2. Append(operations[r], op) # <<>>
      BY <2>1
    <2>3. /\ operations' = [operations EXCEPT ![r] = Append(operations[r], op)]
          /\ snapshot' = [snapshot EXCEPT ![r] = new]
          /\ UNCHANGED <<head, rows, state, branchOf, number, objectMode,
                         parents, root, journal, groups>>
      BY DEF ApplySnapshotOperation
    <2> HIDE DEF op
    <2> QED
      BY <1>1, <2>2, <2>3 DEF ReplayInvariant, Bookkeeping, TypeOK
  <1> HIDE DEF r
  <1>3. OpaqueStaysOpaque'
    BY <1>1, <1>2 DEF ReplayInvariant, Lineage, OpaqueStaysOpaque
  <1>4. Lineage'
    BY <1>2, <1>3 DEF ReplayInvariant, Lineage, HeadsAreWorking,
                      ParentsAreSealed, ModesFollow, SealedHaveRoots,
                      OpaqueRowsAreEmpty
  <1>5. \A s \in Revision : Baseline(s)' = Baseline(s)
    BY <1>2 DEF Baseline
  <1>6. SealedJournalsReplay' /\ WorkingRowsReplay'
    <2>1. SealedJournalsReplay'
      BY <1>2, <1>5 DEF ReplayInvariant, SealedJournalsReplay
    <2>2. \A c \in Branch : head[c] # NoRevision => head[c] \in Revision
      BY DEF ReplayInvariant, Bookkeeping, TypeOK
    <2>3. WorkingRowsReplay'
      BY <1>2, <1>5, <2>2 DEF ReplayInvariant, WorkingRowsReplay
    <2> QED
      BY <2>1, <2>3
  <1> QED
    BY <1>2, <1>4, <1>6 DEF ReplayInvariant, GroupsNameDistinctObjects

-----------------------------------------------------------------------------
(* Branches and revisions.                                                 *)

LEMMA ParentsAreRevisions ==
    ASSUME Bookkeeping, NEW s \in Revision, NEW i \in DOMAIN parents[s]
    PROVE  parents[s][i] \in Revision
  <1>1. parents[s] \in Seq(Revision)
    BY DEF Bookkeeping, TypeOK
  <1> QED
    BY <1>1

LEMMA CreateProjectReplayInvariant ==
    ASSUME ReplayInvariant, NEW b \in Branch, NEW r \in Revision,
           CreateProject(b, r)
    PROVE  ReplayInvariant'
  <1>1. /\ \A c \in Branch : head[c] = NoRevision
        /\ state[r] = "unused"
        /\ objectMode[r] = 0
    BY DEF CreateProject, ReplayInvariant, Bookkeeping, UnusedRevisionsAreBlank
  <1>2. /\ head' = [head EXCEPT ![b] = r]
        /\ state' = [state EXCEPT ![r] = "working"]
        /\ branchOf' = [branchOf EXCEPT ![r] = b]
        /\ UNCHANGED <<rows, generation, objectMode, parents, root, snapshot,
                       journal, groups, operations>>
    BY DEF CreateProject
  <1>3. /\ head \in [Branch -> Revision \cup {NoRevision}]
        /\ state \in [Revision -> {"unused", "working", "finalized"}]
        /\ branchOf \in [Revision -> Branch \cup {NoBranch}]
    BY DEF ReplayInvariant, Bookkeeping, TypeOK
  <1>4. Bookkeeping'
    BY CreateProjectBookkeeping DEF ReplayInvariant
  <1>5. \A s \in Revision : state'[s] = "finalized" <=> state[s] = "finalized"
    BY <1>1, <1>2, <1>3
  <1>6. HeadsAreWorking'
    BY <1>1, <1>2, <1>3 DEF HeadsAreWorking
  <1>7. ParentsAreSealed'
    BY <1>2, <1>5, ParentsAreRevisions DEF ReplayInvariant, Lineage, ParentsAreSealed
  <1>8. ModesFollow' /\ OpaqueStaysOpaque' /\ SealedHaveRoots'
    BY <1>2, <1>5 DEF ReplayInvariant, Lineage, ModesFollow, OpaqueStaysOpaque,
                      SealedHaveRoots
  <1>9. OpaqueRowsAreEmpty'
    BY <1>1, <1>2 DEF ReplayInvariant, Lineage, OpaqueRowsAreEmpty
  <1>10. \A s \in Revision : Baseline(s)' = Baseline(s)
    BY <1>2 DEF Baseline
  <1>11. SealedJournalsReplay'
    BY <1>2, <1>5, <1>10 DEF ReplayInvariant, SealedJournalsReplay
  <1>12. WorkingRowsReplay'
    BY <1>1, <1>2, <1>3 DEF WorkingRowsReplay
  <1>13. GroupsNameDistinctObjects'
    BY <1>2 DEF ReplayInvariant, GroupsNameDistinctObjects
  <1> QED
    BY <1>4, <1>6, <1>7, <1>8, <1>9, <1>11, <1>12, <1>13
       DEF ReplayInvariant, Lineage

LEMMA CreateBranchReplayInvariant ==
    ASSUME ReplayInvariant, NEW b \in Branch, NEW r \in Revision,
           NEW base \in Revision, CreateBranch(b, r, base)
    PROVE  ReplayInvariant'
  <1> DEFINE model == IF objectMode[base] = 1 THEN root[base] ELSE EmptyModel
             bytes == IF objectMode[base] = 0 THEN snapshot[base] ELSE NoBytes
  <1>1. /\ head[b] = NoRevision
        /\ state[r] = "unused"
        /\ state[base] = "finalized"
        /\ r # base
        /\ journal[r] = <<>>
        /\ objectMode[base] = 0 => bytes # NoBytes
    BY DEF CreateBranch, ReplayInvariant, Bookkeeping, UnusedRevisionsAreBlank
  <1>2. /\ head' = [head EXCEPT ![b] = r]
        /\ state' = [state EXCEPT ![r] = "working"]
        /\ branchOf' = [branchOf EXCEPT ![r] = b]
        /\ parents' = [parents EXCEPT ![r] = <<base>>]
        /\ objectMode' = [objectMode EXCEPT ![r] = objectMode[base]]
        /\ rows' = [rows EXCEPT ![b] = model]
        /\ snapshot' = [snapshot EXCEPT ![r] = bytes]
        /\ UNCHANGED <<generation, root, journal, groups, operations>>
    BY DEF CreateBranch
  <1>3. /\ head \in [Branch -> Revision \cup {NoRevision}]
        /\ state \in [Revision -> {"unused", "working", "finalized"}]
        /\ branchOf \in [Revision -> Branch \cup {NoBranch}]
        /\ parents \in [Revision -> Seq(Revision)]
        /\ objectMode \in [Revision -> {0, 1}]
        /\ rows \in [Branch -> Model]
        /\ snapshot \in [Revision -> Bytes \cup {NoBytes, ObjectManifest}]
    BY DEF ReplayInvariant, Bookkeeping, TypeOK
  <1>4. Bookkeeping'
    BY CreateBranchBookkeeping DEF ReplayInvariant
  <1> HIDE DEF bytes
  <1>5. \A s \in Revision :
           /\ state'[s] = "finalized" <=> state[s] = "finalized"
           /\ state[s] = "finalized" => s # r
           /\ s # r => /\ parents'[s] = parents[s]
                       /\ objectMode'[s] = objectMode[s]
                       /\ snapshot'[s] = snapshot[s]
    BY <1>1, <1>2, <1>3
  <1>6. parents'[r] = <<base>> /\ objectMode'[r] = objectMode[base]
        /\ snapshot'[r] = bytes
    BY <1>2, <1>3
  <1>7. \A c \in Branch : c # b =>
           /\ head'[c] = head[c]
           /\ rows'[c] = rows[c]
           /\ head[c] # NoRevision => head[c] \in Revision /\ head[c] # r
    BY <1>1, <1>2, <1>3 DEF ReplayInvariant, Lineage, HeadsAreWorking
  <1>8. head'[b] = r /\ rows'[b] = model
    BY <1>2, <1>3
  <1>9. HeadsAreWorking'
    BY <1>2, <1>3, <1>7, <1>8 DEF ReplayInvariant, Lineage, HeadsAreWorking
  <1>10. ParentsAreSealed'
    <2> SUFFICES ASSUME NEW s \in Revision, NEW i \in DOMAIN parents'[s]
                 PROVE  state'[parents'[s][i]] = "finalized"
      BY DEF ParentsAreSealed
    <2>1. CASE s = r
      BY <1>1, <1>5, <1>6, <2>1
    <2>2. CASE s # r
      <3>1. i \in DOMAIN parents[s] /\ parents'[s][i] = parents[s][i]
        BY <1>5, <2>2
      <3>2. parents[s][i] \in Revision /\ state[parents[s][i]] = "finalized"
        BY <3>1, ParentsAreRevisions
           DEF ReplayInvariant, Lineage, ParentsAreSealed
      <3> QED
        BY <1>5, <3>1, <3>2
    <2> QED
      BY <2>1, <2>2
  <1>11. ModesFollow'
    <2> SUFFICES ASSUME NEW s \in Revision, parents'[s] # <<>>
                 PROVE  objectMode'[s] = objectMode'[parents'[s][1]]
      BY DEF ModesFollow
    <2>1. CASE s = r
      BY <1>1, <1>5, <1>6, <2>1
    <2>2. CASE s # r
      <3>1. parents'[s] = parents[s]
        BY <1>5, <2>2
      <3>2. parents[s][1] \in Revision /\ parents[s][1] # r
        BY <1>5, <3>1, FirstParentIsSealed DEF ReplayInvariant, Lineage
      <3> QED
        BY <1>5, <2>2, <3>1, <3>2 DEF ReplayInvariant, Lineage, ModesFollow
    <2> QED
      BY <2>1, <2>2
  <1>12. OpaqueStaysOpaque'
    BY <1>1, <1>2, <1>5, <1>6 DEF ReplayInvariant, Lineage, OpaqueStaysOpaque
  <1>13. SealedHaveRoots'
    BY <1>2, <1>5 DEF ReplayInvariant, Lineage, SealedHaveRoots
  <1>14. OpaqueRowsAreEmpty'
    <2> SUFFICES ASSUME NEW c \in Branch,
                        head'[c] = NoRevision \/ objectMode'[head'[c]] = 0
                 PROVE  rows'[c] = EmptyModel
      BY DEF OpaqueRowsAreEmpty
    <2>1. CASE c = b
      <3>1. r # NoRevision
        BY NullsAreNotValues
      <3> QED
        BY <1>6, <1>8, <2>1, <3>1
    <2>2. CASE c # b
      BY <1>5, <1>7, <2>2 DEF ReplayInvariant, Lineage, OpaqueRowsAreEmpty
    <2> QED
      BY <2>1, <2>2
  <1>15. \A s \in Revision : s # r => Baseline(s)' = Baseline(s)
    BY <1>2, <1>5 DEF Baseline
  <1>17. SealedJournalsReplay'
    BY <1>2, <1>5, <1>15 DEF ReplayInvariant, SealedJournalsReplay
  <1>18. WorkingRowsReplay'
    <2> SUFFICES ASSUME NEW c \in Branch, head'[c] # NoRevision,
                        objectMode'[head'[c]] = 1
                 PROVE  JournalReplays(Baseline(head[c])', journal'[head'[c]],
                                       rows'[c])
      BY DEF WorkingRowsReplay
    <2>1. CASE c = b
      <3>1. rows'[c] = root[base]
        <4>1. objectMode[base] = 1
          BY <1>6, <1>8, <2>1
        <4> QED
          BY <1>8, <2>1, <4>1
      <3>2. Baseline(head[c])' = root[base]
        <4>1. parents'[head'[c]] = <<base>> /\ root' = root
          BY <1>2, <1>6, <1>8, <2>1
        <4>2. <<base>> # <<>> /\ <<base>>[1] = base
          OBVIOUS
        <4> QED
          BY <4>1, <4>2, Zenon DEF Baseline
      <3>3. journal'[head'[c]] = <<>>
        BY <1>1, <1>2, <1>8, <2>1
      <3> QED
        BY <3>1, <3>2, <3>3, NothingReplays
    <2>2. CASE c # b
      <3>1. /\ head'[c] = head[c]
            /\ rows'[c] = rows[c]
            /\ head[c] \in Revision
            /\ head[c] # r
            /\ head[c] # NoRevision
        BY <1>7, <2>2
      <3>2. objectMode[head[c]] = 1
        BY <1>5, <3>1
      <3>3. Baseline(head[c])' = Baseline(head[c])
        BY <1>2, <1>5, <3>1 DEF Baseline
      <3> QED
        BY <1>2, <3>1, <3>2, <3>3 DEF ReplayInvariant, WorkingRowsReplay
    <2> QED
      BY <2>1, <2>2
  <1>19. GroupsNameDistinctObjects'
    BY <1>2 DEF ReplayInvariant, GroupsNameDistinctObjects
  <1> QED
    BY <1>4, <1>9, <1>10, <1>11, <1>12, <1>13, <1>14, <1>17, <1>18, <1>19
       DEF ReplayInvariant, Lineage

\* Sealing only the rows that the journal names gives the whole model.
LEMMA SealIsComplete ==
    ASSUME NEW inherited \in Model, NEW model \in Model, NEW events \in Seq(Event),
           \A o \in Object : Yields(inherited, events, Len(events), o, model[o])
    PROVE  BuildRevisionRoot(inherited, model, events) = model
  <1>1. inherited # NoRoot
    BY NoRootIsNotAModel
  <1>2. ASSUME NEW o \in Object, ~IsTouched(events, o)
        PROVE  model[o] = inherited[o]
    <2>1. DOMAIN events = 1..Len(events)
      OBVIOUS
    <2>2. \A i \in 1..Len(events) : events[i].object # o
      BY <1>2, <2>1 DEF IsTouched
    <2> QED
      BY <2>2 DEF Yields
  <1>3. \A o \in Object :
           (IF IsTouched(events, o) THEN model[o] ELSE inherited[o]) = model[o]
    BY <1>2
  <1> QED
    BY <1>1, <1>3 DEF BuildRevisionRoot, Model

LEMMA FinalizeReplayInvariant ==
    ASSUME ReplayInvariant, NEW b \in Branch, NEW new \in Revision,
           NEW expected, Finalize(b, new, expected)
    PROVE  ReplayInvariant'
  <1> DEFINE r == head[b]
             inherited == IF parents[r] = <<>> THEN NoRoot
                          ELSE root[parents[r][1]]
             sealed == IF objectMode[r] = 0 THEN NoRoot
                       ELSE BuildRevisionRoot(inherited, rows[b], journal[r])
             bytes == IF objectMode[r] = 0 THEN snapshot[r] ELSE NoBytes
  <1>1. /\ r \in Revision
        /\ r # NoRevision
        /\ state[r] = "working"
        /\ state[new] = "unused"
        /\ new # r
        /\ journal[new] = <<>>
        /\ parents[new] = <<>>
        /\ objectMode[r] = 0 => bytes # NoBytes
    BY DEF Finalize, HasWorkingHead, SealAndAdvance, ReplayInvariant,
           Bookkeeping, TypeOK, UnusedRevisionsAreBlank
  <1>2. /\ head' = [head EXCEPT ![b] = new]
        /\ state' = [state EXCEPT ![r] = "finalized", ![new] = "working"]
        /\ branchOf' = [branchOf EXCEPT ![new] = b]
        /\ parents' = [parents EXCEPT ![new] = <<r>>]
        /\ objectMode' = [objectMode EXCEPT ![new] = objectMode[r]]
        /\ root' = [root EXCEPT ![r] = sealed]
        /\ snapshot' = [snapshot EXCEPT
                           ![r] = IF objectMode[r] = 0 THEN @ ELSE ObjectManifest,
                           ![new] = bytes]
        /\ UNCHANGED <<rows, generation, journal, groups, operations>>
    BY DEF Finalize, SealAndAdvance
  <1>3. /\ head \in [Branch -> Revision \cup {NoRevision}]
        /\ state \in [Revision -> {"unused", "working", "finalized"}]
        /\ branchOf \in [Revision -> Branch \cup {NoBranch}]
        /\ parents \in [Revision -> Seq(Revision)]
        /\ objectMode \in [Revision -> {0, 1}]
        /\ rows \in [Branch -> Model]
        /\ root \in [Revision -> Model \cup {NoRoot}]
        /\ journal \in [Revision -> Seq(Event)]
        /\ snapshot \in [Revision -> Bytes \cup {NoBytes, ObjectManifest}]
    BY DEF ReplayInvariant, Bookkeeping, TypeOK
  <1>4. Bookkeeping'
    BY FinalizeBookkeeping DEF ReplayInvariant
  <1>5. objectMode[r] = 1 =>
           /\ JournalReplays(Baseline(r), journal[r], rows[b])
           /\ sealed = rows[b]
           /\ parents[r] # <<>> => inherited \in Model
    <2> SUFFICES ASSUME objectMode[r] = 1
                 PROVE  /\ JournalReplays(Baseline(r), journal[r], rows[b])
                        /\ sealed = rows[b]
                        /\ parents[r] # <<>> => inherited \in Model
      OBVIOUS
    <2>1. JournalReplays(Baseline(r), journal[r], rows[b])
      BY <1>1 DEF ReplayInvariant, WorkingRowsReplay
    <2>2. CASE parents[r] = <<>>
      BY <2>1, <2>2 DEF BuildRevisionRoot
    <2>3. CASE parents[r] # <<>>
      <3>1. inherited = root[parents[r][1]] /\ inherited = Baseline(r)
        BY <2>3 DEF Baseline
      <3>2. inherited \in Model
        BY <1>1, <2>3, <3>1, FirstParentIsSealed
           DEF ReplayInvariant, Lineage, ModesFollow, SealedHaveRoots
      <3>3. rows[b] \in Model /\ journal[r] \in Seq(Event)
        BY <1>1, <1>3
      <3>4. \A o \in Object :
               Yields(inherited, journal[r], Len(journal[r]), o, rows[b][o])
        BY <2>1, <3>1 DEF JournalReplays
      <3> HIDE DEF inherited
      <3>5. BuildRevisionRoot(inherited, rows[b], journal[r]) = rows[b]
        BY <3>2, <3>3, <3>4, SealIsComplete
      <3> QED
        BY <2>1, <3>2, <3>5
    <2> QED
      BY <2>2, <2>3
  <1> HIDE DEF sealed, inherited, bytes
  <1>6. /\ state'[r] = "finalized" /\ state'[new] = "working"
        /\ parents'[new] = <<r>> /\ parents'[r] = parents[r]
        /\ objectMode'[new] = objectMode[r] /\ objectMode'[r] = objectMode[r]
        /\ root'[r] = sealed
        /\ snapshot'[new] = bytes
        /\ objectMode[r] = 0 => snapshot'[r] = snapshot[r]
    BY <1>1, <1>2, <1>3
  <1>7. \A s \in Revision \ {r, new} :
           /\ state'[s] = state[s]
           /\ parents'[s] = parents[s]
           /\ objectMode'[s] = objectMode[s]
           /\ root'[s] = root[s]
           /\ snapshot'[s] = snapshot[s]
    BY <1>1, <1>2, <1>3
  <1>8. \A s \in Revision : state[s] = "finalized" => s \notin {r, new}
    BY <1>1
  <1>9. \A c \in Branch : c # b =>
           /\ head'[c] = head[c]
           /\ head[c] # NoRevision => head[c] \in Revision \ {r, new}
    <2> SUFFICES ASSUME NEW c \in Branch, c # b
                 PROVE  /\ head'[c] = head[c]
                        /\ head[c] # NoRevision => head[c] \in Revision \ {r, new}
      OBVIOUS
    <2>1. head'[c] = head[c] /\ head[c] \in Revision \cup {NoRevision}
      BY <1>2, <1>3
    <2>2. head[c] # r
      BY <1>1, HeadsAreApart DEF ReplayInvariant, Lineage
    <2>3. head[c] # NoRevision => head[c] # new
      BY <1>1 DEF ReplayInvariant, Lineage, HeadsAreWorking
    <2> QED
      BY <2>1, <2>2, <2>3
  <1>10. head'[b] = new
    BY <1>2, <1>3
  <1>11. HeadsAreWorking'
    <2> SUFFICES ASSUME NEW c \in Branch, head'[c] # NoRevision
                 PROVE  state'[head'[c]] = "working" /\ branchOf'[head'[c]] = c
      BY DEF HeadsAreWorking
    <2>1. CASE c = b
      BY <1>2, <1>3, <1>6, <1>10, <2>1
    <2>2. CASE c # b
      <3>1. head'[c] = head[c] /\ head[c] \in Revision \ {r, new}
        BY <1>9, <2>2
      <3>2. state[head[c]] = "working" /\ branchOf[head[c]] = c
        BY <3>1 DEF ReplayInvariant, Lineage, HeadsAreWorking
      <3> QED
        BY <1>2, <1>3, <1>7, <3>1, <3>2
    <2> QED
      BY <2>1, <2>2
  <1>12. ParentsAreSealed'
    <2> SUFFICES ASSUME NEW s \in Revision, NEW i \in DOMAIN parents'[s]
                 PROVE  state'[parents'[s][i]] = "finalized"
      BY DEF ParentsAreSealed
    <2>1. CASE s = new
      BY <1>6, <2>1
    <2>2. CASE s # new
      <3>1. parents'[s] = parents[s]
        BY <1>6, <1>7, <2>2
      <3>2. parents[s][i] \in Revision /\ state[parents[s][i]] = "finalized"
        BY <3>1, ParentsAreRevisions
           DEF ReplayInvariant, Lineage, ParentsAreSealed
      <3> QED
        BY <1>7, <1>8, <3>1, <3>2
    <2> QED
      BY <2>1, <2>2
  <1>13. \A s \in Revision : s # new =>
            /\ parents'[s] = parents[s]
            /\ parents[s] # <<>> =>
                  /\ parents[s][1] \in Revision \ {r, new}
                  /\ state[parents[s][1]] = "finalized"
    BY <1>6, <1>7, <1>8, FirstParentIsSealed DEF ReplayInvariant, Lineage
  <1>14. ModesFollow'
    <2> SUFFICES ASSUME NEW s \in Revision, parents'[s] # <<>>
                 PROVE  objectMode'[s] = objectMode'[parents'[s][1]]
      BY DEF ModesFollow
    <2>1. CASE s = new
      BY <1>6, <2>1
    <2>2. CASE s # new
      <3>1. objectMode[s] = objectMode[parents[s][1]]
        BY <1>13, <2>2 DEF ReplayInvariant, Lineage, ModesFollow
      <3> QED
        BY <1>6, <1>7, <1>13, <2>2, <3>1
    <2> QED
      BY <2>1, <2>2
  <1>15. OpaqueStaysOpaque'
    <2> SUFFICES ASSUME NEW s \in Revision, objectMode'[s] = 0
                 PROVE  /\ journal[s] = <<>>
                        /\ parents'[s] # <<>> =>
                              snapshot'[s] # NoBytes \/ operations[s] # <<>>
      BY <1>2 DEF OpaqueStaysOpaque
    <2>1. CASE s = new
      BY <1>1, <1>6, <2>1
    <2>2. CASE s # new
      <3>1. objectMode[s] = 0 /\ snapshot'[s] = snapshot[s]
        BY <1>6, <1>7, <2>2
      <3> QED
        BY <1>13, <2>2, <3>1 DEF ReplayInvariant, Lineage, OpaqueStaysOpaque
    <2> QED
      BY <2>1, <2>2
  <1>16. SealedHaveRoots'
    <2> SUFFICES ASSUME NEW s \in Revision, state'[s] = "finalized",
                        objectMode'[s] = 1
                 PROVE  root'[s] \in Model
      BY DEF SealedHaveRoots
    <2>1. CASE s = r
      BY <1>3, <1>5, <1>6, <2>1
    <2>2. CASE s # r
      BY <1>6, <1>7, <2>2 DEF ReplayInvariant, Lineage, SealedHaveRoots
    <2> QED
      BY <2>1, <2>2
  <1>17. OpaqueRowsAreEmpty'
    <2> SUFFICES ASSUME NEW c \in Branch,
                        head'[c] = NoRevision \/ objectMode'[head'[c]] = 0
                 PROVE  rows[c] = EmptyModel
      BY <1>2 DEF OpaqueRowsAreEmpty
    <2>1. CASE c = b
      <3>1. new # NoRevision
        BY NullsAreNotValues
      <3>2. objectMode[r] = 0
        BY <1>6, <1>10, <2>1, <3>1
      <3> QED
        BY <2>1, <3>2 DEF ReplayInvariant, Lineage, OpaqueRowsAreEmpty
    <2>2. CASE c # b
      BY <1>7, <1>9, <2>2 DEF ReplayInvariant, Lineage, OpaqueRowsAreEmpty
    <2> QED
      BY <2>1, <2>2
  <1>18. \A s \in Revision : s # new => Baseline(s)' = Baseline(s)
    BY <1>7, <1>13 DEF Baseline
  <1>19. SealedJournalsReplay'
    <2> SUFFICES ASSUME NEW s \in Revision, state'[s] = "finalized",
                        objectMode'[s] = 1
                 PROVE  /\ parents'[s] # <<>> => root'[parents'[s][1]] # NoRoot
                        /\ JournalReplays(Baseline(s)', journal[s], root'[s])
      BY <1>2 DEF SealedJournalsReplay
    <2>1. s # new
      BY <1>6
    <2>2. Baseline(s)' = Baseline(s)
      BY <1>18, <2>1
    <2>3. parents'[s] # <<>> => root'[parents'[s][1]] = root[parents[s][1]]
      BY <1>7, <1>13, <2>1
    <2>4. CASE s = r
      <3>1. objectMode[r] = 1
        BY <1>6, <2>4
      <3>2. parents[r] # <<>> => root[parents[r][1]] # NoRoot
        BY <1>5, <3>1, NoRootIsNotAModel DEF inherited
      <3> QED
        BY <1>5, <1>6, <2>2, <2>3, <2>4, <3>1, <3>2
    <2>5. CASE s # r
      <3>1. state[s] = "finalized" /\ objectMode[s] = 1 /\ root'[s] = root[s]
            /\ parents'[s] = parents[s]
        BY <1>7, <2>1, <2>5
      <3> QED
        BY <2>2, <2>3, <3>1 DEF ReplayInvariant, SealedJournalsReplay
    <2> QED
      BY <2>4, <2>5
  <1>20. WorkingRowsReplay'
    <2> SUFFICES ASSUME NEW c \in Branch, head'[c] # NoRevision,
                        objectMode'[head'[c]] = 1
                 PROVE  JournalReplays(Baseline(head[c])', journal[head'[c]],
                                       rows[c])
      BY <1>2 DEF WorkingRowsReplay
    <2>1. CASE c = b
      <3>1. objectMode[r] = 1 /\ journal[head'[c]] = <<>>
        BY <1>1, <1>6, <1>10, <2>1
      <3>2. Baseline(head[c])' = rows[b]
        <4>1. parents'[head'[c]] = <<r>> /\ root'[r] = rows[b]
          BY <1>5, <1>6, <1>10, <2>1, <3>1
        <4>2. <<r>> # <<>> /\ <<r>>[1] = r
          OBVIOUS
        <4> QED
          BY <4>1, <4>2, Zenon DEF Baseline
      <3> QED
        BY <2>1, <3>1, <3>2, NothingReplays
    <2>2. CASE c # b
      <3>1. head'[c] = head[c] /\ head[c] \in Revision \ {r, new}
        BY <1>9, <2>2
      <3>2. head[c] # NoRevision /\ objectMode[head[c]] = 1
        BY <1>7, <3>1
      <3>3. Baseline(head[c])' = Baseline(head[c])
        BY <1>7, <1>13, <3>1 DEF Baseline
      <3> QED
        BY <3>1, <3>2, <3>3 DEF ReplayInvariant, WorkingRowsReplay
    <2> QED
      BY <2>1, <2>2
  <1>21. GroupsNameDistinctObjects'
    BY <1>2 DEF ReplayInvariant, GroupsNameDistinctObjects
  <1> QED
    BY <1>4, <1>11, <1>12, <1>14, <1>15, <1>16, <1>17, <1>19, <1>20, <1>21
       DEF ReplayInvariant, Lineage

-----------------------------------------------------------------------------
(* The theorems.                                                           *)

LEMMA SnapshotStepsReplayInvariant ==
    ASSUME ReplayInvariant, Bookkeeping', NEW b \in Branch, NEW expected
    PROVE  /\ \A bytes \in Bytes :
                 ReplaceWorkingSnapshot(b, expected, bytes) => ReplayInvariant'
           /\ UndoLastChange(b, expected) => ReplayInvariant'
           /\ RedoLastChange(b, expected) => ReplayInvariant'
  <1>1. ASSUME NEW bytes \in Bytes, ReplaceWorkingSnapshot(b, expected, bytes)
        PROVE  ReplayInvariant'
    BY <1>1, SnapshotReplayInvariant DEF ReplaceWorkingSnapshot
  <1>2. ASSUME UndoLastChange(b, expected) PROVE ReplayInvariant'
    BY <1>2, SnapshotReplayInvariant DEF UndoLastChange
  <1>3. ASSUME RedoLastChange(b, expected) PROVE ReplayInvariant'
    BY <1>3, SnapshotReplayInvariant DEF RedoLastChange
  <1> QED
    BY <1>1, <1>2, <1>3

LEMMA ReplayInvariantStep == ReplayInvariant /\ [Next]_tables => ReplayInvariant'
  <1> SUFFICES ASSUME ReplayInvariant, [Next]_tables
               PROVE  ReplayInvariant'
    OBVIOUS
  <1>0. Bookkeeping'
    BY BookkeepingStep DEF ReplayInvariant
  <1>1. CASE UNCHANGED tables
    <2>1. /\ \A s \in Revision : Baseline(s)' = Baseline(s)
          /\ \A b \in Branch : Baseline(head[b])' = Baseline(head[b])
      BY <1>1 DEF tables, Baseline
    <2>2. Lineage' /\ GroupsNameDistinctObjects'
      BY <1>1 DEF tables, ReplayInvariant, Lineage, HeadsAreWorking,
                  ParentsAreSealed, ModesFollow, OpaqueStaysOpaque,
                  SealedHaveRoots, OpaqueRowsAreEmpty, GroupsNameDistinctObjects
    <2>3. SealedJournalsReplay' /\ WorkingRowsReplay'
      BY <1>1, <2>1 DEF tables, ReplayInvariant, SealedJournalsReplay,
                        WorkingRowsReplay
    <2> QED
      BY <1>0, <2>2, <2>3 DEF ReplayInvariant
  <1>2. ASSUME NEW b \in Branch, NEW r \in Revision, CreateProject(b, r)
        PROVE  ReplayInvariant'
    BY <1>2, CreateProjectReplayInvariant
  <1>3. ASSUME NEW b \in Branch, NEW r \in Revision, NEW base \in Revision,
               CreateBranch(b, r, base)
        PROVE  ReplayInvariant'
    BY <1>3, CreateBranchReplayInvariant
  <1>4. ASSUME NEW b \in Branch, NEW new \in Revision,
               NEW expected \in Generations, Finalize(b, new, expected)
        PROVE  ReplayInvariant'
    BY <1>4, FinalizeReplayInvariant
  <1>5. ASSUME NEW b \in Branch, NEW edit \in Edit, ModifyObject(b, edit)
        PROVE  ReplayInvariant'
    BY <1>5, MaxGenerationIsNat, ObjectStepsReplayInvariant DEF Generations
  <1>6. ASSUME NEW b \in Branch, NEW expected \in Generations
        PROVE  /\ \A edits \in EditGroups :
                     CommitObjectGroup(b, expected, edits) => ReplayInvariant'
               /\ \A redo \in BOOLEAN :
                     CompensateObjectGroup(b, expected, redo) => ReplayInvariant'
               /\ \A bytes \in Bytes :
                     ReplaceWorkingSnapshot(b, expected, bytes) => ReplayInvariant'
               /\ UndoLastChange(b, expected) => ReplayInvariant'
               /\ RedoLastChange(b, expected) => ReplayInvariant'
    BY <1>0, <1>6, ObjectStepsReplayInvariant, SnapshotStepsReplayInvariant
  <1> QED
    BY <1>1, <1>2, <1>3, <1>4, <1>5, <1>6 DEF Next

LEMMA ReplayInvariantIsInvariant == Spec => []ReplayInvariant
  BY InitReplayInvariant, ReplayInvariantStep, PTL DEF Spec

\* What verifyRevisionJournalReplay checks of a stored project holds in every
\* reachable state: the journal of a finalized object-mode revision, replayed
\* on the snapshot of its first parent, gives the snapshot that was sealed.
THEOREM SealedJournalsAlwaysReplay == Spec => []SealedJournalsReplay
  <1>1. ReplayInvariant => SealedJournalsReplay
    BY DEF ReplayInvariant
  <1> QED
    BY <1>1, ReplayInvariantIsInvariant, PTL

\* The same for the live rows of every object-mode branch: no mixture of edits,
\* groups, undos, redos, branchings and finalizations changes a row without an
\* event in the journal of the working revision, so sealing from the rows that
\* this journal names loses nothing.
THEOREM WorkingRowsAlwaysReplay == Spec => []WorkingRowsReplay
  <1>1. ReplayInvariant => WorkingRowsReplay
    BY DEF ReplayInvariant
  <1> QED
    BY <1>1, ReplayInvariantIsInvariant, PTL
=============================================================================
