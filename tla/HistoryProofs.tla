---------------------------- MODULE HistoryProofs ----------------------------
(***************************************************************************)
(* What no step of the store may do to its history: the action properties  *)
(* of RevisionStore, from the invariant that the journals replay.  And what*)
(* its calls keep in order: one working head per branch with gapless       *)
(* numbers, groups that partition their journal, the two modes apart, and  *)
(* a generation that counts every change of the model.                     *)
(***************************************************************************)
EXTENDS RevisionStoreProofs

\* The edits of a step, whichever object operation it is.
ObjectStep(b) ==
    \E edits \in Seq(TypedEdit), action \in {"edit", "undo", "redo"},
       target \in Nat :
        /\ HasWorkingHead(b)
        /\ ApplyEdits(b, edits, action, target)

SnapshotStep(b) ==
    \E expected, new, target : \E action \in {"replace", "undo", "redo"} :
        /\ OpaqueHead(b, expected)
        /\ ApplySnapshotOperation(head[b], new, action, target)

\* Every step is a stutter or one of five kinds.
LEMMA StepKinds ==
    ASSUME Bookkeeping, [Next]_tables
    PROVE  \/ UNCHANGED tables
           \/ \E b \in Branch, r \in Revision : CreateProject(b, r)
           \/ \E b \in Branch, r, base \in Revision : CreateBranch(b, r, base)
           \/ \E b \in Branch, new \in Revision, expected \in Generations :
                 Finalize(b, new, expected)
           \/ \E b \in Branch : ObjectStep(b)
           \/ \E b \in Branch : SnapshotStep(b)
  <1>1. ASSUME NEW b \in Branch, NEW edit \in Edit, ModifyObject(b, edit)
        PROVE  ObjectStep(b)
    BY <1>1, EditsAreTyped DEF ModifyObject, ObjectStep
  <1>2. ASSUME NEW b \in Branch, NEW expected, NEW edits \in EditGroups,
               CommitObjectGroup(b, expected, edits)
        PROVE  ObjectStep(b)
    BY <1>2, EditsAreTyped DEF CommitObjectGroup, ObjectStep
  <1>3. ASSUME NEW b \in Branch, NEW expected, NEW redo \in BOOLEAN,
               CompensateObjectGroup(b, expected, redo)
        PROVE  ObjectStep(b)
    <2> DEFINE target == Top(Compensable(head[b], redo))
               action == IF redo THEN "redo" ELSE "undo"
    <2>1. /\ HasWorkingHead(b)
          /\ target \in DOMAIN groups[head[b]]
          /\ ApplyEdits(b, CompensatingEdits(b, target, redo), action, target)
      BY <1>3 DEF CompensateObjectGroup, CompensatingEdits
    <2>2. head[b] \in Revision
      BY <2>1 DEF HasWorkingHead, Bookkeeping, TypeOK
    <2>3. target \in Nat
      <3>1. groups[head[b]] \in Seq(Group)
        BY <2>2 DEF Bookkeeping, TypeOK
      <3> QED
        BY <2>1, <3>1
    <2>4. action \in {"edit", "undo", "redo"}
      OBVIOUS
    <2> HIDE DEF target, action
    <2>5. CompensatingEdits(b, target, redo) \in Seq(TypedEdit)
      BY <2>1, <2>2, CompensatingEditsType
    <2> QED
      BY <2>1, <2>3, <2>4, <2>5 DEF ObjectStep
  <1>4. ASSUME NEW b \in Branch, NEW expected
        PROVE  /\ \A bytes \in Bytes :
                     ReplaceWorkingSnapshot(b, expected, bytes) => SnapshotStep(b)
               /\ UndoLastChange(b, expected) => SnapshotStep(b)
               /\ RedoLastChange(b, expected) => SnapshotStep(b)
    BY <1>4 DEF ReplaceWorkingSnapshot, UndoLastChange, RedoLastChange, SnapshotStep
  <1> QED
    BY <1>1, <1>2, <1>3, <1>4 DEF Next

\* What an object step changes, beside the rows and the journal of its branch.
LEMMA ObjectStepFrame ==
    ASSUME ReplayInvariant, NEW b \in Branch, ObjectStep(b)
    PROVE  /\ head[b] \in Revision
           /\ state[head[b]] = "working"
           /\ \A s \in Revision : s # head[b] =>
                 /\ objectMode'[s] = objectMode[s]
                 /\ journal'[s] = journal[s]
                 /\ groups'[s] = groups[s]
           /\ \A c \in Branch : c # b => rows'[c] = rows[c]
           /\ UNCHANGED <<head, state, branchOf, parents, root, snapshot,
                          operations>>
  <1>1. PICK edits \in Seq(TypedEdit), action \in {"edit", "undo", "redo"},
             target \in Nat : HasWorkingHead(b) /\ ApplyEdits(b, edits, action, target)
    BY DEF ObjectStep
  <1>2. EditEffect(b, edits, action, target)
    BY <1>1, ApplyEditsEffect DEF ReplayInvariant
  <1> QED
    BY <1>2 DEF EditEffect, ReplayInvariant, Bookkeeping, TypeOK

LEMMA SnapshotStepFrame ==
    ASSUME ReplayInvariant, NEW b \in Branch, SnapshotStep(b)
    PROVE  /\ head[b] \in Revision
           /\ state[head[b]] = "working"
           /\ \A s \in Revision : s # head[b] =>
                 /\ snapshot'[s] = snapshot[s]
                 /\ operations'[s] = operations[s]
           /\ UNCHANGED <<head, rows, state, branchOf, objectMode, parents,
                          root, journal, groups>>
  <1>1. PICK new, action, target :
           ApplySnapshotOperation(head[b], new, action, target)
    BY DEF SnapshotStep
  <1>2. HasWorkingHead(b)
    BY DEF SnapshotStep, OpaqueHead
  <1> QED
    BY <1>1, <1>2 DEF HasWorkingHead, ApplySnapshotOperation, ReplayInvariant,
                      Bookkeeping, TypeOK

-----------------------------------------------------------------------------

\* A finalized revision keeps everything a reader or an auditor can ask for.
Kept(r) ==
    /\ state'[r] = "finalized"
    /\ root'[r] = root[r]
    /\ snapshot'[r] = snapshot[r]
    /\ parents'[r] = parents[r]
    /\ objectMode'[r] = objectMode[r]
    /\ journal'[r] = journal[r]
    /\ groups'[r] = groups[r]
    /\ operations'[r] = operations[r]

LEMMA FinalizedIsKept ==
    ASSUME ReplayInvariant, [Next]_tables, NEW s \in Revision,
           state[s] = "finalized"
    PROVE  Kept(s)
  <1>1. CASE UNCHANGED tables
    BY <1>1 DEF tables, Kept
  <1>2. ASSUME NEW b \in Branch, NEW r \in Revision, CreateProject(b, r)
        PROVE  Kept(s)
    BY <1>2 DEF CreateProject, Kept, ReplayInvariant, Bookkeeping, TypeOK
  <1>3. ASSUME NEW b \in Branch, NEW r \in Revision, NEW base \in Revision,
               CreateBranch(b, r, base)
        PROVE  Kept(s)
    BY <1>3 DEF CreateBranch, Kept, ReplayInvariant, Bookkeeping, TypeOK
  <1>4. ASSUME NEW b \in Branch, NEW new \in Revision, NEW expected,
               Finalize(b, new, expected)
        PROVE  Kept(s)
    <2>1. s # head[b] /\ s # new
      BY <1>4 DEF Finalize, HasWorkingHead, SealAndAdvance
    <2> QED
      BY <1>4, <2>1 DEF Finalize, SealAndAdvance, Kept, ReplayInvariant,
                        Bookkeeping, TypeOK
  <1>5. ASSUME NEW b \in Branch, ObjectStep(b)
        PROVE  Kept(s)
    BY <1>5, ObjectStepFrame DEF Kept
  <1>6. ASSUME NEW b \in Branch, SnapshotStep(b)
        PROVE  Kept(s)
    BY <1>6, SnapshotStepFrame DEF Kept
  <1> QED
    BY <1>1, <1>2, <1>3, <1>4, <1>5, <1>6, StepKinds DEF ReplayInvariant

\* No operation, on whatever branch, changes what a finalized revision reads,
\* its ancestry, its mode or its histories: what the triggers finalized_* and
\* the roots that no statement updates are there for.
THEOREM HistoryStaysImmutable == Spec => HistoryIsImmutable
  <1>1. ReplayInvariant /\ [Next]_tables =>
           [\A r \in Revision : state[r] = "finalized" =>
              /\ state'[r] = "finalized"
              /\ ObjectsOf(r)' = ObjectsOf(r)
              /\ snapshot'[r] = snapshot[r]
              /\ parents'[r] = parents[r]
              /\ objectMode'[r] = objectMode[r]
              /\ journal'[r] = journal[r]
              /\ groups'[r] = groups[r]
              /\ operations'[r] = operations[r]]_tables
    BY FinalizedIsKept DEF Kept, ObjectsOf
  <1> QED
    BY <1>1, ReplayInvariantIsInvariant, PTL DEF Spec, HistoryIsImmutable

-----------------------------------------------------------------------------

\* How one step may change a row of a branch in use.
RowAdvances(old, new) ==
    old # new =>
        /\ new.version = IF old = Absent THEN 1 ELSE old.version + 1
        /\ old # Absent => new.kind = old.kind

LEMMA ObjectStepAdvances ==
    ASSUME ReplayInvariant, NEW b \in Branch, ObjectStep(b), NEW o \in Object
    PROVE  RowAdvances(rows[b][o], rows'[b][o])
  <1>1. PICK edits \in Seq(TypedEdit), action \in {"edit", "undo", "redo"},
             target \in Nat : HasWorkingHead(b) /\ ApplyEdits(b, edits, action, target)
    BY DEF ObjectStep
  <1> DEFINE model  == rows[b]
             events == EditEvents(model, edits)
  <1>2. /\ rows' = [rows EXCEPT ![b] = AfterEvents(model, events)]
        /\ events \in Seq(Event)
    BY <1>1, ApplyEditsEffect DEF ReplayInvariant, EditEffect
  <1>3. rows \in [Branch -> Model] /\ model \in Model
    BY DEF ReplayInvariant, Bookkeeping, TypeOK
  <1>4. /\ Len(events) = Len(edits)
        /\ \A i \in 1..Len(edits) : events[i] = EventOf(model, edits[i])
    BY <1>3, EditEventsType
  <1>5. rows'[b][o] = AfterEvents(model, events)[o]
    BY <1>2, <1>3
  <1> HIDE DEF events, model
  <1>6. CASE IsTouched(events, o)
    <2> DEFINE i == CHOOSE i \in DOMAIN events : events[i].object = o
    <2>1. i \in DOMAIN events /\ events[i].object = o
      BY <1>6 DEF IsTouched
    <2>2. AfterEvents(model, events)[o] = events[i].after
      BY <1>6 DEF AfterEvents
    <2> HIDE DEF i
    <2>3. i \in 1..Len(edits)
      BY <1>2, <1>4, <2>1
    <2>4. events[i] = EventOf(model, edits[i])
      BY <1>4, <2>3
    <2>5. rows'[b][o] = Written(model[o], edits[i])
      BY <1>5, <2>1, <2>2, <2>4 DEF EventOf
    <2> QED
      BY <2>5 DEF RowAdvances, Written, model
  <1>7. CASE ~IsTouched(events, o)
    BY <1>5, <1>7 DEF AfterEvents, RowAdvances, model
  <1> QED
    BY <1>6, <1>7

LEMMA RowsAdvance ==
    ASSUME ReplayInvariant, [Next]_tables, NEW b \in Branch, NEW o \in Object,
           head[b] # NoRevision
    PROVE  RowAdvances(rows[b][o], rows'[b][o])
  <1> SUFFICES \/ rows'[b] = rows[b]
               \/ RowAdvances(rows[b][o], rows'[b][o])
    BY DEF RowAdvances
  <1>1. CASE UNCHANGED tables
    BY <1>1 DEF tables
  <1>2. ASSUME NEW c \in Branch, NEW r \in Revision, CreateProject(c, r)
        PROVE  rows'[b] = rows[b]
    BY <1>2 DEF CreateProject
  <1>3. ASSUME NEW c \in Branch, NEW r \in Revision, NEW base \in Revision,
               CreateBranch(c, r, base)
        PROVE  rows'[b] = rows[b]
    BY <1>3 DEF CreateBranch, ReplayInvariant, Bookkeeping, TypeOK
  <1>4. ASSUME NEW c \in Branch, NEW new \in Revision, NEW expected,
               Finalize(c, new, expected)
        PROVE  rows'[b] = rows[b]
    BY <1>4 DEF Finalize
  <1>5. ASSUME NEW c \in Branch, ObjectStep(c)
        PROVE  \/ rows'[b] = rows[b]
               \/ RowAdvances(rows[b][o], rows'[b][o])
    BY <1>5, ObjectStepFrame, ObjectStepAdvances
  <1>6. ASSUME NEW c \in Branch, SnapshotStep(c)
        PROVE  rows'[b] = rows[b]
    BY <1>6, SnapshotStepFrame
  <1> QED
    BY <1>1, <1>2, <1>3, <1>4, <1>5, <1>6, StepKinds DEF ReplayInvariant

\* A row's version grows by one with every change of it, through undo, redo
\* and finalization too, so the expected version that modifyObjectInTransaction
\* compares can never match a row that has changed since it was read.
THEOREM VersionsOnlyGrow == Spec => VersionsAreNeverReused
  <1>1. ReplayInvariant /\ [Next]_tables =>
           [\A b \in Branch, o \in Object :
              LET old == rows[b][o]
                  new == rows'[b][o]
              IN  head[b] # NoRevision /\ old # new =>
                    /\ new.version = IF old = Absent THEN 1 ELSE old.version + 1
                    /\ old # Absent => new.kind = old.kind]_tables
    BY RowsAdvance DEF RowAdvances
  <1> QED
    BY <1>1, ReplayInvariantIsInvariant, PTL DEF Spec, VersionsAreNeverReused

-----------------------------------------------------------------------------

\* A finalization seals exactly the rows of the branch: the new working
\* revision has an empty journal, so they replay from the sealed snapshot.
LEMMA SealEqualsRows ==
    ASSUME ReplayInvariant, ReplayInvariant', NEW b \in Branch,
           NEW new \in Revision, NEW expected, Finalize(b, new, expected),
           objectMode[head[b]] = 1
    PROVE  root'[head[b]] = rows[b]
  <1> DEFINE r == head[b]
  <1>1. /\ r \in Revision /\ state[r] = "working" /\ state[new] = "unused"
        /\ new # r /\ new # NoRevision /\ journal[new] = <<>>
    BY NullsAreNotValues
       DEF Finalize, HasWorkingHead, SealAndAdvance, ReplayInvariant,
           Bookkeeping, TypeOK, UnusedRevisionsAreBlank
  <1>2. /\ head'[b] = new /\ parents'[new] = <<r>>
        /\ objectMode'[new] = 1 /\ objectMode'[r] = 1
        /\ state'[r] = "finalized"
        /\ rows' = rows /\ journal' = journal
    BY <1>1 DEF Finalize, SealAndAdvance, ReplayInvariant, Bookkeeping, TypeOK
  <1>3. root'[r] \in Model
    BY <1>1, <1>2 DEF ReplayInvariant, Lineage, SealedHaveRoots
  <1>4. JournalReplays(Baseline(head[b])', <<>>, rows[b])
    BY <1>1, <1>2 DEF ReplayInvariant, WorkingRowsReplay
  <1>5. Baseline(head[b])' = root'[r]
    <2>1. <<r>> # <<>> /\ <<r>>[1] = r
      OBVIOUS
    <2> QED
      BY <1>2, <2>1, Zenon DEF Baseline
  <1>6. \A o \in Object : rows[b][o] = root'[r][o]
    BY <1>4, <1>5 DEF JournalReplays, Yields
  <1>7. rows[b] \in Model
    BY DEF ReplayInvariant, Bookkeeping, TypeOK
  <1> QED
    BY <1>3, <1>6, <1>7 DEF Model

\* What FinalizePreservesModel says of the revision r in one step.
SealPreserves(r) ==
    state[r] = "working" /\ state'[r] = "finalized" =>
        LET next == head'[branchOf[r]] IN
        /\ objectMode[r] = 1 => ObjectsOf(r)' = ObjectsOf(r)
        /\ objectMode[r] = 1 => rows'[branchOf'[next]] = ObjectsOf(r)
        /\ objectMode[r] = 0 => /\ snapshot'[r] = snapshot[r]
                                /\ snapshot'[next] = snapshot[r]

LEMMA FinalizePreserves ==
    ASSUME ReplayInvariant, ReplayInvariant', [Next]_tables, NEW s \in Revision
    PROVE  SealPreserves(s)
  <1> SUFFICES ASSUME state[s] = "working", state'[s] = "finalized"
               PROVE  SealPreserves(s)
    BY DEF SealPreserves
  <1>1. PICK b \in Branch, new \in Revision, expected \in Generations :
           Finalize(b, new, expected)
    <2>1. ~ UNCHANGED tables
      BY DEF tables
    <2>2. ASSUME NEW b \in Branch, NEW r \in Revision, CreateProject(b, r)
          PROVE  FALSE
      BY <2>2 DEF CreateProject, ReplayInvariant, Bookkeeping, TypeOK
    <2>3. ASSUME NEW b \in Branch, NEW r \in Revision, NEW base \in Revision,
                 CreateBranch(b, r, base)
          PROVE  FALSE
      BY <2>3 DEF CreateBranch, ReplayInvariant, Bookkeeping, TypeOK
    <2>4. ASSUME NEW b \in Branch, ObjectStep(b) PROVE FALSE
      BY <2>4, ObjectStepFrame
    <2>5. ASSUME NEW b \in Branch, SnapshotStep(b) PROVE FALSE
      BY <2>5, SnapshotStepFrame
    <2> QED
      BY <2>1, <2>2, <2>3, <2>4, <2>5, StepKinds DEF ReplayInvariant
  <1>2. /\ head[b] \in Revision /\ head[b] # new /\ state[head[b]] = "working"
        /\ head[b] # NoRevision
    BY <1>1 DEF Finalize, HasWorkingHead, SealAndAdvance, ReplayInvariant,
                Bookkeeping, TypeOK
  <1>3. s = head[b]
    BY <1>1, <1>2 DEF Finalize, SealAndAdvance, ReplayInvariant, Bookkeeping, TypeOK
  <1>4. branchOf[s] = b /\ ObjectsOf(s) = rows[b]
    BY <1>2, <1>3 DEF ObjectsOf, ReplayInvariant, Lineage, HeadsAreWorking
  <1>5. /\ head'[b] = new /\ branchOf'[new] = b
        /\ rows' = rows
        /\ objectMode[s] = 0 => /\ snapshot'[s] = snapshot[s]
                                /\ snapshot'[new] = snapshot[s]
    BY <1>1, <1>2, <1>3 DEF Finalize, SealAndAdvance, ReplayInvariant,
                            Bookkeeping, TypeOK
  <1>6. objectMode[s] = 1 => ObjectsOf(s)' = rows[b]
    <2>1. ObjectsOf(s)' = root'[s]
      BY DEF ObjectsOf
    <2> QED
      BY <1>1, <1>3, <2>1, SealEqualsRows
  <1> QED
    BY <1>4, <1>5, <1>6 DEF SealPreserves

\* Finalizing changes nobody's view: the sealed revision and the working one
\* that replaces it read what the working revision read just before, although
\* buildRevisionRoot looked only at the rows its journal names.
THEOREM FinalizeKeepsTheModel == Spec => FinalizePreservesModel
  <1>1. ReplayInvariant /\ ReplayInvariant' /\ [Next]_tables =>
           [\A r \in Revision :
              state[r] = "working" /\ state'[r] = "finalized" =>
                  LET next == head'[branchOf[r]] IN
                  /\ objectMode[r] = 1 => ObjectsOf(r)' = ObjectsOf(r)
                  /\ objectMode[r] = 1 => rows'[branchOf'[next]] = ObjectsOf(r)
                  /\ objectMode[r] = 0 => /\ snapshot'[r] = snapshot[r]
                                          /\ snapshot'[next] = snapshot[r]]_tables
    BY FinalizePreserves DEF SealPreserves
  <1> QED
    BY <1>1, ReplayInvariantIsInvariant, PTL DEF Spec, FinalizePreservesModel

\* What OneWorkingHeadPerBranch needs besides itself: a revision belongs to a
\* branch from its creation on, and a branch without a head has none.
RevisionsHaveBranches ==
    \A r \in Revision :
        /\ state[r] = "unused" => branchOf[r] = NoBranch
        /\ state[r] # "unused" => branchOf[r] \in Branch
        /\ branchOf[r] \in Branch => head[branchOf[r]] # NoRevision

Numbering ==
    /\ RevisionsHaveBranches
    /\ OneWorkingHeadPerBranch

-----------------------------------------------------------------------------
(* Numbers.                                                                *)

LEMMA InitNumbering == Init => Numbering
  BY NullsAreNotValues
     DEF Init, Numbering, RevisionsHaveBranches, OneWorkingHeadPerBranch

\* A branch that gets its first revision.
LEMMA FirstRevisionNumbering ==
    ASSUME Bookkeeping, Numbering, NEW b \in Branch, NEW r \in Revision,
           head[b] = NoRevision, state[r] = "unused",
           state' = [state EXCEPT ![r] = "working"],
           branchOf' = [branchOf EXCEPT ![r] = b],
           number' = [number EXCEPT ![r] = 1],
           head' = [head EXCEPT ![b] = r]
    PROVE  Numbering'
  <1>1. /\ branchOf[r] = NoBranch /\ r # NoRevision
        /\ \A s \in Revision : branchOf[s] # b
    BY NullsAreNotValues DEF Numbering, RevisionsHaveBranches
  <1>2. /\ state'[r] = "working" /\ branchOf'[r] = b /\ number'[r] = 1 /\ head'[b] = r
        /\ \A s \in Revision \ {r} : /\ state'[s] = state[s]
                                     /\ branchOf'[s] = branchOf[s]
                                     /\ number'[s] = number[s]
        /\ \A c \in Branch \ {b} : head'[c] = head[c]
    BY DEF Bookkeeping, TypeOK
  <1>3. RevisionsHaveBranches'
    BY <1>1, <1>2 DEF Numbering, RevisionsHaveBranches
  <1>4. ASSUME NEW s \in Revision, state'[s] = "working"
        PROVE  head'[branchOf'[s]] = s
    BY <1>1, <1>2, <1>4 DEF Numbering, RevisionsHaveBranches, OneWorkingHeadPerBranch
  <1>5. ASSUME NEW c \in Branch, head'[c] # NoRevision
        PROVE  LET mine == {s \in Revision : branchOf'[s] = c} IN
               /\ branchOf'[head'[c]] = c
               /\ state'[head'[c]] = "working"
               /\ \A n \in 1..number'[head'[c]] : \E s \in mine : number'[s] = n
               /\ \A s, t \in mine : number'[s] = number'[t] => s = t
               /\ \A s \in mine : number'[s] <= number'[head'[c]]
    <2>1. CASE c = b
      <3>1. {s \in Revision : branchOf'[s] = c} = {r}
        BY <1>1, <1>2, <2>1
      <3> QED BY <1>2, <2>1, <3>1
    <2>2. CASE c # b
      <3> DEFINE mine == {s \in Revision : branchOf[s] = c}
      <3>1. {s \in Revision : branchOf'[s] = c} = mine /\ r \notin mine
        BY <1>1, <1>2, <2>2, NullsAreNotValues
      <3>2. head'[c] = head[c] /\ head[c] \in Revision /\ head[c] # NoRevision
        BY <1>2, <1>5, <2>2 DEF Bookkeeping, TypeOK
      <3>3. /\ branchOf[head[c]] = c
            /\ state[head[c]] = "working"
            /\ \A n \in 1..number[head[c]] : \E s \in mine : number[s] = n
            /\ \A s, t \in mine : number[s] = number[t] => s = t
            /\ \A s \in mine : number[s] <= number[head[c]]
        BY <3>2 DEF Numbering, OneWorkingHeadPerBranch
      <3>4. head[c] \in mine /\ mine \subseteq Revision \ {r}
        BY <3>1, <3>2, <3>3
      <3> HIDE DEF mine
      <3> QED BY <1>2, <3>1, <3>2, <3>3, <3>4
    <2> QED BY <2>1, <2>2
  <1>6. OneWorkingHeadPerBranch'
    BY <1>4, <1>5 DEF OneWorkingHeadPerBranch
  <1> QED
    BY <1>3, <1>6 DEF Numbering

\* A head that is sealed and followed by the next number.
\* A head that is sealed and replaced.
LEMMA AdvanceNumbering ==
    ASSUME Bookkeeping, Numbering, NEW b \in Branch, NEW r \in Revision,
           NEW new \in Revision, head[b] = r, state[new] = "unused",
           state'[r] = "finalized", state'[new] = "working",
           branchOf'[new] = b, number'[new] = NextNumber(r), head'[b] = new,
           \A s \in Revision \ {new} : /\ branchOf'[s] = branchOf[s]
                                      /\ number'[s] = number[s],
           \A s \in Revision \ {r, new} : state'[s] = state[s],
           \A c \in Branch \ {b} : head'[c] = head[c]
    PROVE  Numbering'
  <1>1. /\ r \in Revision /\ r # NoRevision /\ state[r] = "working"
        /\ state[new] = "unused" /\ new # r
        /\ branchOf[new] = NoBranch /\ branchOf[r] = b /\ number[r] \in Nat
        /\ new # NoRevision
    BY NullsAreNotValues
       DEF Bookkeeping, TypeOK, Numbering, RevisionsHaveBranches, OneWorkingHeadPerBranch
  <1>2. /\ state'[r] = "finalized" /\ state'[new] = "working"
        /\ branchOf'[new] = b /\ number'[new] = number[r] + 1 /\ head'[b] = new
        /\ \A s \in Revision \ {new} : /\ branchOf'[s] = branchOf[s]
                                       /\ number'[s] = number[s]
        /\ \A s \in Revision \ {r, new} : state'[s] = state[s]
        /\ \A c \in Branch \ {b} : head'[c] = head[c]
    BY <1>1 DEF NextNumber
  <1>3. RevisionsHaveBranches'
    BY <1>1, <1>2 DEF Numbering, RevisionsHaveBranches
  <1>4. ASSUME NEW s \in Revision, state'[s] = "working"
        PROVE  head'[branchOf'[s]] = s
    <2>1. CASE s = new
      BY <1>2, <2>1
    <2>2. CASE s # new
      <3>1. s # r /\ state[s] = "working" /\ branchOf'[s] = branchOf[s]
        BY <1>2, <1>4, <2>2
      <3>2. branchOf[s] \in Branch /\ head[branchOf[s]] = s
        BY <3>1 DEF Numbering, RevisionsHaveBranches, OneWorkingHeadPerBranch
      <3>3. branchOf[s] # b
        BY <3>1, <3>2
      <3> QED BY <1>2, <3>1, <3>2, <3>3
    <2> QED BY <2>1, <2>2
  <1>5. ASSUME NEW c \in Branch, head'[c] # NoRevision
        PROVE  LET mine == {s \in Revision : branchOf'[s] = c} IN
               /\ branchOf'[head'[c]] = c
               /\ state'[head'[c]] = "working"
               /\ \A n \in 1..number'[head'[c]] : \E s \in mine : number'[s] = n
               /\ \A s, t \in mine : number'[s] = number'[t] => s = t
               /\ \A s \in mine : number'[s] <= number'[head'[c]]
    <2> DEFINE mine == {s \in Revision : branchOf[s] = c}
               mine1 == {s \in Revision : branchOf'[s] = c}
    <2>1. CASE c = b
      <3>1. mine1 = mine \cup {new} /\ new \notin mine /\ r \in mine
        BY <1>1, <1>2, <2>1, NullsAreNotValues
      <3>2. /\ \A n \in 1..number[r] : \E s \in mine : number[s] = n
            /\ \A s, t \in mine : number[s] = number[t] => s = t
            /\ \A s \in mine : number[s] <= number[r]
        BY <1>1, <2>1 DEF Numbering, OneWorkingHeadPerBranch
      <3>3. \A s \in mine : number'[s] = number[s] /\ number[s] \in Nat
        BY <1>2, <3>1 DEF Bookkeeping, TypeOK
      <3> HIDE DEF mine, mine1
      <3>4. \A n \in 1..(number[r] + 1) : \E s \in mine1 : number'[s] = n
        <4> SUFFICES ASSUME NEW n \in 1..(number[r] + 1)
                     PROVE  \E s \in mine1 : number'[s] = n
          OBVIOUS
        <4>1. n \in 1..number[r] \/ n = number[r] + 1
          BY <1>1
        <4> QED BY <1>2, <3>1, <3>2, <3>3, <4>1
      <3>5. \A s, t \in mine1 : number'[s] = number'[t] => s = t
        BY <1>1, <1>2, <3>1, <3>2, <3>3
      <3>6. \A s \in mine1 : number'[s] <= number[r] + 1
        BY <1>1, <1>2, <3>1, <3>2, <3>3
      <3>7. head'[c] = new
        BY <1>2, <2>1
      <3> QED BY <1>2, <2>1, <3>4, <3>5, <3>6, <3>7 DEF mine1
    <2>2. CASE c # b
      <3>1. mine1 = mine /\ new \notin mine
        BY <1>1, <1>2, <2>2, NullsAreNotValues
      <3>2. head'[c] = head[c] /\ head[c] \in Revision /\ head[c] # NoRevision
        BY <1>2, <1>5, <2>2 DEF Bookkeeping, TypeOK
      <3>3. /\ branchOf[head[c]] = c
            /\ state[head[c]] = "working"
            /\ \A n \in 1..number[head[c]] : \E s \in mine : number[s] = n
            /\ \A s, t \in mine : number[s] = number[t] => s = t
            /\ \A s \in mine : number[s] <= number[head[c]]
        BY <3>2 DEF Numbering, OneWorkingHeadPerBranch
      <3>4. head[c] \in mine /\ mine \subseteq Revision \ {new} /\ head[c] # r
        BY <1>1, <2>2, <3>1, <3>2, <3>3
      <3> HIDE DEF mine
      <3>5. /\ branchOf'[head'[c]] = c /\ state'[head'[c]] = "working"
            /\ number'[head'[c]] = number[head[c]]
            /\ \A s \in mine : number'[s] = number[s]
        BY <1>1, <1>2, <3>2, <3>3, <3>4
      <3> QED BY <3>1, <3>3, <3>5
    <2> QED BY <2>1, <2>2
  <1>6. OneWorkingHeadPerBranch'
    BY <1>4, <1>5 DEF OneWorkingHeadPerBranch
  <1> QED
    BY <1>3, <1>6 DEF Numbering

LEMMA FinalizeNumbering ==
    ASSUME Bookkeeping, Numbering, NEW b \in Branch, NEW new \in Revision,
           NEW expected, Finalize(b, new, expected)
    PROVE  Numbering'
  <1>1. PICK r \in Revision : r = head[b]
    BY DEF Finalize, HasWorkingHead, Bookkeeping, TypeOK
  <1>2. /\ state[new] = "unused" /\ state'[r] = "finalized" /\ state'[new] = "working"
        /\ branchOf'[new] = b /\ number'[new] = NextNumber(r) /\ head'[b] = new
        /\ \A s \in Revision \ {new} : /\ branchOf'[s] = branchOf[s]
                                       /\ number'[s] = number[s]
        /\ \A s \in Revision \ {r, new} : state'[s] = state[s]
        /\ \A c \in Branch \ {b} : head'[c] = head[c]
    BY <1>1 DEF Finalize, HasWorkingHead, SealAndAdvance, Bookkeeping, TypeOK
  <1> QED BY <1>1, <1>2, AdvanceNumbering

LEMMA NumberingStep ==
    ASSUME ReplayInvariant, Numbering, [Next]_tables
    PROVE  Numbering'
  <1>1. ASSUME UNCHANGED <<head, state, branchOf, number>>
        PROVE  Numbering'
    BY <1>1 DEF Numbering, RevisionsHaveBranches, OneWorkingHeadPerBranch
  <1>2. ASSUME NEW b \in Branch, NEW r \in Revision, CreateProject(b, r)
        PROVE  Numbering'
    BY <1>2, FirstRevisionNumbering DEF CreateProject, ReplayInvariant
  <1>3. ASSUME NEW b \in Branch, NEW r \in Revision, NEW base \in Revision,
               CreateBranch(b, r, base)
        PROVE  Numbering'
    BY <1>3, FirstRevisionNumbering DEF CreateBranch, ReplayInvariant
  <1>4. ASSUME NEW b \in Branch, NEW new \in Revision, NEW expected,
               Finalize(b, new, expected)
        PROVE  Numbering'
    BY <1>4, FinalizeNumbering DEF ReplayInvariant
  <1>5. ASSUME NEW b \in Branch, ObjectStep(b)
        PROVE  Numbering'
    BY <1>1, <1>5 DEF ObjectStep, ApplyEdits
  <1>6. ASSUME NEW b \in Branch, SnapshotStep(b)
        PROVE  Numbering'
    BY <1>1, <1>6 DEF SnapshotStep, ApplySnapshotOperation
  <1>7. CASE UNCHANGED tables
    BY <1>1, <1>7 DEF tables
  <1> QED
    BY <1>2, <1>3, <1>4, <1>5, <1>6, <1>7, StepKinds DEF ReplayInvariant

-----------------------------------------------------------------------------
(* Groups.                                                                 *)

\* The part of GroupsPartitionJournal about one journal and its groups.
Partitions(group, events) ==
    /\ \A g \in DOMAIN group :
          /\ group[g].first = IF g = 1 THEN 1 ELSE group[g - 1].last + 1
          /\ group[g].first <= group[g].last
    /\ events # <<>> => group # <<>> /\ Top(group).last = Len(events)

LEMMA PartitionsMakeGroups ==
    ASSUME Bookkeeping, \A r \in Revision : Partitions(groups[r], journal[r])
    PROVE  GroupsPartitionJournal
  BY DEF Bookkeeping, GenerationCountsJournal, Partitions, GroupsPartitionJournal

\* One more group over the events that one transaction appended.
LEMMA PartitionsExtend ==
    ASSUME NEW old \in Seq(Group), NEW events \in Seq(Event), Partitions(old, events),
           \A g \in DOMAIN old : 1 <= old[g].first /\ old[g].first <= old[g].last
                                  /\ old[g].last <= Len(events),
           NEW more \in Seq(Event), NEW n \in Nat, n = Len(more), n > 0,
           NEW group \in Group,
           group.first = Len(events) + 1, group.last = Len(events) + n
    PROVE  Partitions(Append(old, group), events \o more)
  <1> DEFINE k == Len(old)
             new == Append(old, group)
             all == events \o more
             m == Len(events)
  <1>1. /\ k \in Nat /\ m \in Nat /\ DOMAIN old = 1..k /\ DOMAIN new = 1..(k + 1)
        /\ new[k + 1] = group /\ \A g \in 1..k : new[g] = old[g]
        /\ Len(new) = k + 1 /\ new # <<>>
    <2>1. k \in Nat /\ m \in Nat /\ DOMAIN old = 1..k
      OBVIOUS
    <2>2. new \in Seq(Group) /\ Len(new) = k + 1
      OBVIOUS
    <2>3. new[k + 1] = group
      OBVIOUS
    <2>4. \A g \in 1..k : new[g] = old[g]
      OBVIOUS
    <2> HIDE DEF k, new
    <2>5. DOMAIN new = 1..(k + 1) /\ new # <<>>
      BY <2>1, <2>2
    <2> QED BY <2>1, <2>2, <2>3, <2>4, <2>5
  <1>2. Len(all) = m + n /\ all # <<>>
    OBVIOUS
  <1>3. k > 0 => old[k].last = m
    <2> SUFFICES ASSUME k > 0 PROVE old[k].last = m
      OBVIOUS
    <2>1. k \in DOMAIN old
      BY <1>1
    <2>2. old[k] \in Group
      BY <2>1
    <2>3. m >= 1
      <3>1. old[k].first \in Nat /\ old[k].last \in Nat
        BY <2>2 DEF Group
      <3>2. 1 <= old[k].first /\ old[k].first <= old[k].last /\ old[k].last <= m
        BY <2>1
      <3> HIDE DEF k, m
      <3> QED BY <1>1, <3>1, <3>2
    <2>4. events # <<>>
      BY <2>3
    <2> QED BY <2>4 DEF Partitions, Top
  <1>4. k = 0 => m = 0
    <2>1. k = 0 => old = <<>>
      OBVIOUS
    <2> QED BY <2>1 DEF Partitions
  <1>5. /\ group.first = m + 1 /\ group.last = m + n
        /\ \A g \in 1..k : /\ old[g].first = IF g = 1 THEN 1 ELSE old[g - 1].last + 1
                           /\ old[g].first <= old[g].last
    BY <1>1 DEF Partitions
  <1> HIDE DEF k, new, all, m
  <1>6. ASSUME NEW g \in 1..(k + 1)
        PROVE  /\ new[g].first = IF g = 1 THEN 1 ELSE new[g - 1].last + 1
               /\ new[g].first <= new[g].last
    <2>1. CASE g = k + 1
      <3>1. g # 1 => k > 0 /\ g - 1 = k /\ k \in 1..k
        BY <1>1, <2>1
      <3>2. g = 1 => k = 0
        BY <1>1, <2>1
      <3> QED BY <1>1, <1>3, <1>4, <1>5, <2>1, <3>1, <3>2
    <2>2. CASE g # k + 1
      <3>1. g \in 1..k /\ (g # 1 => g - 1 \in 1..k)
        BY <1>1, <2>2
      <3> QED BY <1>1, <1>5, <3>1
    <2> QED BY <2>1, <2>2
  <1>7. Top(new).last = Len(all)
    BY <1>1, <1>2, <1>5 DEF Top
  <1> QED
    BY <1>1, <1>6, <1>7 DEF Partitions, new, all

LEMMA PartitionsStep ==
    ASSUME ReplayInvariant, \A r \in Revision : Partitions(groups[r], journal[r]),
           [Next]_tables
    PROVE  \A r \in Revision : Partitions(groups'[r], journal'[r])
  <1>1. CASE UNCHANGED <<groups, journal>>
    BY <1>1
  <1>2. ASSUME NEW b \in Branch, ObjectStep(b), NEW s \in Revision
        PROVE  Partitions(groups'[s], journal'[s])
    <2> DEFINE r == head[b]
    <2>1. PICK edits \in Seq(TypedEdit), action \in {"edit", "undo", "redo"},
               target \in Nat : HasWorkingHead(b) /\ ApplyEdits(b, edits, action, target)
      BY <1>2 DEF ObjectStep
    <2> DEFINE events == EditEvents(rows[b], edits)
               n == Len(edits)
               g0 == generation[r]
               group == [action |-> action, target |-> target,
                         first |-> g0 + 1, last |-> g0 + n]
    <2>2. EditEffect(b, edits, action, target)
      BY <2>1, ApplyEditsEffect DEF ReplayInvariant
    <2>3. /\ r \in Revision /\ n > 0 /\ n \in Nat /\ events \in Seq(Event)
          /\ g0 = Len(journal[r])
          /\ journal' = [journal EXCEPT ![r] = @ \o events]
          /\ groups' = [groups EXCEPT ![r] = Append(@, group)]
      BY <2>2 DEF EditEffect
    <2>4. Len(events) = n
      BY EditEventsType DEF ReplayInvariant, Bookkeeping, TypeOK
    <2>5. /\ journal[r] \in Seq(Event) /\ groups[r] \in Seq(Group) /\ g0 \in Nat
      BY <2>3 DEF ReplayInvariant, Bookkeeping, TypeOK
    <2>6. group \in Group /\ group.first = g0 + 1 /\ group.last = g0 + n
      BY <2>3, <2>5 DEF Group
    <2> HIDE DEF events, n, group
    <2>7. Partitions(Append(groups[r], group), journal[r] \o events)
      <3>1. \A g \in DOMAIN groups[r] : /\ 1 <= groups[r][g].first
                                        /\ groups[r][g].first <= groups[r][g].last
                                        /\ groups[r][g].last <= Len(journal[r])
        BY <2>3 DEF ReplayInvariant, Bookkeeping, GroupsInsideJournal
      <3> HIDE DEF r, g0
      <3> QED BY <2>3, <2>4, <2>5, <2>6, <3>1, PartitionsExtend
    <2>8. /\ groups'[s] = IF s = r THEN Append(groups[r], group) ELSE groups[s]
          /\ journal'[s] = IF s = r THEN journal[r] \o events ELSE journal[s]
      BY <2>3 DEF ReplayInvariant, Bookkeeping, TypeOK
    <2> HIDE DEF r
    <2> QED BY <2>7, <2>8
  <1>3. ASSUME NEW b \in Branch, NEW r \in Revision, CreateProject(b, r)
        PROVE  UNCHANGED <<groups, journal>>
    BY <1>3 DEF CreateProject
  <1>4. ASSUME NEW b \in Branch, NEW r \in Revision, NEW base \in Revision,
               CreateBranch(b, r, base)
        PROVE  UNCHANGED <<groups, journal>>
    BY <1>4 DEF CreateBranch
  <1>5. ASSUME NEW b \in Branch, NEW new \in Revision, NEW expected,
               Finalize(b, new, expected)
        PROVE  UNCHANGED <<groups, journal>>
    BY <1>5 DEF Finalize
  <1>6. ASSUME NEW b \in Branch, SnapshotStep(b)
        PROVE  UNCHANGED <<groups, journal>>
    BY <1>6 DEF SnapshotStep, ApplySnapshotOperation
  <1>7. CASE UNCHANGED tables
    BY <1>1, <1>7 DEF tables
  <1> QED
    BY <1>1, <1>2, <1>3, <1>4, <1>5, <1>6, <1>7, StepKinds DEF ReplayInvariant

\* The journals and rows of a mode are the only ones its revisions have.
LEMMA ModesAreApart ==
    ASSUME ReplayInvariant, Numbering
    PROVE  ModesNeverMix
  <1> SUFFICES ASSUME NEW r \in Revision
               PROVE  /\ objectMode[r] = 1 => operations[r] = <<>>
                      /\ objectMode[r] = 0 => journal[r] = <<>> /\ groups[r] = <<>>
                      /\ parents[r] # <<>> => objectMode[r] = objectMode[parents[r][1]]
                      /\ state[r] = "working" /\ objectMode[r] = 0 =>
                            rows[branchOf[r]] = EmptyModel
    BY DEF ModesNeverMix
  <1>1. objectMode[r] = 1 => operations[r] = <<>>
    BY DEF ReplayInvariant, Bookkeeping, ObjectModeHasNoOperations
  <1>2. ASSUME objectMode[r] = 0
        PROVE  journal[r] = <<>> /\ groups[r] = <<>>
    <2>1. journal[r] = <<>> /\ Len(journal[r]) = 0
      BY <1>2 DEF ReplayInvariant, Lineage, OpaqueStaysOpaque
    <2>2. groups[r] \in Seq(Group)
      BY DEF ReplayInvariant, Bookkeeping, TypeOK
    <2>3. ASSUME groups[r] # <<>> PROVE FALSE
      <3>1. 1 \in DOMAIN groups[r] /\ groups[r][1] \in Group
        BY <2>2, <2>3
      <3>2. groups[r][1].first \in Nat /\ groups[r][1].last \in Nat
        BY <3>1 DEF Group
      <3>3. /\ 1 <= groups[r][1].first /\ groups[r][1].first <= groups[r][1].last
            /\ groups[r][1].last <= 0
        BY <2>1, <3>1 DEF ReplayInvariant, Bookkeeping, GroupsInsideJournal
      <3> QED BY <3>2, <3>3
    <2> QED BY <2>1, <2>3
  <1>3. parents[r] # <<>> => objectMode[r] = objectMode[parents[r][1]]
    BY DEF ReplayInvariant, Lineage, ModesFollow
  <1>4. state[r] = "working" /\ objectMode[r] = 0 => rows[branchOf[r]] = EmptyModel
    BY DEF ReplayInvariant, Lineage, OpaqueRowsAreEmpty, Numbering,
           RevisionsHaveBranches, OneWorkingHeadPerBranch
  <1> QED BY <1>1, <1>2, <1>3, <1>4

-----------------------------------------------------------------------------
(* The theorems.                                                           *)

\* However branches are created and finalized, each branch in use has one working
\* revision, its head, and its revisions are numbered without gaps.
THEOREM OneHead == Spec => []OneWorkingHeadPerBranch
  <1>1. Numbering => OneWorkingHeadPerBranch
    BY DEF Numbering
  <1> QED
    BY <1>1, InitNumbering, NumberingStep, ReplayInvariantIsInvariant, PTL DEF Spec

\* Every event belongs to exactly one group and the generation of a revision
\* counts what its two journals record.
THEOREM GroupsPartition == Spec => []GroupsPartitionJournal
  <1> DEFINE Parts == \A r \in Revision : Partitions(groups[r], journal[r])
  <1>1. Init => Parts
    BY DEF Init, Partitions
  <1>2. ReplayInvariant /\ Parts /\ [Next]_tables => Parts'
    BY PartitionsStep
  <1>3. ReplayInvariant /\ Parts => GroupsPartitionJournal
    BY PartitionsMakeGroups DEF ReplayInvariant
  <1> HIDE DEF Parts
  <1> QED
    BY <1>1, <1>2, <1>3, ReplayInvariantIsInvariant, PTL DEF Spec

\* No revision ever holds both kinds of history, and its mode is inherited.
THEOREM ModesApart == Spec => []ModesNeverMix
  <1>1. ReplayInvariant /\ Numbering => ModesNeverMix
    BY ModesAreApart
  <1> QED
    BY <1>1, InitNumbering, NumberingStep, ReplayInvariantIsInvariant, PTL DEF Spec

\* The rows and the snapshot of a working head change only with its generation.
THEOREM GenerationsCount == Spec => GenerationCountsEdits
  <1> DEFINE Counted(b) ==
          /\ HasWorkingHead(b) /\ head'[b] = head[b]
          /\ rows'[b] # rows[b] \/ snapshot'[head[b]] # snapshot[head[b]]
          => generation'[head[b]] > generation[head[b]]
  <1>1. ASSUME ReplayInvariant, [Next]_tables, NEW b \in Branch
        PROVE  Counted(b)
    <2> SUFFICES ASSUME HasWorkingHead(b), head'[b] = head[b],
                        rows'[b] # rows[b] \/ snapshot'[head[b]] # snapshot[head[b]]
                 PROVE  generation'[head[b]] > generation[head[b]]
      OBVIOUS
    <2>1. head[b] \in Revision /\ head[b] # NoRevision /\ state[head[b]] = "working"
          /\ generation[head[b]] \in Nat
      BY <1>1 DEF HasWorkingHead, ReplayInvariant, Bookkeeping, TypeOK
    <2>2. ASSUME NEW c \in Branch, NEW r \in Revision, CreateProject(c, r)
          PROVE  FALSE
      BY <2>1, <2>2 DEF CreateProject
    <2>3. ASSUME NEW c \in Branch, NEW r \in Revision, NEW base \in Revision,
                 CreateBranch(c, r, base)
          PROVE  FALSE
      <3>1. c # b /\ r # head[b]
        BY <2>1, <2>3 DEF CreateBranch
      <3> QED BY <1>1, <2>1, <2>3, <3>1
              DEF CreateBranch, ReplayInvariant, Bookkeeping, TypeOK
    <2>4. ASSUME NEW c \in Branch, NEW new \in Revision, NEW expected,
                 Finalize(c, new, expected)
          PROVE  FALSE
      <3>1. c # b
        <4> SUFFICES ASSUME c = b PROVE FALSE
          OBVIOUS
        <4>1. head'[b] = new /\ state[new] = "unused"
          BY <1>1, <2>4 DEF Finalize, SealAndAdvance, ReplayInvariant, Bookkeeping, TypeOK
        <4> QED BY <2>1, <4>1
      <3>2. head[c] # head[b] /\ new # head[b]
        BY <1>1, <2>1, <2>4, <3>1, HeadsAreApart
           DEF Finalize, SealAndAdvance, ReplayInvariant, Lineage
      <3>3. rows' = rows
        BY <2>4 DEF Finalize
      <3>4. snapshot'[head[b]] = snapshot[head[b]]
        BY <1>1, <2>1, <2>4, <3>2
           DEF Finalize, SealAndAdvance, ReplayInvariant, Bookkeeping, TypeOK
      <3> QED BY <3>3, <3>4
    <2>5. ASSUME NEW c \in Branch, ObjectStep(c)
          PROVE  generation'[head[b]] > generation[head[b]]
      <3>1. PICK edits \in Seq(TypedEdit), action \in {"edit", "undo", "redo"},
                 target \in Nat : HasWorkingHead(c) /\ ApplyEdits(c, edits, action, target)
        BY <2>5 DEF ObjectStep
      <3>2. EditEffect(c, edits, action, target)
        BY <1>1, <3>1, ApplyEditsEffect DEF ReplayInvariant
      <3>3. c = b
        BY <1>1, <2>5, ObjectStepFrame
      <3> DEFINE n == Len(edits)
      <3>4. n \in Nat /\ n > 0
        BY <3>2 DEF EditEffect
      <3>5. generation' = [generation EXCEPT ![head[b]] = @ + n]
        BY <3>2, <3>3, Zenon DEF EditEffect
      <3> HIDE DEF n
      <3> QED BY <1>1, <2>1, <3>4, <3>5 DEF ReplayInvariant, Bookkeeping, TypeOK
    <2>6. ASSUME NEW c \in Branch, SnapshotStep(c)
          PROVE  generation'[head[b]] > generation[head[b]]
      <3>1. head[c] = head[b]
        BY <1>1, <2>1, <2>6, SnapshotStepFrame
      <3>2. generation' = [generation EXCEPT ![head[b]] = @ + 1]
        BY <2>6, <3>1 DEF SnapshotStep, ApplySnapshotOperation
      <3> QED BY <1>1, <2>1, <3>2 DEF ReplayInvariant, Bookkeeping, TypeOK
    <2>7. CASE UNCHANGED tables
      BY <2>7 DEF tables
    <2> QED
      BY <1>1, <2>2, <2>3, <2>4, <2>5, <2>6, <2>7, StepKinds DEF ReplayInvariant
  <1>2. ReplayInvariant /\ [Next]_tables => [\A b \in Branch : Counted(b)]_tables
    BY <1>1
  <1> QED
    BY <1>2, ReplayInvariantIsInvariant, PTL DEF Spec, GenerationCountsEdits
=============================================================================
