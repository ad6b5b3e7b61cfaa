---------------------------- MODULE RevisionStore ----------------------------
(***************************************************************************)
(* The versioned store of a project: the life cycle of branches and        *)
(* revisions with both ways of editing a working revision, and what the    *)
(* combination promises.                                                   *)
(***************************************************************************)
EXTENDS ObjectJournal, SnapshotHistory

Generations == 0..MaxGeneration

Next ==
    \/ \E b \in Branch, r \in Revision : CreateProject(b, r)
    \/ \E b \in Branch, r, base \in Revision : CreateBranch(b, r, base)
    \/ \E b \in Branch, new \in Revision, expected \in Generations :
          Finalize(b, new, expected)
    \/ \E b \in Branch, edit \in Edit : ModifyObject(b, edit)
    \/ \E b \in Branch, expected \in Generations, edits \in EditGroups :
          CommitObjectGroup(b, expected, edits)
    \/ \E b \in Branch, expected \in Generations, redo \in BOOLEAN :
          CompensateObjectGroup(b, expected, redo)
    \/ \E b \in Branch, expected \in Generations, bytes \in Bytes :
          ReplaceWorkingSnapshot(b, expected, bytes)
    \/ \E b \in Branch, expected \in Generations : UndoLastChange(b, expected)
    \/ \E b \in Branch, expected \in Generations : RedoLastChange(b, expected)

Spec == Init /\ [][Next]_tables

-----------------------------------------------------------------------------
(* Invariants                                                              *)

\* Each branch in use has exactly one working revision, which is its head, and
\* its revisions are numbered from 1 to the head's number without a gap
\* (branches.head_revision_uuid, UNIQUE(branch_uuid, number), the single
\* working slot that finalizeInWriteTransaction hands over).
OneWorkingHeadPerBranch ==
    /\ \A r \in Revision : state[r] = "working" => head[branchOf[r]] = r
    /\ \A b \in Branch : head[b] # NoRevision =>
          LET mine == {r \in Revision : branchOf[r] = b} IN
          /\ branchOf[head[b]] = b
          /\ state[head[b]] = "working"
          /\ \A n \in 1..number[head[b]] : \E r \in mine : number[r] = n
          /\ \A r, s \in mine : number[r] = number[s] => r = s
          /\ \A r \in mine : number[r] <= number[head[b]]

\* What verifyProjectJournal demands always holds: the journal of a finalized
\* object-mode revision, replayed on the root of its first parent, gives its
\* own root, although that root was sealed from the touched rows only.
SealedJournalsReplay ==
    \A r \in Revision :
        state[r] = "finalized" /\ objectMode[r] = 1 =>
            /\ parents[r] # <<>> => root[parents[r][1]] # NoRoot
            /\ JournalReplays(Baseline(r), journal[r], root[r])

\* The same for the working revision and the live rows of its branch, which
\* were never copied or cleared since the branch was materialized.
WorkingRowsReplay ==
    \A b \in Branch :
        head[b] # NoRevision /\ objectMode[head[b]] = 1 =>
            JournalReplays(Baseline(head[b]), journal[head[b]], rows[b])

\* The groups of a revision partition its journal, in order and without gaps,
\* and the head's generation counts the entries of its journal: every change of
\* a working revision is recorded exactly once.
GroupsPartitionJournal ==
    \A r \in Revision :
        /\ generation[r] = Len(journal[r]) + Len(operations[r])
        /\ \A g \in DOMAIN groups[r] :
              /\ groups[r][g].first =
                    IF g = 1 THEN 1 ELSE groups[r][g - 1].last + 1
              /\ groups[r][g].first <= groups[r][g].last
        /\ journal[r] # <<>> =>
              /\ groups[r] # <<>>
              /\ Top(groups[r]).last = Len(journal[r])

\* The replay of a working revision's groups never meets an invalid chain, and
\* every row that the next undo or redo compensates still holds what the
\* journal says, so neither is ever refused as a conflict.
UndoRedoNeverConflicts ==
    \A b \in Branch : HasWorkingHead(b) =>
        /\ Stacks(groups[head[b]]).valid
        /\ \A redo \in BOOLEAN :
              LET stack  == Compensable(head[b], redo)
                  events == CompensatedEvents(head[b], Top(stack), redo)
              IN  stack # <<>> =>
                    /\ groups[head[b]][Top(stack)].action = "edit"
                    /\ events # <<>>
                    /\ \A i \in DOMAIN events :
                          Matches(rows[b][events[i].object], events[i], redo)

\* The same for the opaque history: what would be undone next left the stored
\* snapshot, and what would be redone next found it.
SnapshotUndoNeverConflicts ==
    \A b \in Branch : HasWorkingHead(b) /\ objectMode[head[b]] = 0 =>
        LET r      == head[b]
            stacks == Stacks(operations[r])
        IN
        /\ stacks.valid
        /\ stacks.applied # <<>> =>
              /\ Top(stacks.applied) \in DOMAIN operations[r]
              /\ snapshot[r] = operations[r][Top(stacks.applied)].after
        /\ stacks.undone # <<>> =>
              /\ Top(stacks.undone) \in DOMAIN operations[r]
              /\ snapshot[r] = operations[r][Top(stacks.undone)].before

\* A revision is edited in one of the two modes only, its mode is that of its
\* first parent, and an opaque branch owns no object rows.
ModesNeverMix ==
    \A r \in Revision :
        /\ objectMode[r] = 1 => operations[r] = <<>>
        /\ objectMode[r] = 0 => journal[r] = <<>> /\ groups[r] = <<>>
        /\ parents[r] # <<>> => objectMode[r] = objectMode[parents[r][1]]
        /\ state[r] = "working" /\ objectMode[r] = 0 =>
              rows[branchOf[r]] = EmptyModel

-----------------------------------------------------------------------------
(* Action properties                                                       *)

\* Once finalized, a revision reads the same for ever, whatever its branch's
\* live rows become, and its ancestry, history and mode stay as sealed.
HistoryIsImmutable ==
    [][\A r \in Revision : state[r] = "finalized" =>
          /\ state'[r] = "finalized"
          /\ ObjectsOf(r)' = ObjectsOf(r)
          /\ snapshot'[r] = snapshot[r]
          /\ parents'[r] = parents[r]
          /\ objectMode'[r] = objectMode[r]
          /\ journal'[r] = journal[r]
          /\ groups'[r] = groups[r]
          /\ operations'[r] = operations[r]]_tables

\* Finalizing changes nobody's view of the model: the sealed revision and its
\* successor both read exactly what the working revision read.
FinalizePreservesModel ==
    [][\A r \in Revision :
          state[r] = "working" /\ state'[r] = "finalized" =>
              LET next == head'[branchOf[r]] IN
              /\ objectMode[r] = 1 => ObjectsOf(r)' = ObjectsOf(r)
              /\ objectMode[r] = 1 => rows'[branchOf'[next]] = ObjectsOf(r)
              /\ objectMode[r] = 0 => /\ snapshot'[r] = snapshot[r]
                                      /\ snapshot'[next] = snapshot[r]]_tables

\* On a branch a row's version grows by one with every change, its kind never
\* changes and it is never removed, so an (object, version) pair that a client
\* saw on the branch names one content for ever, across undo and finalization.
VersionsAreNeverReused ==
    [][\A b \in Branch, o \in Object :
          LET old == rows[b][o]
              new == rows'[b][o]
          IN  head[b] # NoRevision /\ old # new =>
                /\ new.version = IF old = Absent THEN 1 ELSE old.version + 1
                /\ old # Absent => new.kind = old.kind]_tables

\* As long as a branch keeps its head, its rows and its snapshot change only with
\* a higher generation, whichever call or undo changes them: a caller that saw
\* the head and its generation knows the model (mergeObjectRevisions compares
\* both again under the lock).
GenerationCountsEdits ==
    [][\A b \in Branch :
          /\ HasWorkingHead(b) /\ head'[b] = head[b]
          /\ rows'[b] # rows[b] \/ snapshot'[head[b]] # snapshot[head[b]]
          => generation'[head[b]] > generation[head[b]]]_tables
=============================================================================
