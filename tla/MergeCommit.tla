---------------------------- MODULE MergeCommit ----------------------------
(***************************************************************************)
(* Merging a finalized revision of one branch into the working revision of *)
(* another (object_merge_commit.cpp, object_merge_preview.cpp).            *)
(*                                                                         *)
(* A merge is planned from a preview that is read without the write lock   *)
(* and committed later under it.  SQLite reads the preview from one        *)
(* snapshot; on PostgreSQL its transaction has the default isolation, in   *)
(* which every statement sees what is committed when it starts, so other   *)
(* callers may come between its reads.  Here each read of the left, which  *)
(* is still edited, is a step; the base and the right are sealed.          *)
(***************************************************************************)
EXTENDS RevisionStore, RevisionAncestry

Seqs == INSTANCE SequencesExt

CONSTANTS Merger, NoMerge,
          Field,        \* the fields of a typed object
          TypedKind     \* the kinds whose content has a typed codec

VARIABLE merge          \* what each merger has read and decided so far

mergeVars == <<tables, merge>>

\* The contents of typed objects are functions of their fields and mixing two
\* of them gives a third one.
ASSUME TypedContentHasFields ==
    TypedKind # {} =>
        \A left, right \in Content, fields \in SUBSET Field :
            [f \in Field |-> IF f \in fields THEN right[f] ELSE left[f]] \in Content

\* Objects are UUIDs, of which there are finitely many.
ASSUME ObjectsAreFinite == IsFiniteSet(Object)

-----------------------------------------------------------------------------
(* The three-way comparison of one object.                                 *)

\* What a merge compares: versions and tombstones do not count.
Live(row) ==
    IF row.deleted THEN [kind |-> NoKind, content |-> NoContent]
                   ELSE [kind |-> row.kind, content |-> row.content]

Nothing == Live(Absent)

\* mergeModelFields decodes the three contents.
FieldsComparable(base, left, right) ==
    /\ Nothing \notin {base, left, right}
    /\ base.kind = left.kind /\ left.kind = right.kind
    /\ left.kind \in TypedKind

ConflictingFields(base, left, right) ==
    {f \in Field : /\ left.content[f] # right.content[f]
                   /\ left.content[f] # base.content[f]
                   /\ right.content[f] # base.content[f]}

\* The kind of change previewObjectMerge finds for one object.
ChangeKind(base, left, right) ==
    CASE left = base /\ right = base -> "none"
      [] left = base /\ right # base -> "right only"
      [] left # base /\ right = base -> "left only"
      [] left # base /\ right # base /\ left = right -> "both same"
      [] OTHER -> IF /\ FieldsComparable(base, left, right)
                     /\ ConflictingFields(base, left, right) = {}
                  THEN "fields merged" ELSE "conflict"

\* A mistaken chooseMergeField: a field the right did not change is taken from
\* the right all the same.
RightWinsFields(base, left, right, fromRight) ==
    [kind    |-> left.kind,
     content |-> [f \in Field |->
        IF f \in ConflictingFields(base, left, right) \ fromRight
        THEN left.content[f] ELSE right.content[f]]]

\* chooseMergeField for every field, with the choices for conflicting ones.
MergedFields(base, left, right, fromRight) ==
    [kind    |-> left.kind,
     content |-> [f \in Field |->
        IF \/ left.content[f] = base.content[f]
           \/ f \in ConflictingFields(base, left, right) \cap fromRight
        THEN right.content[f] ELSE left.content[f]]]

\* How a caller resolves a conflict: one side of the whole object or, for a
\* typed object, the conflicting fields to take from the right.
Resolution == [side : {"left", "right"}, fromRight : {{}}] \cup
              [side : {"fields"}, fromRight : SUBSET Field]

Resolves(resolution, base, left, right) ==
    resolution.side = "fields" =>
        /\ FieldsComparable(base, left, right)
        /\ resolution.fromRight \subseteq ConflictingFields(base, left, right)

\* The object the merge should leave.
Chosen(base, left, right, resolution) ==
    LET change == ChangeKind(base, left, right)
        takes(side) == change = "conflict" /\ resolution.side = side
    IN
    IF change = "right only" \/ takes("right") THEN right
    ELSE IF change = "fields merged" \/ takes("fields")
    THEN MergedFields(base, left, right,
                      IF change = "conflict" THEN resolution.fromRight ELSE {})
    ELSE left

-----------------------------------------------------------------------------
(* mergeObjectRevisions before the write lock.                             *)

MergeInit ==
    /\ Init
    /\ merge = [m \in Merger |-> NoMerge]

\* The checks on the target and on the sources.  A merge that is refused here
\* or later leaves nothing behind, so a merger may always start again.
BeginMerge(m, b, expected, right) ==
    LET working == head[b]
        left    == parents[working][1]
    IN
    /\ HasWorkingHead(b)
    /\ generation[working] = expected
    /\ Len(parents[working]) = 1
    /\ state[left] = "finalized"
    /\ state[right] = "finalized"
    /\ branchOf[right] # b
    /\ left # right
    /\ merge' = [merge EXCEPT ![m] =
                    [stage    |-> "begun",
                     branch   |-> b,        working |-> working,
                     expected |-> expected, left    |-> left,
                     right    |-> right,    sealed  |-> FALSE,
                     seen     |-> EmptyModel, digest |-> NoRoot,
                     plan     |-> <<>>]]
    /\ UNCHANGED tables

\* previewObjectMerge finds the base and reads generation, state and modes of
\* the revisions; the generation is compared with the expected one later.
OpenPreview(m) ==
    LET working == merge[m].working
        right   == merge[m].right
        bases   == MergeBases(working, right)
    IN
    /\ merge[m] # NoMerge
    /\ merge[m].stage = "begun"
    /\ AncestrySealed(working)
    /\ AncestrySealed(right)
    /\ Cardinality(bases) = 1
    /\ \A r \in bases \cup {working, right} : objectMode[r] = 1
    /\ generation[working] = merge[m].expected
    /\ merge' = [merge EXCEPT ![m].stage = "opened",
                              ![m].sealed = state[working] = "finalized"]
    /\ UNCHANGED tables

\* The rows a query on the working storage of a revision finds: none once the
\* revision is sealed.  A left that was sealed before is read from its root.
LeftRows(m) ==
    IF merge[m].sealed THEN root[merge[m].working]
    ELSE IF state[merge[m].working] = "working" THEN rows[merge[m].branch]
    ELSE EmptyModel

\* The left cursor is opened.
ReadLeft(m) ==
    /\ merge[m] # NoMerge
    /\ merge[m].stage = "opened"
    /\ merge' = [merge EXCEPT ![m].stage = "read", ![m].seen = LeftRows(m)]
    /\ UNCHANGED tables

\* A mistaken Diverged.
AnyRevisions(left, right) == TRUE

\* Neither source descends from the other: fast-forward is not supported.
Diverged(left, right) ==
    /\ left \notin Ancestors(right)
    /\ right \notin Ancestors(left)

BaseOf(m) == CHOOSE base \in MergeBases(merge[m].working, merge[m].right) : TRUE

\* mergePhysicalObjectDigest is read, the objects are compared and the caller's
\* resolutions turned into the objects the merge should leave.  The digest
\* identifies the rows, versions and tombstones included; that of a sealed
\* left (NoRoot here) equals none of them.
PlanMerge(m, resolutions) ==
    LET base  == [o \in Object |-> Live(root[BaseOf(m)][o])]
        left  == [o \in Object |-> Live(merge[m].seen[o])]
        right == [o \in Object |-> Live(root[merge[m].right][o])]
        chosen == [o \in Object |->
                     Chosen(base[o], left[o], right[o], resolutions[o])]
        plan  == Seqs!Restrict(chosen, {o \in Object : chosen[o] # left[o]})
    IN
    /\ merge[m] # NoMerge
    /\ merge[m].stage = "read"
    /\ Diverged(merge[m].left, merge[m].right)
    /\ \A o \in Object :
          ChangeKind(base[o], left[o], right[o]) = "conflict" =>
              Resolves(resolutions[o], base[o], left[o], right[o])
    /\ \A o \in DOMAIN plan :
          Nothing \notin {plan[o], left[o]} => plan[o].kind = left[o].kind
    /\ merge' = [merge EXCEPT
                    ![m].stage  = "planned",
                    ![m].seen   = EmptyModel,
                    ![m].digest = IF merge[m].sealed THEN NoRoot ELSE LeftRows(m),
                    ![m].plan   = plan]
    /\ UNCHANGED tables

-----------------------------------------------------------------------------
(* mergeObjectRevisions under the write lock.                              *)

\* A mistaken TargetUnchanged: the rows are compared but not the generation.
SameRevisionAndRows(m) ==
    LET working == merge[m].working IN
    /\ head[merge[m].branch] = working
    /\ state[working] = "working"
    /\ parents[working] = <<merge[m].left>>
    /\ objectMode[working] = 1
    /\ rows[merge[m].branch] = merge[m].digest
    /\ generation[working] = 0 => rows[merge[m].branch] = root[merge[m].left]

\* The target still is what the preview saw, down to its stored rows.
TargetUnchanged(m) ==
    LET working == merge[m].working IN
    /\ head[merge[m].branch] = working
    /\ generation[working] = merge[m].expected
    /\ state[working] = "working"
    /\ parents[working] = <<merge[m].left>>
    /\ objectMode[working] = 1
    /\ rows[merge[m].branch] = merge[m].digest
    /\ generation[working] = 0 => rows[merge[m].branch] = root[merge[m].left]

\* The edit that leaves the chosen object, with the version found under the
\* lock.  A deletion names no kind and keeps that of the row.
MergeEdit(row, o, chosen) ==
    [object   |-> o,
     kind     |-> IF chosen = Nothing THEN row.kind ELSE chosen.kind,
     content  |-> chosen.content,
     expected |-> row.version]

\* A mistaken MergeParents: the merged branch comes first.
RightFirst(m) == <<merge[m].right, merge[m].left>>

\* The parents of the merge: the branch's own history comes first.
MergeParents(m) == <<merge[m].left, merge[m].right>>

\* The planned edits are applied as one group on top of the local ones, the
\* right becomes the second parent and the working revision is finalized.
CommitMerge(m, new) ==
    LET b      == merge[m].branch
        r      == merge[m].working
        edits  == [i \in DOMAIN Seqs!SetToSeq(DOMAIN merge[m].plan) |->
                      LET o == Seqs!SetToSeq(DOMAIN merge[m].plan)[i]
                      IN  MergeEdit(rows[b][o], o, merge[m].plan[o])]
        events == [i \in DOMAIN edits |-> EventOf(rows[b], edits[i])]
    IN
    /\ merge[m] # NoMerge
    /\ merge[m].stage = "planned"
    /\ TargetUnchanged(m)
    /\ generation[r] + Len(edits) <= MaxGeneration
    /\ \A i \in DOMAIN edits : Accepts(rows[b][edits[i].object], edits[i])
    /\ rows' = [rows EXCEPT ![b] = AfterEvents(@, events)]
    /\ journal' = [journal EXCEPT ![r] = @ \o events]
    /\ generation' = [generation EXCEPT ![r] = @ + Len(edits)]
    /\ IF edits = <<>> THEN UNCHANGED groups
       ELSE WriteObjectGroup(r, "edit", 0, merge[m].expected, generation'[r])
    /\ SealAndAdvance(b, r, new)
    /\ parents' = [parents EXCEPT ![r] = MergeParents(m), ![new] = <<r>>]
    /\ objectMode' = [objectMode EXCEPT ![new] = 1]
    /\ merge' = [merge EXCEPT ![m] = NoMerge]
    /\ UNCHANGED operations

MergeNext ==
    \/ Next /\ UNCHANGED merge
    \/ \E m \in Merger :
          \/ \E b \in Branch, expected \in Generations, right \in Revision :
                BeginMerge(m, b, expected, right)
          \/ OpenPreview(m)
          \/ ReadLeft(m)
          \/ \E resolutions \in [Object -> Resolution] : PlanMerge(m, resolutions)
          \/ \E new \in Revision : CommitMerge(m, new)

MergeSpec == MergeInit /\ [][MergeNext]_mergeVars

-----------------------------------------------------------------------------
(* What merging promises.                                                  *)

\* A finalized revision is a merge.
IsMerge(r) == Len(parents[r]) = 2

\* The three-way rules for one object: a side that did not change yields to
\* the other, equal changes are kept, and in a conflict the result is one of
\* the sides or, field by field, obeys the same rules.
ThreeWay(base, left, right, result) ==
    /\ left = base => result = right
    /\ right = base \/ left = right => result = left
    /\ \/ result \in {left, right}
       \/ /\ FieldsComparable(base, left, right)
          /\ result.kind = left.kind
          /\ \A f \in Field :
                /\ result.content[f] \in {left.content[f], right.content[f]}
                /\ left.content[f] = base.content[f] =>
                       result.content[f] = right.content[f]
                /\ right.content[f] = base.content[f] =>
                       result.content[f] = left.content[f]

\* A merge commit leaves, for every object, the three-way merge of the only
\* merge base, of the target's rows as they are when it commits, and of the
\* right, whatever other callers did while it was prepared: no edit of either
\* branch is lost (the checks under the lock, object_merge_commit.cpp:228-266).
MergesLoseNoEdit ==
    [][\A r \in Revision :
          state[r] = "working" /\ IsMerge(r)' =>
              LET right == parents'[r][2] IN
              \E base \in BestCommonAncestors(Descends, r, right) :
                  \A o \in Object :
                      ThreeWay(Live(root[base][o]), Live(rows[branchOf[r]][o]),
                               Live(root[right][o]), Live(root'[r][o]))]_mergeVars

\* The parents of a merge are sealed revisions of which neither descends from
\* the other, so nothing is merged twice and no merge is a fast-forward.
MergeParentsDiverge ==
    \A r \in Revision : IsMerge(r) =>
        LET left     == parents[r][1]
            right    == parents[r][2]
            descends == Descends
        IN
        /\ {state[r], state[left], state[right]} = {"finalized"}
        /\ left \notin descends[right] /\ right \notin descends[left]
=============================================================================
