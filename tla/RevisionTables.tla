--------------------------- MODULE RevisionTables ---------------------------
(***************************************************************************)
(* The versioned storage of one project: the SQL tables of branches and    *)
(* revisions, the branch-owned working rows, the immutable object roots,   *)
(* the two journals, and the operations that create branches and finalize  *)
(* revisions (database.cpp, revision_root.cpp, the schemas).               *)
(*                                                                         *)
(* Every write operation of the code runs in one write transaction         *)
(* (SQLite BEGIN IMMEDIATE, or the advisory lock of PostgreSQL) that is    *)
(* committed as a whole or rolled back, so it is one action here; a        *)
(* refused operation rolls back and is a stuttering step.  Permissions are *)
(* left out of this module: a denied caller is refused like any other.     *)
(***************************************************************************)
EXTENDS Integers, Sequences

CONSTANTS Branch, Revision, Object,
          Kind,             \* object types
          Content,          \* canonical object bytes
          Bytes,            \* canonical bytes of an opaque snapshot
          NoBranch, NoRevision, NoKind, NoContent, NoBytes, NoRoot,  \* SQL NULL
          ObjectManifest,   \* the stored manifest of an object-mode revision
          MaxGeneration     \* bound on the edits of one revision

ASSUME NullsAreNotValues ==
    /\ NoBranch \notin Branch
    /\ NoRevision \notin Revision
    /\ NoKind \notin Kind
    /\ NoContent \notin Content
    /\ {NoBytes, ObjectManifest} \cap Bytes = {}
    /\ NoBytes # ObjectManifest

ASSUME MaxGenerationIsNat == MaxGeneration \in Nat

VARIABLES
    head,         \* branches.head_revision_uuid
    rows,         \* revision_objects, by the branch that owns the storage
    state,        \* revisions.state
    branchOf,     \* revisions.branch_uuid
    number,       \* revisions.number
    generation,   \* revisions.generation
    objectMode,   \* revisions.object_mode
    parents,      \* revision_parents, in parent_position order
    root,         \* revisions.object_root_sha256: the snapshot it addresses
    snapshot,     \* snapshots.content
    journal,      \* object_events, in sequence order
    groups,       \* object_groups, in first_sequence order
    operations    \* operation_events, in sequence order

tables == <<head, rows, state, branchOf, number, generation, objectMode,
            parents, root, snapshot, journal, groups, operations>>

-----------------------------------------------------------------------------
(* Rows, object models and journal entries.                                *)

StoredRow == [kind : Kind, version : Nat \ {0}, deleted : BOOLEAN,
              content : Content \cup {NoContent}]

\* How the code reads a UUID that has no row: version -1 and deleted.
Absent == [kind |-> NoKind, version |-> -1, deleted |-> TRUE,
           content |-> NoContent]

Row == StoredRow \cup {Absent}

Model == [Object -> Row]

EmptyModel == [o \in Object |-> Absent]

ASSUME NoRootIsNotAModel == NoRoot \notin Model

\* An object event keeps the row before and the row after the edit.
Event == [object : Object, before : Row, after : StoredRow]

\* A group covers the events first..last; target is the position of the
\* group that an undo or a redo compensates, 0 for an edit.
Group == [action : {"edit", "undo", "redo"}, target : Nat,
          first : Nat, last : Nat]

Operation == [action : {"replace", "undo", "redo"}, target : Nat,
              before : Bytes \cup {NoBytes}, after : Bytes \cup {NoBytes}]

\* The columns of every table hold values of their type.
TypeOK ==
    /\ head \in [Branch -> Revision \cup {NoRevision}]
    /\ rows \in [Branch -> Model]
    /\ state \in [Revision -> {"unused", "working", "finalized"}]
    /\ branchOf \in [Revision -> Branch \cup {NoBranch}]
    /\ number \in [Revision -> Nat]
    /\ generation \in [Revision -> Nat]
    /\ objectMode \in [Revision -> {0, 1}]
    /\ parents \in [Revision -> Seq(Revision)]
    /\ root \in [Revision -> Model \cup {NoRoot}]
    /\ snapshot \in [Revision -> Bytes \cup {NoBytes, ObjectManifest}]
    /\ journal \in [Revision -> Seq(Event)]
    /\ groups \in [Revision -> Seq(Group)]
    /\ operations \in [Revision -> Seq(Operation)]

\* An empty database.  The columns of an unused revision hold the values a
\* new row gets from the schema's defaults.
Init ==
    /\ head = [b \in Branch |-> NoRevision]
    /\ rows = [b \in Branch |-> EmptyModel]
    /\ state = [r \in Revision |-> "unused"]
    /\ branchOf = [r \in Revision |-> NoBranch]
    /\ number = [r \in Revision |-> 0]
    /\ generation = [r \in Revision |-> 0]
    /\ objectMode = [r \in Revision |-> 0]
    /\ parents = [r \in Revision |-> <<>>]
    /\ root = [r \in Revision |-> NoRoot]
    /\ snapshot = [r \in Revision |-> NoBytes]
    /\ journal = [r \in Revision |-> <<>>]
    /\ groups = [r \in Revision |-> <<>>]
    /\ operations = [r \in Revision |-> <<>>]

-----------------------------------------------------------------------------
(* What the operations read.                                               *)

\* The branch exists and its head revision is editable.
HasWorkingHead(b) ==
    head[b] # NoRevision /\ state[head[b]] = "working"

\* A mistaken ObjectsOf: a sealed revision is read from its branch's rows too.
LiveObjectsOf(r) == rows[branchOf[r]]

\* The objects a reader of revision r gets: the live rows of its branch while
\* it is the working revision, the sealed Merkle snapshot afterwards.
ObjectsOf(r) ==
    IF state[r] = "finalized" THEN root[r] ELSE rows[branchOf[r]]

IsTouched(events, o) == \E i \in DOMAIN events : events[i].object = o

\* A mistaken BuildRevisionRoot: the untouched rows are not inherited.
TouchedRowsOnly(inherited, model, events) ==
    [o \in Object |-> IF IsTouched(events, o) THEN model[o] ELSE Absent]

\* The sealed snapshot.  With an inherited root only the objects named by the
\* revision's journal are read from the working rows and applied to that root;
\* without one all the rows are read.
BuildRevisionRoot(inherited, model, events) ==
    IF inherited = NoRoot
    THEN model
    ELSE [o \in Object |-> IF IsTouched(events, o) THEN model[o]
                                                   ELSE inherited[o]]

-----------------------------------------------------------------------------
(* The life cycle of branches and revisions.                               *)

\* createProject: branch 'main' and its first working revision.
CreateProject(b, r) ==
    /\ \A other \in Branch : head[other] = NoRevision
    /\ state[r] = "unused"
    /\ state' = [state EXCEPT ![r] = "working"]
    /\ branchOf' = [branchOf EXCEPT ![r] = b]
    /\ number' = [number EXCEPT ![r] = 1]
    /\ head' = [head EXCEPT ![b] = r]
    /\ UNCHANGED <<rows, generation, objectMode, parents, root, snapshot,
                   journal, groups, operations>>

\* createBranch: the new branch starts from a finalized revision.  Its own
\* working rows are materialized from the base's root, versions and
\* tombstones included; an opaque base hands on its snapshot instead.
CreateBranch(b, r, base) ==
    /\ head[b] = NoRevision
    /\ state[r] = "unused"
    /\ state[base] = "finalized"
    /\ objectMode[base] = 0 => snapshot[base] # NoBytes
    /\ objectMode[base] = 1 => root[base] # NoRoot
    /\ state' = [state EXCEPT ![r] = "working"]
    /\ branchOf' = [branchOf EXCEPT ![r] = b]
    /\ number' = [number EXCEPT ![r] = 1]
    /\ parents' = [parents EXCEPT ![r] = <<base>>]
    /\ objectMode' = [objectMode EXCEPT ![r] = objectMode[base]]
    /\ rows' = [rows EXCEPT ![b] =
                   IF objectMode[base] = 1 THEN root[base] ELSE EmptyModel]
    /\ snapshot' = [snapshot EXCEPT ![r] =
                       IF objectMode[base] = 0 THEN snapshot[base] ELSE NoBytes]
    /\ head' = [head EXCEPT ![b] = r]
    /\ UNCHANGED <<generation, root, journal, groups, operations>>

\* A mistaken NextNumber: the new working revision takes the old one's place.
SameNumber(r) == number[r]

\* The number of the working revision that follows r on its branch.
NextNumber(r) == number[r] + 1

\* The part of a finalization shared by finalize and by merge commits: seal
\* revision r, whose rows and journal are those at the end of the step, and
\* put the working revision new in its place.  The branch keeps its rows.
SealAndAdvance(b, r, new) ==
    /\ state[new] = "unused"
    /\ objectMode[r] = 0 => snapshot[r] # NoBytes
    /\ \A i \in DOMAIN parents[r] : state[parents[r][i]] = "finalized"
    /\ root' = [root EXCEPT ![r] =
                   IF objectMode[r] = 0 THEN NoRoot
                   ELSE BuildRevisionRoot(IF parents[r] = <<>> THEN NoRoot
                                          ELSE root[parents[r][1]],
                                          rows'[b], journal'[r])]
    /\ snapshot' = [snapshot EXCEPT
                       ![r] = IF objectMode[r] = 0 THEN @ ELSE ObjectManifest,
                       ![new] = IF objectMode[r] = 0 THEN snapshot[r]
                                                     ELSE NoBytes]
    /\ state' = [state EXCEPT ![r] = "finalized", ![new] = "working"]
    /\ branchOf' = [branchOf EXCEPT ![new] = b]
    /\ number' = [number EXCEPT ![new] = NextNumber(r)]
    /\ head' = [head EXCEPT ![b] = new]

\* finalize, with the generation the caller expects.
Finalize(b, new, expected) ==
    LET r == head[b] IN
    /\ HasWorkingHead(b)
    /\ generation[r] = expected
    /\ UNCHANGED <<rows, generation, journal, groups, operations>>
    /\ SealAndAdvance(b, r, new)
    /\ objectMode' = [objectMode EXCEPT ![new] = objectMode[r]]
    /\ parents' = [parents EXCEPT ![new] = <<r>>]
=============================================================================
