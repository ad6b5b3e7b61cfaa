# Verification of AOWIS-SERVER-DB

TLA+ specifications of the versioned model database in `src/`, checked with TLC
on small instances and, where stated, proved with TLAPS for every value of the
constants. Paths below are relative to the repository (`src/src/...` is the C++
implementation).

## 1. The system

AOWIS-SERVER-DB stores engineering models as **Project → Branch → Revision**. A
branch has one editable *working* revision, its head; finalizing it seals the
revision and puts a new working one in its place. A revision is edited in one of
two modes: *object mode* (versioned objects with a journal of edits and grouped
undo/redo) or *opaque mode* (whole snapshots with a linear undo/redo). Sealed
object-mode revisions are read from immutable content-addressed trees; the
working revision is read from SQL rows that belong to the branch and are carried
from one working revision to the next without being copied. Every write runs in
one transaction under one write lock (SQLite `BEGIN IMMEDIATE`, a PostgreSQL
advisory lock), so operations of different callers interleave only at
transaction boundaries, with one class of exceptions: work done *before* the
lock is taken and used after it (merge previews, password hashing, the HTTP
routes' reads, and whatever a client read earlier). That a transaction is one
step is itself specified and proved (`WriteTransactions`, section 4); the other
modules build on it.

### Inventory

| Component | State | Operations | Talks to | Hard part | Correct when |
| --- | --- | --- | --- | --- | --- |
| Branches and revisions (`database.cpp`, `working_storage.cpp`) | `projects`, `branches`, `revisions`, `revision_parents`, `snapshots` | createProject, createBranch, finalize, verify | everything | one working slot handed over; rows shared along the branch | one working head per branch; sealed revisions never change; finalizing changes no view |
| Object edits (`objects.cpp`, `object_groups.cpp`) | `revision_objects`, `object_events`, `object_groups` | putObject, deleteObject, commitObjectGroup, undo/redoObjectGroup | revisions, hydraulic validation | undo state recomputed from a log that contains undos | undo/redo is a linear history; journal and rows agree; versions are never reused |
| Opaque history (`history.cpp`) | `snapshots`, `operation_events` | replaceWorkingSnapshot, undoLastChange, redoLastChange | revisions | as above, with "no snapshot" as a state | the same |
| Revision roots (`revision_root.cpp`) | `object_root_sha256` | seal, read, materialize, replay | Merkle tree, content store | incremental seal from touched rows | the sealed root equals the working rows |
| Merkle tree, content store (`merkle_tree.cpp`, `content_store.cpp`) | `content_objects` | update, build, apply, lookup, lookupMany, entries, inventory, difference; put, get | roots, merge | structural sharing, canonical shape, rows damaged under the program | same map, same root; differences are exact; damage is reported, never answered from |
| Merge (`object_merge_preview.cpp`, `object_merge_commit.cpp`, `revision_ancestry.cpp`) | none of its own | compare, preview, commit | all of the above | preview outside the lock, candidate cap, unique base | a commit applies exactly the previewed merge, or nothing |
| Hydraulic networks (`model_persistence.cpp`, `model_validation.cpp`) | membership and reference indexes | saveHydraulicNetwork, validateTouchedHydraulicNetworks, loadHydraulicNetwork, rebuildWorkingHydraulicIndexes | object edits, undo, branches | two shortcuts decide from indexes instead of validating; the indexes are kept edit by edit | indexes equal what the rows imply; no shortcut accepts what the full check would refuse |
| Identity and permissions (`identity.cpp`, `security_admin.cpp`, `security_catalog.cpp`) | users, groups, roles, assignments | bootstrap, create, grant, revoke, disable, enable | every operation | last administrator, through groups too | somebody can always administer; denied means no effect |
| Audit (`security_audit.cpp`) | `security_audit_events` | audited mutation, verify | identity, sessions, passwords | event and change commit together | the chain is unbroken |
| Sessions (`sessions.cpp`) | `user_sessions` | issue, authenticate, list, revoke, redact | identity | limit over expiring rows; clock | never more than 32 active; revoked stays revoked |
| Passwords, recovery (`password_credentials.cpp`) | credentials, recovery tokens | set, change, login, issue, redeem | sessions, audit | hash computed outside the lock | a login uses the current password; a token is used once |
| Login throttle (`login_throttle.cpp`) | two windows of attempts | allowAttempt | HTTP login route | window boundary | never more than the limits in any window |
| Transactions, backends, schemas (`sqlite_backend.cpp`, `postgres_backend.cpp`) | connection, lock | beginWrite, commit, rollback | all | crash, lock timeout, connection lost during COMMIT, retry | all or nothing, once; no statement refused by the schema; the lock is released |
| HTTP routes, server, admin tool, configuration | none | request handling | all | reads before the transaction | pure I/O around library calls |
| Distributed repositories, snippets | – | – | – | – | documented as future, no code |

`PROJECT.json` lists the same components with their status, and under "hazards"
what can go wrong in each at the line where it bites.

## 2. Modules

```
UndoStack  RevisionTables          EditHistory (abstract)
    \       /        \                 |
  ObjectJournal   SnapshotHistory      |
         \          /                  |
         RevisionStore ------- HistoryRefinement -- MCRevisionStore -- MCEditHistories
          |         \
  EditingClients   RevisionStoreProofs -- HistoryProofs -- UndoProofs -- SnapshotProofs
          |                                                   |     \
  MCEditingClients                              HistoryRefinement   MergeProofs

  RevisionTables -- RevisionAncestry
                          \
       RevisionStore -- MergeCommit -- MCMergeCommit
                              \
                            MergeProofs

  ContentStore -- MerkleTree -- MerkleUpdates -- SealedTrees -- MCSealedTrees

  HydraulicNetworks -- MCHydraulicNetworks
            \
          HydraulicProofs

  AtomicStore (abstract) .... WriteTransactions -- WriteTransactionProofs

  Access -- Credentials -- AccountSecurity -- GuessHistory -- MCAccountSecurity
                                                  \
                                              SecurityProofs
```

* **RevisionTables** – the SQL tables as variables (one per column that matters),
  and the life cycle: `CreateProject`, `CreateBranch`, `Finalize`. Rows are keyed
  by the branch that owns the storage, as in the code; `root[r]` is the whole
  model the sealed root addresses (a collision-free hash identifies its content).
  `SealAndAdvance` is `finalizeInWriteTransaction` without the guard on the
  generation, written so that a merge commit can seal in the same step in which
  it edits. `BuildRevisionRoot` seals as the code does, from the inherited root
  and the rows the journal names; that this equals the live rows is a theorem and
  not part of the definition.
* **UndoStack** – the replay of an append-only log of edits, undos and redos into
  two stacks, run by both histories.
* **ObjectJournal** – `ModifyObject` (put and delete), `CommitObjectGroup`,
  `CompensateObjectGroup` (undo and redo), and `JournalReplays`, the check of
  `verifyRevisionJournalReplay` stated without its loop: an event must find what
  the last earlier event on its object left.
* **SnapshotHistory** – `ReplaceWorkingSnapshot`, `UndoLastChange`,
  `RedoLastChange`.
* **RevisionStore** – `Next` as the disjunction of all operations, and the
  invariants and action properties.
* **EditHistory** – what an editor is promised: a current state, a stack of pasts
  and a stack of futures. **HistoryRefinement** maps the store to it, once per
  branch and mode. The store has no stacks of models: the mapping recovers them
  from the journal.
* **EditingClients** – clients that remember what they last read and edit with
  the version or generation they saw, while others edit, undo and finalize.
* **RevisionAncestry** – ancestors and merge bases (`collectAncestors`,
  `compareRevisions`), and a definition of the best common ancestors by
  reachability to hold them against.
* **MergeCommit** – a merger prepares a merge (`BeginMerge`, `OpenPreview`,
  `ReadLeft`, `PlanMerge`) without the write lock and commits it under the lock
  (`CommitMerge`), while every operation of `RevisionStore` goes on. The
  preparation's transaction is read-only and sees one snapshot on SQLite, but runs
  at PostgreSQL's default isolation there, where each statement sees what is
  committed when it starts; the modelled reads are those statements, and SQLite's
  behaviour is the case in which nobody comes between. What the code compares by
  a fingerprint of the stored rows is compared here by the rows.
* **Access** – users, groups, roles, permissions and assignments as sets of what is
  in force (rows are marked as revoked and never deleted), `HasPermission` as the
  query of `hasPermission`, and the operations. `Audited` is
  `auditedSecurityMutation`: it is conjoined with the change it surrounds, asks for
  the permission as of before the change, for a remaining manager after it, and
  writes the event. `CreateProject` and `CreateBranch` appear once more, as far as
  they concern access.
* **Credentials** – sessions, passwords with their failure counts and lockouts,
  recovery tokens, and a clock. A login or a change of one's own password is two
  steps: `BeginLogin` and `BeginChange` read the credential, and `RejectPassword`,
  `AcceptLogin` and `AcceptChange` come after the hashing and act under the lock.
  Operations that take the time before they wait for the lock choose one of
  `Earlier`.
* **AccountSecurity** – all of these as one `Next`, and the properties.
  **GuessHistory** adds the times of wrong passwords as a history variable, to say
  when an account ought to be locked without the columns that decide it.
* **ContentStore** – the content-addressed rows: insert-if-absent under a digest,
  reads that hash the payload again, one by one and in batches. A digest is the
  pair of a kind and a payload (SHA-256 taken to be free of collisions); the rows
  map each stored digest to what its payload hashes to now. Operations answer
  `Failed` where the code answers `nullopt`, with the rows as the code leaves them.
* **MerkleTree** – nodes with a compressed prefix, point and batched lookup, scan,
  inventory, and the difference of two trees; **MerkleUpdates** – the three ways to
  make a root: `update` (one key), `build` (whole) and `apply` (a batch). These are
  recursive operators over the stored rows, with the code's order of reads, so that
  damage is met where the code meets it.
* **SealedTrees** – chains of roots made by sealing, single updates, batches and
  bulk builds, read by every reader of `revision_root.cpp`, while the storage under
  the program damages or loses rows (`Damage`, `Lose`: the two cases each read of a
  row checks for). Each published root is kept beside the model it must stand for.
* **HydraulicNetworks** – typed networks in the working rows of one branch, with
  the two derived indexes. `CommitObjectGroup`, `UndoObjectGroup`,
  `RedoObjectGroup` and `SaveHydraulicNetwork` (its fresh path and its update path)
  end in `ValidateTouchedHydraulicNetworks`, which skips validation of edits that
  change no reference, decides single entities from the indexes, and validates the
  whole network otherwise; `Finalize` and `CreateBranch` carry over or rebuild the
  indexes. An object is its reference fields, its other data and, for a root, the
  entities it lists.
* **AtomicStore** – what a caller is promised of the tables of a branch: an edit or a
  finalization takes effect as a whole or not at all, and an edit once.
  **WriteTransactions** – the same calls statement by statement on either database:
  read without the lock, wait for it (`BeginWrite`, `TimeOut`), check again (`Check`,
  `Refuse`), execute (`Statement`, `StatementFails`), `Commit`, `Return`. A caller may
  ask for the same again. Its process may `Crash` at any point, and its connection may
  be lost (`Disconnect`): the call then reports failure like any other, while the
  transaction stays with the database, which rolls it back later or, if COMMIT was
  sent, may still complete it (`SessionEnds`), perhaps after the caller has begun to
  wait for the lock again. `past` remembers what came of the attempts at a request.
  `Allowed` are the unique indexes, CHECKs and triggers of the schemas.
* **RevisionStoreProofs, HistoryProofs, UndoProofs, SnapshotProofs**,
  **MergeProofs**, **SecurityProofs**, **WriteTransactionProofs** and
  **HydraulicProofs** – the theorems.
* **MC...** modules – constants and symmetry sets for TLC.

How state and actions correspond to the code, definition by definition, is in
`PROJECT.json` "map".

### Abstractions

* A write transaction is one action everywhere but in `WriteTransactions`, which
  shows why that is sound for the two kinds of calls whose statements depend on
  each other most. A refused operation rolls back and is a
  stuttering step, so refusals appear only as guards.
* UUIDs are model values; `createUuidV7()` is the choice of an unused one.
  Revisions without a row are in state `"unused"` and hold the schema's defaults.
  The transient state `'sealing'` never survives a transaction.
* Contents and snapshots are model values; SQL NULLs are constants outside them.
  A missing row is `Absent`, which has the version -1 and the deleted flag the
  code gives it.
* A group stores the range of its events, as `object_groups` does; the redundant
  link table `object_group_events` is that range.
* Left out: permissions, names, actors, timestamps, titles, the encoding of
  manifests and the hash chain, and, in the store's modules, hydraulic validation of
  an edit. Each of these can only refuse an operation or record more about it.
  Hydraulic validation has a module of its own, in which versions, generations and
  permissions are left out in turn.
* A merge mixes the fields of typed objects: contents of a kind in `TypedKind` are
  functions of `Field`, and each field goes through `chooseMergeField`. Tags
  (merged as a set by the code), the limit on the size of a merge, validation of a
  merged hydraulic network and the paging of previews over HTTP are left out; the
  first three can only refuse a merge or treat one more field.
* An operation asks for its permission before it takes the lock and again under
  it; the first answer can only refuse, so one guard under the lock stands for
  both. Of the audit log later steps read the last event only, and `lastEvent` is
  its number and actor; the hash chain is left out. The catalog's entries are the
  created groups, roles and permissions; no operation disables a group.
* A bearer token is its session and a recovery token its row: tokens are random
  and their digests collision-free. A stored password is the password with the
  number of its salt; hashing has no other effect than to take time. Usernames and
  the rules for passwords only refuse a call. The clock does not run backwards: an
  operator who sets it back revives expired sessions, which no document excludes.
* Hydraulic entities are reduced to the kinds that validation tells apart and their
  reference fields; multi-species data, numbers and names are one value, `data`. A
  demand point's position is in or out of range. `before` keeps of the journal what
  the first shortcut reads, the content before an object's last event.
* One branch of `HydraulicNetworks` follows the newest branch: `CreateBranch`
  continues on it with rebuilt indexes, and nothing is shared with the old one.
* In `WriteTransactions` revisions are used in the order of their numbers and one
  object stands for all; a finalizer is a caller that asks as often as it likes, an
  editor asks for one edit. An editor whose attempts only failed, or of which it heard
  nothing, and which is then refused does not edit anew: it keeps the version it
  expected and reads the journal. That "once" holds is a promise to such callers; one
  that takes a reported failure for a rollback and reads a fresh version may make its
  edit a second time. A retried finalization whose first answer was lost may
  finalize the successor as well, when the generations agree.
* Keys of a tree are short sequences of nibbles, with `Branches` values each; the
  code's 32 nibbles and 16 values only repeat the same cases. Record bytes and the
  node encoding are model values and records.
* One project. Branches and revisions of different projects share nothing but the
  write lock and the content store.
* A group's edits name distinct objects, so its events are computed from the rows
  before the group. The code reads each row when it comes to it, which is the
  same for distinct objects; for compensations, whose objects come from a group,
  distinctness is part of the inductive invariant (`GroupsNameDistinctObjects`).

## 3. Runs

The code has no background activity, scheduler or retry of its own: every call is
made by some client, which may never come. So no run assumes that anybody calls,
deadlock is not checked (callers may stop, and the bounds stop every run), and
liveness is stated where a call has begun: `NothingWaitsForever` of
`write_transactions`, under weak fairness of `Proceeds(c)` for each caller and of
`SessionEnds`. The
code justifies it: a running call's thread is scheduled, each of its steps is a
synchronous call of the database, and the database ends a wait for the lock after
`busy_timeout` or `lock_timeout` (five seconds). That `SessionEnds` happens is the
database's part: SQLite's locks end with their process, and PostgreSQL ends the session
of a client it finds gone. `ReadHead`, `Call`, `Disconnect` and `Crash` are not fair.

| Run | Checks | Shows |
| --- | --- | --- |
| `edit_histories` | `TypeOK`, `WorkingRowsReplay`, `GroupsPartitionJournal`, `UndoRedoNeverConflicts`, `SnapshotUndoNeverConflicts`, `ObjectEditsAreAHistory`, `SnapshotEditsAreAHistory` | two revisions, two objects, groups of up to two, six edits in all, in either mode: three groups of two, or an edit, its undo and redo with others between, in every order, before and after a finalization, undo to no snapshot and redo from none |
| `branches` | `OneWorkingHeadPerBranch`, `ModesNeverMix`, `HistoryIsImmutable`, `FinalizePreservesModel`, `VersionsAreNeverReused`, `GenerationCountsEdits` | two branches and five revisions: a branch from a branch's history, both edited and finalized again, in both modes, with two kinds |
| `merge_commit` | `MergesLoseNoEdit`, `SealedJournalsReplay` | one untyped object, two contents, four edits: local edits, undo and finalization of either branch between any two reads of a merge and before its commit |
| `merge_fields` | `MergesLoseNoEdit` | a typed object with a field of three values, which can conflict, and one of two: the field-wise merge and its resolutions, deletions and creations on either side |
| `merge_graph` | `MergeBasesAreBest`, `MergeParentsDiverge` | the graphs of seven revisions that two branches with merges in both directions reach, the criss-cross with two merge bases among them |
| `access` | `SomebodyCanAdminister`, `OnlyManagersGrantAuthority` | two users, a group, two roles, one project with two branches, four changes after the setup: a manager by way of a group or a second role, removals of one by the other |
| `sessions` | `SessionsWithinLimit`, `SessionsEndByRight`, `ChangesAreAudited` | three sessions at a limit of two, two lifetimes, issued up to one tick late; used, revoked in all ways, redacted, expired; users disabled, enabled and made managers |
| `passwords` | `TypeOK`, `LockoutFollowsGuesses`, `OldPasswordsOpenNothing`, `NewPasswordEndsOldAccess`, `SpentAccessStaysSpent` | two calls that hash at the same time, two passwords, sessions and tokens, a lockout after two failures that ends within the run |
| `sealed_trees` | `RootsAreCanonical`, `RootsReadBack`, `VerificationFindsDamage`, `DifferencesAreExact`, `StoreHoldsTheRoots` | four keys that share two nibbles, one or none, two records, two roots made in any of the three ways, one row damaged or lost at any time |
| `hydraulic_networks` | `IndexesMatchRows`, `NetworksStayValid`, `UndoRefusedOnlyForOrphans` | two networks with a pipe, its two ends and a demand point on it: single entities, groups, roots that adopt, hand over and drop, saves on both paths, undo, redo, finalization and branching |
| `write_transactions` | `StoreIsAtomic`, `AnswersAreTrue`, `EveryStatementIsAllowed`, `NothingWaitsForever` | two editors that want one edit each and a finalizer over three revisions; any statement may fail, any caller crash, time out, lose its connection before or during COMMIT, and ask again |
| `snapshot_clients` | `StaleReplacementsAreRejected` (violated) | two clients with stale views over a finalization: see the finding below |

Bounds and why they are enough: `MaxGeneration` bounds the edits of one revision
(the guards of `ApplyEdits` and `ApplySnapshotOperation`); six is the first bound
at which two edits, their two undos and two redos occur in one revision. Two
objects separate the touched from the untouched, two branches the owner of rows
from a reader, two kinds and contents a change from a repetition, and the third
revision of a branch is the first whose parent inherited a root itself.
`MaxGroup = 2` is the first size at which the order within a group shows. In
`edit_histories` one content is enough, since an undone creation, a deletion and a
recreation already give different rows, and `MaxEdits = 6` bounds the edits of both
revisions together: the constraint `Short` goes on from shorter histories only, and
what the sixth edit leads to is checked as well; `branches` has two contents and two edits per revision, for its
questions are about what branching and finalizing do to rows made before. `Version`
is the set of versions callers may pass and covers -1 ("no row") and every
reachable one.

In `sealed_trees`, `KeyLength = 3` is the first length at which an edge can be left
at its start, in its middle and at its end, and two roots (`MaxSealed`) the first
number at which rows are shared and a difference has two sides; the invariants
quantify over all key sets, requests and pairs of roots in each state. One damaged
row (`MaxDamaged`) is enough, since every reader stops at the first it meets. In
`hydraulic_networks`, `MaxIncremental = 2` puts groups of two on the incremental
path and groups of three beyond it; `MaxEdits = 2` bounds the groups that can be
undone and redone, two being what it takes to undo one over another. In
`write_transactions`, two editors race for one version, and three revisions leave
room for a finalization, its repetition and a refused one.

The merge runs bound the edits of all revisions together (`MaxEdits`) and of a
merge's target before it (`MaxLocalEdits`), and start merging when two branches
have each finalized once since their common base (`FirstMerge` revisions), the
smallest history in which both sides of a merge differ from its base. Until then
`SetupOrder` explores one order of the branches' operations, which are independent
of each other; revision identifiers are handed out in ascending order, which is
what a symmetry set does in the other runs but lets a configuration bound edits
by revision. One merger is enough for the guard under the lock: a competing
commit changes the tables as a finalization or an edit does.

The security runs start with an administrator and a second user (`Setup`), and
`MaxEvents` bounds the audited operations, those of the setup included: four more
are enough to give a group a right, a user the group, and take both away again.
Limits are small numbers (`FailureLimit`, `MaxActiveSessions`, `LockoutTime`) and
differ from 1 wherever 1 would hide the count. `MaxWait` is how much too early a
time taken before the lock may be, `MaxTime` ends the clock once a lifetime that
began at the start and a lockout can have ended, and `MaxSalt` is the number of passwords a user may have had. In
`passwords` rights do not change after the setup (`RightsChange`), in `access`
there are no sessions and no passwords: the interplay of rights with sessions is
that of `sessions`.

Each property of a passing run has a mutant: a plausible slip in the code
(a new edit that keeps the redo stack, a version counted from -1, a seal that
forgets the untouched rows, an edit without a journal entry, ...) written next to
the definition it replaces, under which the property fails.

### Finding: generations do not identify a revision

`docs/architecture.md` (58-59) promises that "the core checks working revision
generations and expected object versions to reject stale edits". Object versions
keep the promise (`VersionsAreNeverReused`, also a theorem). Generations keep it only
while the head stays (`GenerationCountsEdits`, also a theorem): they start again at 0
after every finalization, and `replaceWorkingSnapshotUnchecked` (`database.cpp:724`) is given
a branch and a number, no revision. In the run two clients read the same head,
one finalizes the branch and edits until the number repeats, and the other's
replacement, made from what the older revision held, is accepted. Undo, redo,
`finalize` and `saveHydraulicNetwork` compare the same way; a merge commit also
compares the head's UUID.

### Observations

Met while modelling, and not claimed as defects, for no document promises otherwise:

* `rebuildWorkingHydraulicIndexes` is said to validate each network's graph
  (comment at `model_persistence.cpp:1128`), but `loadHydraulicNetworkUnchecked`, which
  it calls, does not; that every network is valid then is `NetworksStayValid`.
* Undoing a group in which a root adopted an object stored before is refused: the
  undo would leave a live entity in no network (`UndoRefusedOnlyForOrphans` says that
  nothing else refuses an undo or a redo).
* A network whose root and entities are all tombstones cannot be saved again; redo
  restores it.
* `initializeSchema` asks `hasSchema` before it takes the lock (`database.cpp:167`).
* A finalization is recognized by a generation: repeated after a lost answer while the
  successor has the same generation, it finalizes the successor too.
* A call that reports failure may have taken effect: when the PostgreSQL connection is
  lost during COMMIT, `commit` returns false (`postgres_backend.cpp:192-195`), and
  `modifyObject`, `commitObjectGroup` and `finalizeUnchecked` report what they report
  for a rollback (`objects.cpp:341-345`). `AnswersAreTrue` says what is left to rely
  on: the journal's event after the expected version names whose edit it was.
* An operator who sets the clock back revives expired sessions (`sessions.cpp:269`).

## 4. Proofs

All theorems hold for every set of branches, revisions, objects, kinds, contents
and snapshots and for every bound, under the named assumptions of the modules
that declare the constants: the NULLs are not values, `MaxGeneration` is a
natural number, versions are integers. For the security modules: the built-in
catalog, disjoint kinds of scopes and principals, positive limits and lifetimes,
and finitely many sessions. For the write transactions: editors and finalizers are
different callers, "no lock" is no caller, "no request" and "no root" are no
numbers, and there is a revision. For ancestry: there are finitely many revisions
(`RevisionsAreFinite`), and for merges finitely many objects (`ObjectsAreFinite`),
their UUIDs having 128 bits. For the hydraulic networks: the null reference is
no UUID, what callers write refers to UUIDs and what they save as a network is live
(`InputsAreObjects`), and the rows a new branch starts from are networks that pass
the full validation (`ImportsAreValid`). The last one is the theorem itself, one
revision earlier: a branch is created from a finalized revision, whose rows are
those that some working revision ended with, and the first working revision of a
project has none.

| Theorem | Statement | Rests on |
| --- | --- | --- |
| `TypeCorrect` | `Spec => []TypeOK` | `Bookkeeping` |
| `SealedJournalsAlwaysReplay` | `Spec => []SealedJournalsReplay` | `ReplayInvariant` |
| `WorkingRowsAlwaysReplay` | `Spec => []WorkingRowsReplay` | `ReplayInvariant` |
| `HistoryStaysImmutable` | `Spec => HistoryIsImmutable` | `ReplayInvariant` |
| `VersionsOnlyGrow` | `Spec => VersionsAreNeverReused` | `ReplayInvariant` |
| `FinalizeKeepsTheModel` | `Spec => FinalizePreservesModel` | `ReplayInvariant` |
| `OneHead` | `Spec => []OneWorkingHeadPerBranch` | `Numbering` |
| `GroupsPartition` | `Spec => []GroupsPartitionJournal` | `Partitions`, `Bookkeeping` |
| `ModesApart` | `Spec => []ModesNeverMix` | `ReplayInvariant`, `Numbering` |
| `GenerationsCount` | `Spec => GenerationCountsEdits` | `ReplayInvariant` |
| `UndoRedoNeverMeetConflicts` | `Spec => []UndoRedoNeverConflicts` | `ReplayInvariant`, `UndoInvariant` |
| `ObjectEditsRefineEditHistory` | `Spec => ObjectEditsAreAHistory` (a refinement) | `ReplayInvariant`, `UndoInvariant` |
| `SnapshotUndoNeverMeetsConflicts` | `Spec => []SnapshotUndoNeverConflicts` | `Bookkeeping`, `SnapshotsAreLinked` |
| `SnapshotEditsRefineEditHistory` | `Spec => SnapshotEditsAreAHistory` (a refinement) | `Bookkeeping`, `SnapshotsAreLinked` |
| `MergeBasesAreAlwaysBest` | `MergeSpec => []MergeBasesAreBest` | `GraphInvariant` |
| `MergeParentsAlwaysDiverge` | `MergeSpec => []MergeParentsDiverge` | `GraphInvariant` |
| `MergesKeepEveryEdit` | `MergeSpec => MergesLoseNoEdit` | `MergeInvariant` |
| `MergedJournalsReplay` | `MergeSpec => []SealedJournalsReplay` | `MergeInvariant` |
| `MergedRowsReplay` | `MergeSpec => []WorkingRowsReplay` | `MergeInvariant` |
| `MergesKeepUndo` | `MergeSpec => []UndoRedoNeverConflicts` | `MergeInvariant` |
| `MergesKeepHistory` | `MergeSpec => HistoryIsImmutable` | `MergeInvariant` |
| `MergesReuseNoVersion` | `MergeSpec => VersionsAreNeverReused` | `MergeInvariant` |
| `MergesAreCounted` | `MergeSpec => GenerationCountsEdits` | `MergeInvariant` |
| `MergesKeepOneHead` | `MergeSpec => []OneWorkingHeadPerBranch` | `MergeInvariant`, `Numbering` |
| `MergesPartitionJournals` | `MergeSpec => []GroupsPartitionJournal` | `MergeInvariant`, `Partitions` |
| `MergesKeepModes` | `MergeSpec => []ModesNeverMix` | `MergeInvariant`, `Numbering` |
| `IndexesAlwaysMatchRows` | `Spec => []IndexesMatchRows` | `NetworkInvariant` |
| `ShortcutsKeepNetworksValid` | `Spec => []NetworksStayValid` | `NetworkInvariant` |
| `TransactionsAreAtomic` | `Spec => StoreIsAtomic` (a refinement) | `CallsOK` |
| `AnswersTrue` | `Spec => []AnswersAreTrue` | `CallsOK` |
| `StatementsAreAllowed` | `Spec => []EveryStatementIsAllowed` | `CallsOK` |
| `TypeCorrect` (of `SecurityProofs`) | `Spec => []TypeOK` | itself |
| `AdministratorsRemain` | `Spec => []SomebodyCanAdminister` | `AdministratorInvariant` |
| `ManagersGrantAuthority` | `Spec => OnlyManagersGrantAuthority` | `ScopesExist` |
| `ChangesLeaveEvents` | `Spec => ChangesAreAudited` | types |
| `SessionLimitHolds` | `Spec => []SessionsWithinLimit` | `EarlierCountsMore` |
| `SessionsEndOnlyByRight` | `Spec => SessionsEndByRight` | `LiveAccess` |
| `SpentStaysSpent` | `Spec => SpentAccessStaysSpent` | `LiveAccess` |
| `NewPasswordsEndAccess` | `Spec => NewPasswordEndsOldAccess` | `LiveAccess` |
| `OldPasswordsAreRefused` | `Spec => OldPasswordsOpenNothing` | `ChangesNameTheOwner` |
| `LockoutsFollowGuesses` | `GuessSpec => []LockoutFollowsGuesses` | `GuessInvariant` |

**Type correctness** (`RevisionStoreProofs`). `TypeOK` is not inductive: a
compensation reads events through a group's range, and a snapshot operation reads
the snapshot of a head it knows to be opaque only by the mode. `Bookkeeping` adds
that the generation counts the journal and the operations, that the modes keep
their tables apart, that groups lie inside the journal and that unused revisions
are blank. The proof has one step per action.

**Replay** (`RevisionStoreProofs`). The argument that an incremental seal is
right: the live rows of a branch are the root of the head's first parent with the
working journal replayed on it. An edit extends both sides in the same way
(lemmas `YieldsExtends` and `GroupExtendsReplay`), provided the edits of a transaction
name distinct objects. A seal takes the touched rows from the live rows and the
others from the parent's root, which are the live rows too, because an untouched
row is the baseline's (lemma `SealIsComplete`); the successor starts with an empty journal on that root.
`Lineage` is what makes the parent's root available: parents are sealed and of
the same mode, sealed object-mode revisions have roots, heads are working.
`GroupsNameDistinctObjects` carries distinctness to later compensations.
The whole invariant was model-checked before it was proved.

**History** (`HistoryProofs`). The action properties follow step by step from the
same invariant: no action writes to a sealed revision, `WorkingRowsReplay` turns
the sealed root into the rows that were live, and `Accepts` and `Written` give the
version step.

**Order** (`HistoryProofs`). That a branch has one working head with gapless numbers
needs that revisions without a row belong to no branch and that a branch without a
head has no revisions (`RevisionsHaveBranches`). That groups partition their journal
extends with each transaction because a group begins after the generation and the
generation counts the journal (`PartitionsExtend`). A working head's rows and
snapshot change only in the steps that raise its generation; a finalization replaces
the head, and heads are apart.

**Undo and redo** (`UndoProofs`). The code keeps no undo stack: each call replays the
log of groups and trusts that the rows it compensates are what the journal says. The
first part shows what the replay computes for a log of any length. `Stacks` is a
recursive function; that there is exactly one function that satisfies its equations
follows from the well-foundedness of `<` on the naturals (`NatSetInduction`,
`ReplayExists`, `ReplayUnique`), and `StacksAppend` then gives the stacks one entry
later. The second part is `UndoInvariant`: rows are sound (deleted exactly when
without content), an object keeps its kind, stacks hold valid positions of edits, and the edits on them are
chained (`EditsAreChained`): the group at each position of the stack of applied edits
left exactly the visible rows to which undoing the groups above it leads back, and
likewise upwards for the undone ones. Without the chain only the top could be shown
to match, and the next undo after it would be unaccounted for; without `KindsAreKept`
and sound rows an undo would restore the content and not the row's meaning. Edits
push onto the chain (`ChainPush`), compensations move its top over
(`CompensationKeepsChains`), and the groups of other revisions and of other branches
are not disturbed (`OthersStayChained`). The refinement maps a branch to `EditHistory` by
rewinding the rows along the stacks; each step of the store is the abstract edit,
undo or redo, an opening or closing of the branch, or a stutter.

**Snapshots** (`SnapshotProofs`). The same with whole values: `SnapshotsAreLinked` says
that what an operation on a stack left is what the one above it found, and that the top
meets the stored snapshot.

**Ancestry** (`MergeProofs`). The module begins with graphs alone, with the graph as a
parameter (`Reached`), so that the graphs before and after a step can be compared.
`SearchEnds` is why `collectAncestors` finds everything: each round finds one revision
more or there is no more to find, so that as many rounds as there are revisions are
enough. `UndominatedAreBest` needs the graph to be acyclic, and `BestExists` takes a
common ancestor with the most ancestors. `GraphInvariant` is what branching, finalizing
and merging keep: parents are finalized, so that what is finalized keeps its ancestors
(`UnchangedPart`) and a new revision cannot close a cycle (`GrowingStaysAcyclic`); all
revisions descend from the first one, which is why any two have a common ancestor; and
what a merger found before the lock, that its two sides do not descend from each other,
still holds when it commits, because both were finalized then.

**Merges** (`MergeProofs`). `MergeSpec` is the store with its mergers, so that all its
operations go on between any two reads of a merge, on PostgreSQL as well as on SQLite.
`MergeInvariant` is `GraphInvariant`, `ReplayInvariant`, `UndoInvariant` and
`PlansAreCurrent`. The graph's part holds by itself; the others need the last, since a
commit writes what was worked out before the lock: that its edits are well-formed, and
that they make the three-way merge, is known only if what the merger read is known to be
true still. `PlansAreCurrent` says how long it is: as long as the revision it read is the working head, the plan has the one merge base
that head has now, and as long as the generation has not moved, the rows read are the
branch's rows and the plan is their three-way merge with base and right. The target's
rows may change after the plan was begun, and the read then sees rows that belong to a
higher generation; the generation only grows while the head stays (`WorkingMoves`), so
the comparison under the lock refuses exactly those plans.

The proof has three parts. One is about a single object: `Chosen` is a three-way choice
(`ChosenIsThreeWay`), for typed contents field by field (`FieldsFollowThreeWay`), and the
edits of the plan, when accepted, leave on each object what was chosen for it
(`PlannedEditsLeaveOutcome`). One is about a commit as a single step on the tables,
`CommitEffect`: any accepted edits on distinct objects, sealed in the same step, keep
`ReplayInvariant` and `UndoInvariant` (`CommitKeepsReplayInvariant`,
`CommitKeepsUndoInvariant`); the root sealed from the inherited root and the rows the
journal names is again the live rows, because the journal of the seal already holds the
merge's events. The last is about plans: what every other step does to what a plan
depends on (`PlansMove`) and that a plan survives it (`PlanStaysCurrent`). `PlansAreCurrent`
and `UndoInvariant` were model-checked on the three merge runs before they were proved.
`ObjectsAreFinite` is needed because the code's list of objects to write is finite.

Two promises of the store are not made for merges, because they are not true of them:
`FinalizePreservesModel`, as a merge changes the model in the step that seals it, and the
refinement of `EditHistory`, whose `Seal` keeps what an editor sees.

**Hydraulic networks** (`HydraulicProofs`). `NetworkInvariant` is `TypeOK` with
`Consistent`: every network passes the full validation and no two share an entity
(`Sound`), the membership index is that of the rows (`Tracks`), and the reference index
is the rebuilt one. None of the three holds alone, since the shortcuts
validate an edit by looking into the indexes, and the indexes are updated only for what
a valid edit touched. There is one argument for each way an edit can be accepted: an
edit that changes no reference and no liveness changes neither validity nor indexes
(`NeutralEditsKeepAll`); a local check of the edited links and of the demand points that the
index knows to be attached to them covers every constraint of the full check that the
edit can break (`LocalCheckSuffices`); and validating the affected networks in full is
enough because the rows of the others did not change (`FullCheckSuffices`).
`SourcesAreRebuilt` shows that replacing the references of the touched sources gives
the rebuilt index. Working the proof out showed a defect of the model: two `CASE`
expressions had overlapping guards, which TLC evaluates in order and TLA+ leaves open;
they are `IF` expressions now.

**Write transactions** (`WriteTransactionProofs`). `EditStatements` and
`FinalizeStatements` compute what the statements of a call do one after the other,
that the schema admits each of them on what the ones before left, and that the last
one completes exactly the abstract edit or finalization. `CallsOK` says that whoever
holds the lock is between its check and its commit, or gone; that its transaction sees
the committed tables with its own first statements, all of them if the database may
still commit it (`Complete`); and that what it expects is what is committed. So what is
published, by a commit or by the database alone, is one whole call
(`CompletePublishes`). That no edit is made twice rests on the versions: an edit that
took effect left a version above the one its caller expects, with the caller's event
after it (`AskedOnce`, kept by `CompleteIsSettled`), so the caller that asks again is
refused, and `AnswersTrue` follows.

**Access and credentials** (`SecurityProofs`). Types are inductive
here. What makes the audit frame's question enough is that it is the same as
`hasPermission`'s (`ManagersCanManage`) and that every step that could take a
manager away asks it (`AdministratorSteps`); before the bootstrap the built-in role
must still have its permission. The other theorems go through a summary of what
one step does to a session, a token and an account (`EveryStepSummary`), proved
once with a step per action. `LiveAccess` then says that whatever is unrevoked or
open belongs to an active user, which is why enabling a user revives nothing, and
that a user has at most one open token, which is why redeeming need not close
others. `EarlierCountsMore` is the reason why counting sessions as of a time too
early is safe: it counts too many. `ChangesNameTheOwner` ties a call in progress to
the session it was made with. `ScopesExist` keeps assignments within what exists,
so that creating a project gives nobody rights in anything older.
`GuessInvariant` ties the failure count to the history of wrong passwords: unlocked, it
is the number of guesses since the last reset modulo `FailureLimit`, locked, that number
is a multiple of the limit and the lock ends `LockoutTime` after the last guess. As the
limit is any positive number, `CountingOn` derives what the remainder does on the next
guess from the uniqueness of remainders.

Only model-checked:

* `NothingWaitsForever`: liveness is out of the prover's reach.
* `UndoRefusedOnlyForOrphans`: it says when an action is enabled, and `ENABLED` is out of
  its reach too.
* Everything about Merkle trees (`sealed_trees`): the tree's operators are recursive, and
  the prover has no backend for modules that declare such operators.
* `StaleReplacementsAreRejected`, which is violated.

## 5. Not modelled, and what is left

* **LoginThrottle** – two sliding windows of attempt times in the memory of one
  process, without persistence or interaction; its unit tests reach what a model
  would.
* **Model codec** – the canonical bytes of hydraulic records: data layout without
  control.
* **HTTP service and routes** – parsing, limits, headers and listening around library
  calls. What their reads before the transaction can do to a later call is
  `EditingClients` and the unlocked reads of the merge and login models.
* **Administration tool, configuration, profiling** – command-line and file parsing.
* **Hash chains and manifests** of revisions and audit events – byte formats whose
  verification recomputes them.
* **Distributed repositories, snippet library** – announced by the documentation,
  absent from the code.

Worth doing next: the hydraulic indexes composed with merges; permissions asked for before and under the lock, composed with the store.

## 6. Running

`tlc -workers 2 -config MCBranches.cfg MCRevisionStore` (module and configuration
of each run are in `PROJECT.json`), and `tlapm M.tla` for `M` each of
`RevisionStoreProofs`, `HistoryProofs`, `UndoProofs`, `SnapshotProofs`,
`MergeProofs`, `SecurityProofs`, `WriteTransactionProofs` and `HydraulicProofs`.
