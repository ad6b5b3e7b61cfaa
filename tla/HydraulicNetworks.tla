------------------------- MODULE HydraulicNetworks -------------------------
(***************************************************************************)
(* Typed hydraulic networks in the working rows of one branch: a root row  *)
(* that lists the entities of a network, the entities' own rows, and two   *)
(* indexes derived from them, who owns an entity and what refers to what   *)
(* (model_persistence.cpp, model_validation.cpp).                          *)
(*                                                                         *)
(* Every edit is checked before it commits, most of the time without       *)
(* loading the network: the two shortcuts below decide from the touched    *)
(* rows and the indexes alone.  Versions, generations and permissions are  *)
(* those of ObjectJournal: a stale caller is refused there.                *)
(***************************************************************************)
EXTENDS Naturals, Sequences, FiniteSets

CONSTANTS
    Uuid,
    KindOf,         \* the kind of the object stored under a UUID; it never changes
    Edits,          \* the groups of edits callers may commit: contents or Gone by UUID
    Network,        \* the networks callers may save
    Import,         \* the rows a new working revision may start from
    Null,           \* the null UUID
    Absent, Gone,   \* no row, and a tombstone
    NoEvent,        \* no journal event in this revision
    OutOfRange,     \* a demand point's position that is not between 0 and 1
    MaxIncremental, \* max_incremental_entities
    MaxEdits        \* bound on the groups of a stack

ASSUME NullIsNoUuid == Null \notin Uuid

VARIABLES
    rows,         \* revision_objects: content, tombstone or no row
    members,      \* hydraulic_network_members: the owner of each entity
    references,   \* hydraulic_network_references
    before,       \* the before_content of an object's last event
    applied, undone   \* the groups in effect and the groups undone

hydraulicVars == <<rows, members, references, before, applied, undone>>

-----------------------------------------------------------------------------
(* Contents.  refs maps each reference field an object has to a UUID or    *)
(* Null, data stands for all its other fields, members is what a root      *)
(* lists.                                                                  *)

Nodes == {"junction", "reservoir", "tank"}

\* The kinds a field may refer to.
AllowedKinds ==
    [from |-> Nodes, to |-> Nodes, material |-> {"pipe_material"},
     pipe |-> {"pipe"}, assigned |-> {"junction"}, junction |-> {"junction"},
     pattern |-> {"pattern_time"}]

AttachmentFields == {"pipe", "assigned", "junction"}

EntityKinds == Nodes \cup {"pipe", "pump", "valve", "demand_point",
                           "pipe_material", "pattern_time"}

Roots == {u \in Uuid : KindOf[u] = "network"}

Live(stored, u) == stored[u] \notin {Absent, Gone}

LiveRoots(stored) == {n \in Roots : Live(stored, n)}

\* The references an object makes, and those of a network, its root's included.
OutgoingReferences(u, content) ==
    {<<u, f, content.refs[f]>> : f \in {g \in DOMAIN content.refs :
                                           content.refs[g] # Null}}

HydraulicReferences(stored, n) ==
    UNION {OutgoingReferences(u, stored[u]) : u \in stored[n].members \cup {n}}

EndpointsOf(pipe) == {pipe.refs.from, pipe.refs.to}

\* validateHydraulicNetwork: every reference resolves inside the network to an
\* object of a kind its field allows, and the junction that is assigned the
\* demand of a point on a pipe is an end of the pipe.  References may be null.
ValidateHydraulicNetwork(stored, n) ==
    /\ \A ref \in HydraulicReferences(stored, n) :
          ref[3] \in stored[n].members /\ KindOf[ref[3]] \in AllowedKinds[ref[2]]
    /\ \A u \in stored[n].members :
          KindOf[u] = "demand_point" /\ "pipe" \in DOMAIN stored[u].refs =>
              /\ stored[u].data # OutOfRange
              /\ /\ "assigned" \in DOMAIN stored[u].refs
                 /\ Null \notin {stored[u].refs.pipe, stored[u].refs.assigned}
                 => stored[u].refs.assigned \in EndpointsOf(stored[stored[u].refs.pipe])

\* loadHydraulicNetwork succeeds: the root and all it lists are there.
Loads(stored, n) ==
    /\ Live(stored, n)
    /\ \A u \in stored[n].members : Live(stored, u) /\ KindOf[u] \in EntityKinds

-----------------------------------------------------------------------------
(* The indexes.                                                            *)

MembersOf(n) == {u \in Uuid : members[u] = n}

NewMembers(stored, n) == IF Live(stored, n) THEN stored[n].members ELSE {}

\* The members after the lists of the given roots were written anew.  The
\* primary key of the table admits one owner of an entity.
OneOwner(stored, changed) ==
    \A n \in changed : \A u \in NewMembers(stored, n) :
        /\ members[u] \in changed \cup {Null}
        /\ \A m \in changed \ {n} : u \notin NewMembers(stored, m)

ReplaceNetworkMembership(stored, changed) ==
    [u \in Uuid |->
        IF \E n \in changed : u \in NewMembers(stored, n)
        THEN CHOOSE n \in changed : u \in NewMembers(stored, n)
        ELSE IF members[u] \in changed THEN Null ELSE members[u]]

NetworkReferences(stored, n) ==
    {<<n, ref>> : ref \in HydraulicReferences(stored, n)}

ReplaceHydraulicReferences(stored, networks) ==
    {entry \in references : entry[1] \notin networks}
        \cup UNION {NetworkReferences(stored, n) : n \in networks \cap LiveRoots(stored)}

\* rebuildWorkingHydraulicIndexes computes both from the rows of a new branch.
RebuiltMembers(stored) ==
    [u \in Uuid |->
        IF \E n \in LiveRoots(stored) : u \in stored[n].members
        THEN CHOOSE n \in LiveRoots(stored) : u \in stored[n].members
        ELSE Null]

RebuiltReferences(stored) ==
    UNION {NetworkReferences(stored, n) : n \in LiveRoots(stored)}

RebuildSucceeds(stored) ==
    /\ \A n \in LiveRoots(stored) : Loads(stored, n)
    /\ \A m, n \in LiveRoots(stored) :
          m # n => stored[m].members \cap stored[n].members = {}

-----------------------------------------------------------------------------
(* Validation of an edit.  stored are the rows the transaction has written, *)
(* prior what each touched object's last journal event says was there.     *)

\* The reference fields are the same, so is what they refer to.
SameOutgoingReferences(old, new) == old.refs = new.refs

\* referenceNeutralEntityEdit: nothing that validation looks at has changed.
\* Roots and objects of an unknown kind are never neutral.
ReferenceNeutralEntityEdit(kind, old, new) ==
    /\ kind \in EntityKinds
    /\ SameOutgoingReferences(old, new)
    /\ kind = "demand_point" /\ "pipe" \in DOMAIN new.refs => new.data # OutOfRange

CanSkipHydraulicRevalidation(stored, prior, u) ==
    /\ Live(stored, u)
    /\ prior[u] \notin {NoEvent, Absent, Gone}
    /\ ReferenceNeutralEntityEdit(KindOf[u], prior[u], stored[u])

LocallyOwnedObject(stored, n, u) == members[u] = n /\ Live(stored, u)

LocalTargetType(stored, n, target, field) ==
    target # Null => /\ LocallyOwnedObject(stored, n, target)
                     /\ KindOf[target] \in AllowedKinds[field]

LocalTargets(stored, n, content, fields) ==
    \A f \in fields \cap DOMAIN content.refs :
        LocalTargetType(stored, n, content.refs[f], f)

LocalDemandPointConstraints(stored, n, point) ==
    /\ LocalTargets(stored, n, point, AttachmentFields)
    /\ "pipe" \in DOMAIN point.refs =>
          /\ point.data # OutOfRange
          /\ /\ "assigned" \in DOMAIN point.refs
             /\ Null \notin {point.refs.pipe, point.refs.assigned}
             => point.refs.assigned \in EndpointsOf(stored[point.refs.pipe])

\* A mistaken AttachedTo: the points that were not edited are left unchecked.
NoneAttached(pipe) == {}

\* The demand points that the index knows to be attached to a pipe.
AttachedTo(pipe) == {entry \in references : entry[2][2] = "pipe" /\ entry[2][3] = pipe}

ChangedPipes(stored, prior, touched) ==
    {u \in touched : KindOf[u] = "pipe" /\ EndpointsOf(prior[u]) # EndpointsOf(stored[u])}

\* checkLocalPipeAndAttachments accepts: links with new ends and resources, and
\* demand points with new attachments, whose targets the network owns.
CheckLocalPipeAndAttachments(stored, prior, touched) ==
    /\ \A u \in touched :
          /\ Live(stored, u) /\ members[u] # Null
          /\ prior[u] \notin {NoEvent, Absent, Gone}
          /\ KindOf[u] \in {"pipe", "pump", "valve", "demand_point"}
          /\ IF KindOf[u] = "demand_point"
             THEN /\ {ref \in OutgoingReferences(u, prior[u]) : ref[2] \notin AttachmentFields}
                       = {ref \in OutgoingReferences(u, stored[u]) : ref[2] \notin AttachmentFields}
                  /\ LocalDemandPointConstraints(stored, members[u], stored[u])
             ELSE LocalTargets(stored, members[u], stored[u], DOMAIN stored[u].refs)
    /\ \A pipe \in ChangedPipes(stored, prior, touched) : \A entry \in AttachedTo(pipe) :
          LET point == entry[2][1] IN
          /\ LocallyOwnedObject(stored, entry[1], point)
          /\ KindOf[point] = "demand_point"
          /\ LocalDemandPointConstraints(stored, entry[1], stored[point])

\* A mistaken updateLocalReferenceSource: the old references stay.
AddedReferenceSources(stored, touched) ==
    references \cup UNION {{<<members[u], ref>> : ref \in OutgoingReferences(u, stored[u])} :
                              u \in touched}

\* updateLocalReferenceSource, for each touched object.
UpdateLocalReferenceSources(stored, touched) ==
    {entry \in references : \lnot (entry[2][1] \in touched /\ members[entry[2][1]] = entry[1])}
        \cup UNION {{<<members[u], ref>> : ref \in OutgoingReferences(u, stored[u])} :
                       u \in touched}

ChangedRoots(touched) == touched \cap Roots

Affected(touched) ==
    ChangedRoots(touched) \cup {members[u] : u \in {v \in touched : members[v] # Null}}

\* A root may drop an entity only if the entity is deleted, or another changed
\* root takes it over.
Detaches(stored, touched) ==
    \E n \in ChangedRoots(touched) : \E u \in MembersOf(n) :
        /\ \A m \in ChangedRoots(touched) : u \notin NewMembers(stored, m)
        /\ Live(stored, u)

Incremental(touched) ==
    /\ ChangedRoots(touched) = {}
    /\ Affected(touched) # {}
    /\ Cardinality(touched) <= MaxIncremental

Skips(stored, prior, touched) ==
    \A u \in touched : members[u] # Null /\ CanSkipHydraulicRevalidation(stored, prior, u)

\* The full check of every network touched that still has a root.
ValidatesFully(stored, touched) ==
    \A n \in Affected(touched) :
        \/ n \in ChangedRoots(touched) /\ ~Live(stored, n)
        \/ Loads(stored, n) /\ ValidateHydraulicNetwork(stored, n)

\* validateTouchedHydraulicNetworks: what becomes of the indexes when the rows
\* stored are to be committed.
ValidateTouchedHydraulicNetworks(stored, prior, touched) ==
    /\ ~Detaches(stored, touched)
    /\ \/ /\ Incremental(touched) /\ Skips(stored, prior, touched)
          /\ UNCHANGED <<members, references>>
       \/ /\ Incremental(touched) /\ ~Skips(stored, prior, touched)
          /\ CheckLocalPipeAndAttachments(stored, prior, touched)
          /\ references' = UpdateLocalReferenceSources(stored, touched)
          /\ UNCHANGED members
       \/ /\ ~ /\ Incremental(touched)
               /\ \/ Skips(stored, prior, touched)
                  \/ CheckLocalPipeAndAttachments(stored, prior, touched)
          /\ ValidatesFully(stored, touched)
          /\ OneOwner(stored, ChangedRoots(touched))
          /\ references' = ReplaceHydraulicReferences(stored, Affected(touched))
          /\ members' = ReplaceNetworkMembership(stored, ChangedRoots(touched))

-----------------------------------------------------------------------------
(* The operations.                                                         *)

Init ==
    /\ rows \in Import
    /\ members = RebuiltMembers(rows)
    /\ references = RebuiltReferences(rows)
    /\ before = [u \in Uuid |-> NoEvent]
    /\ applied = <<>> /\ undone = <<>>

\* What an object lists and refers to has a UUID.
IsObject(content) ==
    /\ content.members \subseteq Uuid
    /\ \A f \in DOMAIN content.refs : content.refs[f] \in Uuid \cup {Null}

ASSUME InputsAreObjects ==
    /\ \A edits \in Edits :
          /\ DOMAIN edits \subseteq Uuid
          /\ \A u \in DOMAIN edits : edits[u] = Gone \/ IsObject(edits[u])
    /\ \A net \in Network :
          /\ DOMAIN net.rows \subseteq Uuid
          /\ \A u \in DOMAIN net.rows : Live(net.rows, u) /\ IsObject(net.rows[u])
    /\ \A stored \in Import :
          /\ stored = [u \in Uuid |-> stored[u]]
          /\ \A u \in Uuid : Live(stored, u) => IsObject(stored[u])

\* A branch is created from a finalized revision, whose rows are those some
\* working revision had at the end, and only if the indexes can be rebuilt.
ASSUME ImportsAreValid ==
    \A stored \in Import :
        /\ RebuildSucceeds(stored)
        /\ \A n \in LiveRoots(stored) : ValidateHydraulicNetwork(stored, n)

\* What an edit of each object in the group's domain leaves.
Written(edits) ==
    [u \in Uuid |-> IF u \in DOMAIN edits THEN edits[u] ELSE rows[u]]

\* modifyObjectInTransaction refuses an edit that changes nothing.
Modifies(edits) ==
    \A u \in DOMAIN edits :
        edits[u] # rows[u] /\ (edits[u] = Gone => rows[u] # Absent)

Journaled(edits) ==
    [u \in Uuid |-> IF u \in DOMAIN edits THEN rows[u] ELSE before[u]]

GroupOf(edits) ==
    [u \in DOMAIN edits |-> [from |-> rows[u], to |-> edits[u]]]

\* The edits are checked, written and journaled.
WriteEdits(edits) ==
    /\ ValidateTouchedHydraulicNetworks(Written(edits), Journaled(edits), DOMAIN edits)
    /\ rows' = Written(edits)
    /\ before' = Journaled(edits)

\* commitObjectGroup, and putObject and deleteObject as groups of one.
CommitObjectGroup(edits) ==
    /\ Modifies(edits)
    /\ WriteEdits(edits)
    /\ applied' = Append(applied, GroupOf(edits))
    /\ undone' = <<>>

Last(stack) == stack[Len(stack)]

Butlast(stack) == SubSeq(stack, 1, Len(stack) - 1)

\* A mistaken undo: the roots keep what the group made them list.
UndoingEntities(group) ==
    [u \in DOMAIN group \ Roots |->
        IF group[u].from = Absent THEN Gone ELSE group[u].from]

\* The edits that take a group back, and those that make it again.  What was
\* absent becomes a tombstone.
Undoing(group) ==
    [u \in DOMAIN group |-> IF group[u].from = Absent THEN Gone ELSE group[u].from]

Redoing(group) == [u \in DOMAIN group |-> group[u].to]

\* The objects are as the group, or its undoing, left them.
AsLeftBy(edits) == \A u \in DOMAIN edits : rows[u] = edits[u]

UndoObjectGroup ==
    /\ applied # <<>>
    /\ AsLeftBy(Redoing(Last(applied)))
    /\ WriteEdits(Undoing(Last(applied)))
    /\ applied' = Butlast(applied)
    /\ undone' = Append(undone, Last(applied))

RedoObjectGroup ==
    /\ undone # <<>>
    /\ AsLeftBy(Undoing(Last(undone)))
    /\ WriteEdits(Redoing(Last(undone)))
    /\ undone' = Butlast(undone)
    /\ applied' = Append(applied, Last(undone))

-----------------------------------------------------------------------------
(* Saving a whole network.                                                 *)

\* A network as a caller gives it: the contents of its root and of its entities.
WellFormed(net) ==
    /\ KindOf[net.uuid] = "network"
    /\ DOMAIN net.rows = net.rows[net.uuid].members \cup {net.uuid}
    /\ net.uuid \notin net.rows[net.uuid].members
    /\ \A u \in net.rows[net.uuid].members : KindOf[u] \in EntityKinds
    /\ ValidateHydraulicNetwork(net.rows, net.uuid)

OldIds(n) == NewMembers(rows, n)

\* The incoming UUIDs whose owner the index join did not prove.
OwnershipToCheck(n, incoming) ==
    IF OldIds(n) = {} THEN incoming
    ELSE (incoming \ OldIds(n)) \cup {u \in OldIds(n) : members[u] # n}

\* What saving the network edits: what differs, and what it no longer lists.
SavingEdits(net) ==
    [u \in {v \in DOMAIN net.rows : rows[v] # net.rows[v]}
              \cup (OldIds(net.uuid) \ DOMAIN net.rows)
       |-> IF u \in DOMAIN net.rows THEN net.rows[u] ELSE Gone]

\* fetchObjectsForNetworkSave: the incoming UUIDs under which something is
\* stored, a tombstone included.
Existing(ids) == {u \in ids : rows[u] # Absent}

\* An incoming UUID is the network's own or has never been stored; a tombstone
\* of an entity that was removed cannot be saved again.
MayBeSaved(net) == Existing(DOMAIN net.rows) \subseteq OldIds(net.uuid) \cup {net.uuid}

FreshNetwork(net) == OldIds(net.uuid) = {} /\ Existing(DOMAIN net.rows) = {}

\* insertFreshNetworkObjects: the rows and their events, unread.
InsertFreshNetworkObjects(net) ==
    /\ rows' = Written(net.rows)
    /\ before' = Journaled(net.rows)
    /\ applied' = Append(applied, GroupOf(net.rows))

\* insertFreshNetworkMembership: every object of the events just written.
InsertFreshNetworkMembership(net) ==
    members' = [u \in Uuid |-> IF u \in DOMAIN net.rows \ {net.uuid}
                               THEN net.uuid ELSE members[u]]

\* insertFreshHydraulicReferences: nothing to remove.
InsertFreshHydraulicReferences(net) ==
    references' = references \cup NetworkReferences(net.rows, net.uuid)

\* A network of which something is stored: what differs is edited, and the
\* indexes follow.
UpdateNetwork(net) ==
    LET n == net.uuid  edits == SavingEdits(net)  stored == Written(edits) IN
    /\ MayBeSaved(net)
    /\ \A u \in OldIds(n) \ DOMAIN net.rows : Live(rows, u)
    /\ DOMAIN edits # {}
    /\ rows' = stored
    /\ before' = Journaled(edits)
    /\ IF OldIds(n) = stored[n].members THEN UNCHANGED members
       ELSE /\ OneOwner(stored, {n})
            /\ members' = ReplaceNetworkMembership(stored, {n})
    /\ references' = ReplaceHydraulicReferences(stored, {n})
    /\ applied' = Append(applied, GroupOf(edits))

SaveHydraulicNetwork(net) ==
    /\ WellFormed(net)
    /\ \A u \in OwnershipToCheck(net.uuid, DOMAIN net.rows) : members[u] \in {net.uuid, Null}
    /\ \/ /\ FreshNetwork(net)
          /\ InsertFreshNetworkObjects(net)
          /\ InsertFreshNetworkMembership(net)
          /\ InsertFreshHydraulicReferences(net)
       \/ ~FreshNetwork(net) /\ UpdateNetwork(net)
    /\ undone' = <<>>

-----------------------------------------------------------------------------
(* Revisions and branches.                                                 *)

\* finalize: the branch keeps its rows and indexes, the new working revision
\* has a journal of its own.
Finalize ==
    /\ before' = [u \in Uuid |-> NoEvent]
    /\ applied' = <<>> /\ undone' = <<>>
    /\ UNCHANGED <<rows, members, references>>

\* createBranch from the finalized revision, followed on the new branch.
CreateBranch ==
    /\ applied = <<>> /\ undone = <<>>
    /\ RebuildSucceeds(rows)
    /\ members' = RebuiltMembers(rows)
    /\ references' = RebuiltReferences(rows)
    /\ UNCHANGED <<rows, before, applied, undone>>

Next ==
    \/ /\ Len(applied) < MaxEdits
       /\ \/ \E net \in Network : SaveHydraulicNetwork(net)
          \/ \E edits \in Edits : CommitObjectGroup(edits)
    \/ UndoObjectGroup
    \/ RedoObjectGroup
    \/ Finalize
    \/ CreateBranch

Spec == Init /\ [][Next]_hydraulicVars

-----------------------------------------------------------------------------
(* What the shortcuts have to keep.                                        *)

\* The indexes kept edit by edit are those a new branch computes from the same
\* rows, and no entity is listed by two networks: the incremental updates of
\* updateLocalReferenceSource and replaceNetworkMembership miss nothing.
IndexesMatchRows ==
    /\ RebuildSucceeds(rows)
    /\ members = RebuiltMembers(rows)
    /\ references = RebuiltReferences(rows)

\* Whatever shortcut accepted the last edit, save, undo or redo, every network
\* passes the full validateHydraulicNetwork.
NetworksStayValid ==
    \A n \in LiveRoots(rows) : Loads(rows, n) /\ ValidateHydraulicNetwork(rows, n)

\* The group leaves a live entity of a network in no network.
Orphans(edits) ==
    \E u \in Uuid :
        /\ Live(Written(edits), u)
        /\ \E n \in LiveRoots(rows) : u \in rows[n].members
        /\ \A n \in LiveRoots(Written(edits)) : u \notin Written(edits)[n].members

\* The group on top of a stack can be taken back, or made again, for the rows are
\* as it left them and what it restores was valid.  One thing refuses it: a root
\* that adopted an object stored before would leave it an orphan.
UndoRefusedOnlyForOrphans ==
    /\ applied # <<>> => ENABLED UndoObjectGroup \/ Orphans(Undoing(Last(applied)))
    /\ undone # <<>> => ENABLED RedoObjectGroup \/ Orphans(Redoing(Last(undone)))

=============================================================================
