----------------------------- MODULE SealedTrees -----------------------------
(***************************************************************************)
(* Object models kept as Merkle trees: how revisions are sealed into roots *)
(* and read back from them (revision_root.cpp over merkle_tree.cpp and     *)
(* content_store.cpp).  A record is the encoding of one object's kind,     *)
(* version, deletion mark and bytes; what it encodes is left out here.     *)
(*                                                                         *)
(* The rows are immutable to the program.  The fault modelled is that of   *)
(* the storage under it: a row is lost, or its payload no longer hashes to *)
(* its key, the two cases that every read of a row checks for.             *)
(***************************************************************************)
EXTENDS MerkleUpdates

CONSTANTS Key,         \* the objects' UUIDs, as sequences of nibbles
          Record,      \* encoded object records
          Requests,    \* the sets of objects that are looked up together
          MaxSealed,   \* bound on the roots published
          MaxDamaged   \* bound on the rows that the storage damages

ASSUME KeysAreWhole == Key \subseteq [1 .. KeyLength -> Edge]

ASSUME RequestsAreKeys == Requests \subseteq SUBSET Key

VARIABLES
    content,   \* content_objects: whether each row still hashes to its key
    sealed,    \* the published roots, each with the model it must stand for
    damaged    \* the rows that the storage has damaged or lost

sealedVars == <<content, sealed, damaged>>

\* A model gives each key a record, or NoDigest when the object is not there.
EmptyModel == [k \in Key |-> NoDigest]

BlobOf(record) == IF record = NoDigest THEN NoDigest ELSE BlobDigest(record)

Present(model) == {k \in Key : model[k] # NoDigest}

Blobs(model) == [k \in Present(model) |-> BlobDigest(model[k])]

-----------------------------------------------------------------------------
(* Reading a root (revision_root.cpp).                                     *)

ReadRevisionObject(rows, root, key) ==
    LET digest == Lookup(rows, root, key)
    IN  IF digest \in {Failed, NoDigest} THEN digest ELSE Get(rows, "blob", digest)

\* The records of a mapping from keys to digests, all of them or an error.
ReadEntries(rows, mapping) ==
    IF mapping = Failed THEN Failed
    ELSE IF GetMany(rows, "blob", Range(mapping)) = Failed THEN Failed
    ELSE [k \in DOMAIN mapping |-> Payload(mapping[k])]

ReadRevisionObjects(rows, root) == ReadEntries(rows, Entries(rows, root))

\* Every requested object must be there.
ReadRevisionObjectsSelected(rows, root, requested) ==
    LET found == LookupMany(rows, root, requested)
    IN  IF found = Failed THEN Failed
        ELSE IF DOMAIN found # requested THEN Failed
        ELSE ReadEntries(rows, found)

\* Is the model exactly the one a root stands for?
VerifyWorkingObjectsAgainstRoot(rows, model, root) ==
    LET entries == Entries(rows, root)
    IN  /\ entries # Failed
        /\ entries = Blobs(model)
        /\ \A k \in Present(model) :
              Get(rows, "blob", BlobDigest(model[k])) = model[k]

\* A mistaken VerifyRevisionRootCached: only the nodes are read, the blobs are taken on trust.
VerifyNodesOnly(rows, root, cache) ==
    LET scan == ScanBatched(rows, root, cache.nodes)
    IN  IF scan = Failed THEN Failed
        ELSE [nodes |-> scan.verified, blobs |-> {x[2] : x \in scan.entries}]

\* One root of a verification that reads each node and each blob once.
VerifyRevisionRootCached(rows, root, cache) ==
    LET scan  == ScanBatched(rows, root, cache.nodes)
        blobs == {x[2] : x \in scan.entries} \ cache.blobs
    IN  IF scan = Failed THEN Failed
        ELSE IF GetMany(rows, "blob", blobs) = Failed THEN Failed
        ELSE [nodes |-> scan.verified, blobs |-> cache.blobs \cup blobs]

VerifyRoots(rows, roots) ==
    FoldLeft(LAMBDA cache, root :
                IF cache = Failed THEN Failed
                ELSE VerifyRevisionRootCached(rows, root, cache),
             [nodes |-> {}, blobs |-> {}], roots) # Failed

-----------------------------------------------------------------------------
(* The program publishes roots.                                            *)

Init ==
    /\ content = [d \in {} |-> "intact"]
    /\ sealed = <<>>
    /\ damaged = {}

\* A failed operation is rolled back.
Publish(result, model) ==
    /\ Len(sealed) < MaxSealed
    /\ result # Failed
    /\ content' = result.content
    /\ sealed' = Append(sealed, [root |-> result.digest, model |-> model])
    /\ UNCHANGED damaged

\* buildRevisionRoot(): the touched rows are put as blobs, then the tree is
\* built from them, or they are applied to the root that was inherited.
BuildRevisionRoot(rows, base, changes) ==
    LET stored == PutMany(rows, "blob", Range(changes))
    IN  IF stored = Failed THEN Failed
        ELSE IF base = NoDigest THEN Build(stored, changes, TRUE)
        ELSE Apply(stored, base, changes)

FirstSeal(records) ==
    Publish(BuildRevisionRoot(content, NoDigest,
                              [k \in DOMAIN records |-> BlobDigest(records[k])]),
            records @@ EmptyModel)

Seal(i, records) ==
    Publish(BuildRevisionRoot(content, sealed[i].root,
                              [k \in DOMAIN records |-> BlobDigest(records[k])]),
            records @@ sealed[i].model)

\* The tree's own interface also deletes, and takes blobs stored before.
ApplyBatch(i, changes) ==
    Publish(Apply(content, sealed[i].root,
                  [k \in DOMAIN changes |-> BlobOf(changes[k])]),
            changes @@ sealed[i].model)

UpdateOne(i, key, record) ==
    Publish(Update(content, sealed[i].root, key, BlobOf(record)),
            [sealed[i].model EXCEPT ![key] = record])

BuildWhole(model) ==
    Publish(Build(content, Blobs(model), FALSE), model)

\* The storage fails: a payload changes under its key, or a row is gone.
Damage(digest) ==
    /\ content[digest] = "intact"
    /\ Cardinality(damaged) < MaxDamaged
    /\ content' = [content EXCEPT ![digest] = "damaged"]
    /\ damaged' = damaged \cup {digest}
    /\ UNCHANGED sealed

Lose(digest) ==
    /\ Cardinality(damaged) < MaxDamaged
    /\ content' = Restrict(content, DOMAIN content \ {digest})
    /\ damaged' = damaged \cup {digest}
    /\ UNCHANGED sealed

Models == [Key -> Record \cup {NoDigest}]

Next ==
    \/ \E keys \in SUBSET Key : \E records \in [keys -> Record] :
          \/ FirstSeal(records)
          \/ \E i \in DOMAIN sealed : Seal(i, records)
    \/ \E i \in DOMAIN sealed :
          \/ \E keys \in SUBSET Key :
                \E changes \in [keys -> Record \cup {NoDigest}] : ApplyBatch(i, changes)
          \/ \E key \in Key, record \in Record \cup {NoDigest} :
                UpdateOne(i, key, record)
    \/ \E model \in Models : BuildWhole(model)
    \/ \E digest \in DOMAIN content : Damage(digest) \/ Lose(digest)

Spec == Init /\ [][Next]_sealedVars

-----------------------------------------------------------------------------
(* What the trees must be.                                                 *)

\* The rows that a root needs.
Needed(root) ==
    LET nodes == TreeNodes(root)
    IN  nodes \cup ({Payload(d).value : d \in nodes} \ {NoDigest})

Intact(root) ==
    \A d \in Needed(root) : d \in DOMAIN content /\ content[d] = "intact"

\* A root depends on the model alone: however a tree was split, merged and
\* rewritten to get there, update(), apply() and build() give the root that a
\* bulk build of the same entries gives ("Roots match apply(emptyRoot(),
\* changes)", merkle_tree.h).
RootsAreCanonical ==
    \A i \in DOMAIN sealed :
        sealed[i].root = IF sealed[i].model = EmptyModel THEN TreeDigest(EmptyNode)
                         ELSE BuildRange(Blobs(sealed[i].model), 0)

\* Truth, or an error, and an error only when a row is damaged: every way of
\* reading a root gives the records of its model (lookup(), lookupMany(),
\* entries() and the readers of revision_root.cpp).
TrueOrDamaged(root, answer, truth) ==
    \/ answer = truth
    \/ answer = Failed /\ ~Intact(root)

RootsReadBack ==
    \A i \in DOMAIN sealed :
        LET root  == sealed[i].root
            model == sealed[i].model
        IN  /\ TrueOrDamaged(root, ReadRevisionObjects(content, root),
                             Restrict(model, Present(model)))
            /\ \A k \in Key :
                  TrueOrDamaged(root, ReadRevisionObject(content, root, k), model[k])
            /\ \A keys \in Requests :
                  /\ TrueOrDamaged(root, LookupMany(content, root, keys),
                                   Restrict(Blobs(model), keys \cap Present(model)))
                  /\ TrueOrDamaged(root,
                         ReadRevisionObjectsSelected(content, root, keys),
                         IF keys \subseteq Present(model)
                         THEN Restrict(model, keys) ELSE Failed)

\* A verification of all roots that reads shared nodes and blobs only once
\* still finds every damaged row, as the inventory of each root does, and
\* finds nothing wrong otherwise (verifyRevisionRootCached()).
VerificationFindsDamage ==
    /\ VerifyRoots(content, [i \in DOMAIN sealed |-> sealed[i].root])
          <=> (\A i \in DOMAIN sealed : Intact(sealed[i].root))
    /\ \A i \in DOMAIN sealed :
          LET root == sealed[i].root
          IN  /\ (ContentInventory(content, root) # Failed) <=> Intact(root)
              /\ \A j \in DOMAIN sealed :
                    VerifyWorkingObjectsAgainstRoot(content, sealed[j].model, root)
                        <=> (Intact(root) /\ sealed[i].model = sealed[j].model)

\* The difference of two roots is the difference of their models, although
\* the walk skips subtrees it finds in both and the two trees are compressed
\* differently; damage where it walks is an error, never another difference.
DifferencesAreExact ==
    \A i, j \in DOMAIN sealed :
        LET before == sealed[i].model
            after  == sealed[j].model
            answer == Diff(content, sealed[i].root, sealed[j].root)
        IN  \/ answer = {[key |-> k, before |-> BlobOf(before[k]),
                          after |-> BlobOf(after[k])] :
                            k \in {k \in Key : before[k] # after[k]}}
            \/ /\ answer = Failed
               /\ ~(Intact(sealed[i].root) /\ Intact(sealed[j].root))

\* Every row that a published root needs is stored, those it shares with
\* older roots included, and nothing is stored that no root needs ("only
\* nodes reachable from the final root are stored", merkle_tree.h).
StoreHoldsTheRoots ==
    LET needed == UNION {Needed(sealed[i].root) : i \in DOMAIN sealed}
    IN  /\ DOMAIN content \subseteq needed
        /\ needed \ damaged \subseteq {d \in DOMAIN content : content[d] = "intact"}

=============================================================================
