---------------------------- MODULE MerkleUpdates ----------------------------
(***************************************************************************)
(* How a new root is made (merkle_tree.cpp): one key at a time, as a whole *)
(* from all entries, or by a batch of changes to an older root.  The three *)
(* ways split, merge and share nodes differently.                          *)
(*                                                                         *)
(* An operation answers Failed, or the digest of the new root with the     *)
(* rows stored after it.                                                   *)
(***************************************************************************)
EXTENDS MerkleTree

-----------------------------------------------------------------------------
(* update: one key, one node written per level on the way back up.         *)

Saved(content, node, depth) ==
    IF ~ValidShape(node, depth) THEN Failed
    ELSE LET stored == Put(content, "tree", TreeDigest(node))
         IN  IF stored = Failed THEN Failed
             ELSE [digest |-> TreeDigest(node), content |-> stored]

Unchanged(content, digest) == [digest |-> digest, content |-> content]

\* The key leaves the prefix of a node: two nodes under a new fork.
Split(content, node, key, depth, common, value) ==
    LET fork == depth + common
        old  == Saved(content, [node EXCEPT !.prefix = Mid(@, common + 1)],
                      fork + 1)
        new  == IF old = Failed THEN Failed
                ELSE Saved(old.content, Leaf(key, fork + 1, value), fork + 1)
    IN  IF new = Failed THEN Failed
        ELSE Saved(new.content,
                   Fork(Left(node.prefix, common),
                        (node.prefix[common + 1] :> old.digest)
                            @@ (key[fork + 1] :> new.digest)),
                   depth)

\* A branch whose child at edge became the given digest.
Rejoined(content, node, depth, children) ==
    LET only  == CHOOSE e \in DOMAIN children : TRUE
        child == Read(content, children[only], depth + Len(node.prefix) + 1)
    IN  CASE children = NoChildren -> Unchanged(content, NoDigest)
          [] Cardinality(DOMAIN children) = 1 ->
               IF child = Failed THEN Failed
               ELSE Saved(content, Compacted(node.prefix, only, child), depth)
          [] OTHER -> Saved(content, [node EXCEPT !.children = children], depth)

\* An existing key gets another value, or none.
ChangeLeaf(content, current, node, depth, value) ==
    IF value = node.value THEN Unchanged(content, current)
    ELSE IF value = NoDigest THEN Unchanged(content, NoDigest)
    ELSE Saved(content, [node EXCEPT !.value = value], depth)

\* A key with no node on its path: only a write changes anything.
Insert(content, current, value, inserted) ==
    IF value = NoDigest THEN Unchanged(content, current) ELSE inserted

RECURSIVE ChangeSubtree(_, _, _, _, _)
ChangeSubtree(content, current, key, depth, value) ==
    LET node   == Read(content, current, depth)
        common == CommonPrefix(key, depth, node.prefix)
        next   == depth + Len(node.prefix)
        leaf   == Saved(content, Leaf(key, depth, value), depth)
        child  == Child(node.children, key[next + 1])
        below  == ChangeSubtree(content, child, key, next + 1, value)
    IN  IF current = NoDigest THEN Insert(content, current, value, leaf)
        ELSE IF node = Failed THEN Failed
        ELSE IF common < Len(node.prefix)
             THEN Insert(content, current, value,
                         Split(content, node, key, depth, common, value))
        ELSE IF next = KeyLength
             THEN ChangeLeaf(content, current, node, depth, value)
        ELSE IF node.children = NoChildren
             THEN Insert(content, current, value, leaf)
        ELSE IF below = Failed THEN Failed
        ELSE IF below.digest = child THEN Unchanged(content, current)
        ELSE Rejoined(below.content, node, depth,
                      WithChild(node.children, key[next + 1], below.digest))

\* An empty tree has a root of its own.
SavedRoot(changed) ==
    IF changed = Failed THEN Failed
    ELSE IF changed.digest = NoDigest THEN Saved(changed.content, EmptyNode, 0)
    ELSE changed

\* update(): the value must be the digest of a blob that can be read.
Update(content, root, key, value) ==
    IF value # NoDigest /\ Get(content, "blob", value) = Failed THEN Failed
    ELSE SavedRoot(ChangeSubtree(content, root, key, 0, value))

-----------------------------------------------------------------------------
(* build: the whole tree at once, bottom up, from sorted distinct keys.    *)
(* entries is a function from keys to the digests of blobs.                *)

Under(entries, depth, edge) ==
    Restrict(entries, {k \in DOMAIN entries : k[depth + 1] = edge})

\* The keys of a sorted range share what its first and its last key share.
SharedPrefix(keys, depth) ==
    LET first == FirstKey(keys)
    IN  Left(Mid(first, depth),
             CommonPrefix(LastKey(keys), depth, Mid(first, depth)))

\* The digest of a subtree; the digests of its nodes are TreeNodes of it.
RECURSIVE BuildRange(_, _)
BuildRange(entries, depth) ==
    LET keys   == DOMAIN entries
        key    == CHOOSE k \in keys : TRUE
        prefix == SharedPrefix(keys, depth)
        fork   == depth + Len(prefix)
        taken  == {k[fork + 1] : k \in keys}
    IN  IF Cardinality(keys) = 1
        THEN TreeDigest(Leaf(key, depth, entries[key]))
        ELSE TreeDigest(Fork(prefix,
               [e \in taken |-> BuildRange(Under(entries, fork, e), fork + 1)]))

RECURSIVE TreeNodes(_)
TreeNodes(digest) ==
    LET children == Payload(digest).children
    IN  {digest} \cup UNION {TreeNodes(children[e]) : e \in DOMAIN children}

\* build() and buildFromInsertedBlobs(), whose caller has just put the blobs.
Build(content, entries, verified) ==
    LET root   == BuildRange(entries, 0)
        stored == PutMany(content, "tree", TreeNodes(root))
    IN  IF DOMAIN entries = {} THEN Saved(content, EmptyNode, 0)
        ELSE IF \/ /\ ~verified
                   /\ GetMany(content, "blob", Range(entries)) = Failed
                \/ stored = Failed
        THEN Failed
        ELSE [digest |-> root, content |-> stored]

-----------------------------------------------------------------------------
(* apply: a batch of changes rewrites each subtree once.  New nodes are    *)
(* staged in memory; those the final root reaches are stored.  changes is  *)
(* a function from keys to digests, NoDigest for a deletion.               *)

Staged(staged, node, depth) ==
    IF ValidShape(node, depth)
    THEN [digest |-> TreeDigest(node), staged |-> staged \cup {TreeDigest(node)}]
    ELSE Failed

ReadBatch(content, staged, digest, depth) ==
    IF digest \in staged
    THEN Decode(Payload(digest), depth)
    ELSE Read(content, digest, depth)

BuildBatch(staged, changes, depth) ==
    LET entries == Restrict(changes,
                            {k \in DOMAIN changes : changes[k] # NoDigest})
        built   == BuildRange(entries, depth)
    IN  IF DOMAIN entries = {} THEN [digest |-> NoDigest, staged |-> staged]
        ELSE [digest |-> built, staged |-> staged \cup TreeNodes(built)]

FinishBatch(content, staged, node, depth) ==
    LET edge  == CHOOSE e \in DOMAIN node.children : TRUE
        child == ReadBatch(content, staged, node.children[edge],
                           depth + Len(node.prefix) + 1)
    IN  CASE node.children = NoChildren ->
               [digest |-> NoDigest, staged |-> staged]
          [] Cardinality(DOMAIN node.children) = 1 ->
               IF child = Failed THEN Failed
               ELSE Staged(staged, Compacted(node.prefix, edge, child), depth)
          [] OTHER -> Staged(staged, node, depth)

\* A mistaken Opened: the fork is placed where the first key leaves the prefix.
OpenedAtFirstKey(staged, node, depth, keys) ==
    LET common == CommonPrefix(FirstKey(keys), depth, node.prefix)
        suffix == Staged(staged, [node EXCEPT !.prefix = Mid(@, common + 1)],
                         depth + common + 1)
    IN  IF common = Len(node.prefix) THEN [node |-> node, staged |-> staged]
        ELSE IF suffix = Failed THEN Failed
        ELSE [node   |-> Fork(Left(node.prefix, common),
                              node.prefix[common + 1] :> suffix.digest),
              staged |-> suffix.staged]

\* The node to rewrite: a fork above the old suffix when changes leave the
\* prefix, else the node itself.
Opened(staged, node, depth, keys) ==
    LET common == Min({CommonPrefix(k, depth, node.prefix) :
                          k \in {FirstKey(keys), LastKey(keys)}})
        suffix == Staged(staged, [node EXCEPT !.prefix = Mid(@, common + 1)],
                         depth + common + 1)
    IN  IF common = Len(node.prefix) THEN [node |-> node, staged |-> staged]
        ELSE IF suffix = Failed THEN Failed
        ELSE [node   |-> Fork(Left(node.prefix, common),
                              node.prefix[common + 1] :> suffix.digest),
              staged |-> suffix.staged]

RECURSIVE RewriteSubtree(_, _, _, _, _)
RewriteSubtree(content, staged, current, depth, changes) ==
    LET node   == ReadBatch(content, staged, current, depth)
        opened == Opened(staged, node, depth, DOMAIN changes)
        split  == opened.node # node
        end    == depth + Len(opened.node.prefix)
        change == changes[CHOOSE k \in DOMAIN changes : TRUE]
        rewritten ==
            FoldLeft(LAMBDA acc, e :
                LET part  == Under(changes, end, e)
                    below == RewriteSubtree(content, acc.staged,
                                 Child(acc.node.children, e), end + 1, part)
                IN  IF acc = Failed \/ DOMAIN part = {} THEN acc
                    ELSE IF below = Failed THEN Failed
                    ELSE [node   |-> [acc.node EXCEPT !.children =
                                         WithChild(@, e, below.digest)],
                          staged |-> below.staged],
                opened, Edges)
    IN  IF current = NoDigest THEN BuildBatch(staged, changes, depth)
        ELSE IF node = Failed \/ opened = Failed THEN Failed
        ELSE IF end = KeyLength
             THEN IF change = NoDigest
                  THEN [digest |-> NoDigest, staged |-> staged]
                  ELSE Staged(staged, [node EXCEPT !.value = change], depth)
        ELSE IF ~split /\ node.children = NoChildren
             THEN BuildBatch(staged, changes, depth)
        ELSE IF rewritten = Failed THEN Failed
        ELSE FinishBatch(content, rewritten.staged, rewritten.node, depth)

\* A mistaken Reached: everything that was staged is stored.
EveryStaged(staged, digest) == staged

\* What is stored: staged nodes reached from the root through staged ones.
RECURSIVE Reached(_, _)
Reached(staged, digest) ==
    LET children == Payload(digest).children
    IN  IF digest \notin staged THEN {}
        ELSE {digest} \cup
             UNION {Reached(staged, children[e]) : e \in DOMAIN children}

\* The rewritten tree, or the root of the empty tree when nothing is left.
RootOf(rewritten) ==
    IF rewritten = Failed THEN Failed
    ELSE IF rewritten.digest = NoDigest THEN Staged(rewritten.staged, EmptyNode, 0)
    ELSE rewritten

StoreReached(content, result) ==
    LET stored == PutMany(content, "tree", Reached(result.staged, result.digest))
    IN  IF result = Failed THEN Failed
        ELSE IF stored = Failed THEN Failed
        ELSE [digest |-> result.digest, content |-> stored]

\* apply(): the blobs must be readable; absent deletions and identical writes
\* are dropped before the tree is touched.
Apply(content, root, changes) ==
    LET keys     == DOMAIN changes
        existing == LookupMany(content, root, keys)
        old(k)   == IF k \in DOMAIN existing THEN existing[k] ELSE NoDigest
        filtered == Restrict(changes, {k \in keys : changes[k] # old(k)})
    IN  IF \/ GetMany(content, "blob", Range(changes) \ {NoDigest}) = Failed
           \/ existing = Failed
           \/ keys = {} /\ Read(content, root, 0) = Failed
        THEN Failed
        ELSE IF DOMAIN filtered = {} THEN [digest |-> root, content |-> content]
        ELSE StoreReached(content,
                 RootOf(RewriteSubtree(content, {}, root, 0, filtered)))

=============================================================================
