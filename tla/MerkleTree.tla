----------------------------- MODULE MerkleTree -----------------------------
(***************************************************************************)
(* The persistent path-compressed radix tree over object UUIDs             *)
(* (merkle_tree.cpp).  A node holds a compressed prefix and either the     *)
(* digest of a blob or the digests of its children; it is stored under its *)
(* own digest and never changes, so a new root shares what did not change  *)
(* with the old ones.  This module has the nodes and the operations that   *)
(* read a tree: the point lookup, the batched lookup and the full scan,    *)
(* which go down level by level, and the difference of two trees.          *)
(*                                                                         *)
(* Keys are sequences of KeyLength nibbles of 0..Branches - 1 (32 and 16   *)
(* in the code).  All operators but the pure ones take the stored rows.    *)
(***************************************************************************)
EXTENDS ContentStore, Integers, SequencesExt

CONSTANTS KeyLength, Branches

Edge == 0 .. Branches - 1

Edges == [i \in 1 .. Branches |-> i - 1]

\* Keys sort bytewise; FirstKey and LastKey are the ends of a sorted range.
Before(j, k) ==
    \E i \in 1 .. KeyLength : j[i] < k[i] /\ \A h \in 1 .. i - 1 : j[h] = k[h]

FirstKey(keys) == CHOOSE k \in keys : \A j \in keys \ {k} : Before(k, j)

LastKey(keys) == CHOOSE k \in keys : \A j \in keys \ {k} : Before(j, k)

Mid(seq, n) == SubSeq(seq, n + 1, Len(seq))

Left(seq, n) == SubSeq(seq, 1, n)

-----------------------------------------------------------------------------
(* Nodes.  children is a partial function from edges to digests.           *)

NoChildren == [e \in {} |-> NoDigest]

EmptyNode == [prefix |-> <<>>, value |-> NoDigest, children |-> NoChildren]

Leaf(key, depth, value) == [EmptyNode EXCEPT !.prefix = Mid(key, depth),
                                             !.value = value]

Fork(prefix, children) == [EmptyNode EXCEPT !.prefix = prefix,
                                            !.children = children]

Child(children, e) == IF e \in DOMAIN children THEN children[e] ELSE NoDigest

WithChild(children, e, digest) ==
    IF digest = NoDigest
    THEN Restrict(children, DOMAIN children \ {e})
    ELSE (e :> digest) @@ children

CommonPrefix(key, depth, prefix) ==
    Max({n \in 0 .. Len(prefix) : \A i \in 1 .. n : key[depth + i] = prefix[i]})

Follows(key, depth, prefix) == CommonPrefix(key, depth, prefix) = Len(prefix)

\* Leaves end at the key length and hold a value; every other node has two
\* children at least, but for the root of the empty tree.
ValidShape(node, depth) ==
    LET end   == depth + Len(node.prefix)
        count == Cardinality(DOMAIN node.children)
    IN  /\ end <= KeyLength
        /\ IF end = KeyLength
           THEN node.value # NoDigest /\ count = 0
           ELSE /\ node.value = NoDigest
                /\ \/ count >= 2
                   \/ depth = 0 /\ node.prefix = <<>> /\ count = 0

\* A payload is decoded for the depth it is reached at.
Decode(node, depth) == IF ValidShape(node, depth) THEN node ELSE Failed

Read(content, digest, depth) ==
    LET node == Get(content, "tree", digest)
    IN  IF node = Failed THEN Failed ELSE Decode(node, depth)

\* A node merged into the only child it has left.
Compacted(prefix, edge, child) ==
    [child EXCEPT !.prefix = prefix \o <<edge>> \o child.prefix]

-----------------------------------------------------------------------------
(* Lookups answer a digest, NoDigest for a key that is not there.          *)

RECURSIVE LookupBelow(_, _, _, _)
LookupBelow(content, digest, key, depth) ==
    LET node == Read(content, digest, depth)
        next == depth + Len(node.prefix)
    IN  IF node = Failed THEN Failed
        ELSE IF ~Follows(key, depth, node.prefix) THEN NoDigest
        ELSE IF next = KeyLength THEN node.value
        ELSE IF key[next + 1] \notin DOMAIN node.children THEN NoDigest
        ELSE LookupBelow(content, node.children[key[next + 1]], key, next + 1)

Lookup(content, root, key) == LookupBelow(content, root, key, 0)

\* A mistaken BelowLookup: a leaf answers every key of its range.
BelowLookupUnchecked(node, item) ==
    LET next  == item.depth + Len(node.prefix)
        taken == {k[next + 1] : k \in item.keys} \cap DOMAIN node.children
    IN  IF node.value # NoDigest
        THEN [found |-> [k \in item.keys |-> node.value], pending |-> {}]
        ELSE [found   |-> [k \in {} |-> NoDigest],
              pending |-> {[digest |-> node.children[e], depth |-> next + 1,
                            keys |-> {k \in item.keys : k[next + 1] = e}] :
                               e \in taken}]

\* A pending subtree with the requested keys of its range, and the subtrees
\* and results one level further down.
BelowLookup(node, item) ==
    LET next    == item.depth + Len(node.prefix)
        inside  == {k \in item.keys : Follows(k, item.depth, node.prefix)}
        taken   == {k[next + 1] : k \in inside} \cap DOMAIN node.children
    IN  IF node.value # NoDigest
        THEN [found |-> [k \in inside |-> node.value], pending |-> {}]
        ELSE [found   |-> [k \in {} |-> NoDigest],
              pending |-> {[digest |-> node.children[e], depth |-> next + 1,
                            keys |-> {k \in inside : k[next + 1] = e}] : e \in taken}]

RECURSIVE LookupLevels(_, _, _)
LookupLevels(content, pending, found) ==
    LET fetched == GetMany(content, "tree", {p.digest : p \in pending})
        steps   == {BelowLookup(Decode(fetched[p.digest], p.depth), p) :
                       p \in pending}
    IN  IF pending = {} THEN found
        ELSE IF \/ fetched = Failed
                \/ \E p \in pending : Decode(fetched[p.digest], p.depth) = Failed
        THEN Failed
        ELSE LookupLevels(content, UNION {s.pending : s \in steps},
                 FoldSet(LAMBDA s, acc : s.found @@ acc, found, steps))

\* The requested keys that are there, with their digests.
LookupMany(content, root, requested) ==
    IF requested = {} THEN [k \in {} |-> NoDigest]
    ELSE LookupLevels(content,
             {[digest |-> root, keys |-> requested, depth |-> 0]},
             [k \in {} |-> NoDigest])

-----------------------------------------------------------------------------
(* A scan reads every node under a root, level by level.  verified holds   *)
(* the nodes that earlier scans of the same request have read: they are    *)
(* decoded again for their new path but not fetched again.                 *)

ScanStep(item) ==
    LET node == Payload(item.digest)
        path == item.leading \o node.prefix
    IN  [entries  |-> IF node.value = NoDigest THEN {} ELSE {<<path, node.value>>},
         children |-> {[digest |-> node.children[e], leading |-> path \o <<e>>] :
                          e \in DOMAIN node.children}]

RECURSIVE ScanLevels(_, _, _)
ScanLevels(content, pending, scan) ==
    LET digests == {p.digest : p \in pending}
        steps   == {ScanStep(p) : p \in pending}
    IN  IF pending = {} THEN scan
        ELSE IF \/ GetMany(content, "tree", digests \ scan.verified) = Failed
                \/ \E p \in pending :
                      Decode(Payload(p.digest), Len(p.leading)) = Failed
        THEN Failed
        ELSE ScanLevels(content, UNION {s.children : s \in steps},
                 [entries  |-> scan.entries \cup UNION {s.entries : s \in steps},
                  trees    |-> scan.trees \cup digests,
                  verified |-> scan.verified \cup digests])

\* Two entries for one key are an error as well.
ScanBatched(content, root, verified) ==
    LET scan == ScanLevels(content, {[digest |-> root, leading |-> <<>>]},
                    [entries |-> {}, trees |-> {}, verified |-> verified])
    IN  IF \/ scan = Failed
           \/ \E x, y \in scan.entries : x # y /\ x[1] = y[1]
        THEN Failed
        ELSE scan

\* The entries of a scan as a function from keys to digests.
Mapping(entries) ==
    [k \in {x[1] : x \in entries} |-> (CHOOSE x \in entries : x[1] = k)[2]]

Entries(content, root) ==
    LET scan == ScanBatched(content, root, {})
    IN  IF scan = Failed THEN Failed ELSE Mapping(scan.entries)

\* All rows a root needs, each of them read; or an error.
ContentInventory(content, root) ==
    LET scan  == ScanBatched(content, root, {})
        blobs == {x[2] : x \in scan.entries}
    IN  IF scan = Failed THEN Failed
        ELSE IF GetMany(content, "blob", blobs) = Failed THEN Failed
        ELSE [trees |-> scan.trees, blobs |-> blobs]

-----------------------------------------------------------------------------
(* diff: two cursors walk the key space together.  A cursor is at a node,  *)
(* or part way through its prefix, where no node exists.                   *)

NoCursor == [digest |-> NoDigest, depth |-> 0, consumed |-> 0, node |-> NoDigest]

Cursor(digest, depth) == [NoCursor EXCEPT !.digest = digest, !.depth = depth]

Loaded(content, cursor) ==
    IF cursor.digest = NoDigest \/ cursor.node # NoDigest THEN cursor
    ELSE [cursor EXCEPT !.node = Read(content, cursor.digest, cursor.depth)]

\* A mistaken DiffChild: part way through a prefix, every edge leads on.
DiffChildAnyEdge(cursor, edge, depth) ==
    IF cursor.digest = NoDigest THEN NoCursor
    ELSE IF cursor.consumed < Len(cursor.node.prefix)
    THEN [cursor EXCEPT !.consumed = @ + 1]
    ELSE Cursor(Child(cursor.node.children, edge), depth + 1)

DiffChild(cursor, edge, depth) ==
    IF cursor.digest = NoDigest THEN NoCursor
    ELSE IF cursor.consumed < Len(cursor.node.prefix)
    THEN IF cursor.node.prefix[cursor.consumed + 1] = edge
         THEN [cursor EXCEPT !.consumed = @ + 1]
         ELSE NoCursor
    ELSE Cursor(Child(cursor.node.children, edge), depth + 1)

SameSubtree(left, right) ==
    /\ left.digest = right.digest
    /\ left.digest # NoDigest => /\ left.depth = right.depth
                                 /\ left.consumed = right.consumed

CursorValue(cursor) ==
    IF cursor.digest = NoDigest THEN NoDigest ELSE cursor.node.value

RECURSIVE DiffWalk(_, _, _, _)
DiffWalk(content, left, right, path) ==
    LET l == Loaded(content, left)
        r == Loaded(content, right)
        below == {DiffWalk(content, DiffChild(l, e, Len(path)),
                           DiffChild(r, e, Len(path)), path \o <<e>>) : e \in Edge}
    IN  IF SameSubtree(left, right) THEN {}
        ELSE IF Failed \in {l.node, r.node} THEN Failed
        ELSE IF Len(path) = KeyLength
        THEN IF CursorValue(l) = CursorValue(r) THEN {}
             ELSE {[key |-> path, before |-> CursorValue(l), after |-> CursorValue(r)]}
        ELSE IF Failed \in below THEN Failed
        ELSE UNION below

\* Equal roots are read once, and have no difference.
Diff(content, before, after) ==
    IF Read(content, before, 0) = Failed THEN Failed
    ELSE IF before = after THEN {}
    ELSE DiffWalk(content, Cursor(before, 0), Cursor(after, 0), <<>>)

=============================================================================
