---------------------------- MODULE ContentStore ----------------------------
(***************************************************************************)
(* The content-addressed rows of the database (content_store.cpp): a row   *)
(* is stored under the SHA-256 of its kind and its payload, is inserted    *)
(* once however many revisions use it, and is hashed again whenever it is  *)
(* read.  SHA-256 is taken to be free of collisions, so a digest is the    *)
(* pair of a kind and a payload; the rows are a function from the digests  *)
(* that have a row to what the stored payload still hashes to.             *)
(*                                                                         *)
(* Every operation takes the rows and answers Failed, as the code answers  *)
(* nullopt with an error, or a result; a caller that meets Failed rolls    *)
(* its transaction back.                                                   *)
(***************************************************************************)
EXTENDS FiniteSets, TLC

CONSTANTS Failed,      \* nullopt together with an error
          NoDigest     \* the empty byte array: no subtree, no blob

Kinds == {"blob", "tree"}

Digest(kind, payload) == <<kind, payload>>

BlobDigest(record) == Digest("blob", record)

TreeDigest(node) == Digest("tree", node)

Payload(digest) == digest[2]

\* A row passes the checks of a read when its kind is the one asked for and
\* its payload still hashes to its key.
Sound(content, kind, digest) ==
    /\ digest \in DOMAIN content
    /\ digest[1] = kind
    /\ content[digest] = "intact"

Get(content, kind, digest) ==
    IF Sound(content, kind, digest) THEN Payload(digest) ELSE Failed

\* One bad row fails the whole batched read.
GetMany(content, kind, digests) ==
    IF \A d \in digests : Sound(content, kind, d)
    THEN [d \in digests |-> Payload(d)]
    ELSE Failed

\* ON CONFLICT DO NOTHING, then every row that was already there is read
\* back and verified: a damaged row is reported and never replaced.
PutMany(content, kind, digests) ==
    LET reused == digests \cap DOMAIN content
    IN  IF GetMany(content, kind, reused) = Failed
        THEN Failed
        ELSE content @@ [d \in digests |-> "intact"]

Put(content, kind, digest) == PutMany(content, kind, {digest})

=============================================================================
