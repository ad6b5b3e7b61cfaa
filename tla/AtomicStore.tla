---------------------------- MODULE AtomicStore ----------------------------
(***************************************************************************)
(* What the calls of Database promise about the tables of one branch with  *)
(* one object: each call takes effect at once or not at all, and the edit  *)
(* a caller asked for takes effect once, however often it asks again.      *)
(***************************************************************************)
EXTENDS Naturals, Sequences

CONSTANTS
    Editor,        \* callers that edit the object, each asking for one edit
    MaxRevisions,  \* bound on the revisions of the branch
    NoRevision,    \* no parent
    NoRoot         \* no snapshot and no root

VARIABLE tables    \* the committed state of the database

Revisions == 1 .. MaxRevisions

\* The revisions are used in the order of their numbers.
Empty ==
    [state      |-> [r \in Revisions |-> IF r = 1 THEN "working" ELSE "none"],
     root       |-> [r \in Revisions |-> NoRoot],
     parent     |-> [r \in Revisions |-> NoRevision],
     generation |-> [r \in Revisions |-> 0],
     head       |-> 1,
     version    |-> 0,
     events     |-> <<>>,
     grouped    |-> 0]

\* putObject: the row, the generation, the journal and the group change together.
Edited(t, c) ==
    [t EXCEPT !.version = @ + 1,
              !.generation[t.head] = @ + 1,
              !.events = Append(@, [revision |-> t.head,
                                    sequence |-> t.generation[t.head] + 1,
                                    editor   |-> c]),
              !.grouped = @ + 1]

\* finalize: the head is sealed and its successor is the working revision.
Finalized(t) ==
    [t EXCEPT !.root[t.head] = t.version,
              !.state = [@ EXCEPT ![t.head] = "finalized", ![t.head + 1] = "working"],
              !.parent[t.head + 1] = t.head,
              !.head = @ + 1]

HasEdited(t, c) == \E i \in DOMAIN t.events : t.events[i].editor = c

Edit(c) == ~HasEdited(tables, c) /\ tables' = Edited(tables, c)

Finalize == tables.head < MaxRevisions /\ tables' = Finalized(tables)

Init == tables = Empty

Next == Finalize \/ \E c \in Editor : Edit(c)

Spec == Init /\ [][Next]_tables

=============================================================================
