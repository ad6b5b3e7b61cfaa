--------------------------- MODULE EditingClients ---------------------------
(***************************************************************************)
(* Clients of the store that edit from what they last read.  A client      *)
(* names a branch, never a revision, and passes the generation or the      *)
(* object versions it saw; other clients may have edited, undone or        *)
(* finalized in between.                                                   *)
(***************************************************************************)
EXTENDS RevisionStore

CONSTANTS Client,
          NoView    \* a client that has read nothing

VARIABLE view     \* what each client last read of a working revision

clientVars == <<tables, view>>

ClientInit ==
    /\ Init
    /\ view = [c \in Client |-> NoView]

\* A client reads the head of a branch.
Look(c, b) ==
    /\ HasWorkingHead(b)
    /\ view' = [view EXCEPT ![c] =
                   [branch     |-> b,
                    revision   |-> head[b],
                    generation |-> generation[head[b]],
                    model      |-> rows[b],
                    bytes      |-> snapshot[head[b]]]]
    /\ UNCHANGED tables

SeenEdit(c, o, kind, content) ==
    [object |-> o, kind |-> kind, content |-> content,
     expected |-> view[c].model[o].version]

EditObject(c, o, kind, content) ==
    /\ view[c] # NoView
    /\ ModifyObject(view[c].branch, SeenEdit(c, o, kind, content))
    /\ UNCHANGED view

ReplaceSnapshot(c, bytes) ==
    /\ view[c] # NoView
    /\ ReplaceWorkingSnapshot(view[c].branch, view[c].generation, bytes)
    /\ UNCHANGED view

\* An undo or redo of either history, or a finalization.
AdvanceHistory(c) ==
    /\ view[c] # NoView
    /\ \/ \E redo \in BOOLEAN :
             CompensateObjectGroup(view[c].branch, view[c].generation, redo)
       \/ UndoLastChange(view[c].branch, view[c].generation)
       \/ RedoLastChange(view[c].branch, view[c].generation)
       \/ \E new \in Revision :
             Finalize(view[c].branch, new, view[c].generation)
    /\ UNCHANGED view

ClientNext ==
    \/ \E b \in Branch, r \in Revision : CreateProject(b, r) /\ UNCHANGED view
    \/ \E c \in Client :
          \/ \E b \in Branch : Look(c, b)
          \/ \E o \in Object, kind \in Kind, content \in Content \cup {NoContent} :
                EditObject(c, o, kind, content)
          \/ \E bytes \in Bytes : ReplaceSnapshot(c, bytes)
          \/ AdvanceHistory(c)

ClientSpec == ClientInit /\ [][ClientNext]_clientVars

-----------------------------------------------------------------------------

\* The documented promise that generations reject stale edits: a client whose
\* whole-snapshot replacement is accepted replaces the bytes it last read.
StaleReplacementsAreRejected ==
    [][\A c \in Client, bytes \in Bytes :
          ReplaceSnapshot(c, bytes) =>
              snapshot[head[view[c].branch]] = view[c].bytes]_clientVars
=============================================================================
