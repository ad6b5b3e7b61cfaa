----------------------------- MODULE UndoStack -----------------------------
(***************************************************************************)
(* Both histories of a working revision are append-only logs in which      *)
(* undo and redo are entries of their own.  What can be undone or redone   *)
(* next is never stored: every undo and redo replays the log into two      *)
(* stacks of entry positions (object_groups.cpp and history.cpp run the    *)
(* same loop).                                                             *)
(***************************************************************************)
EXTENDS Integers, Sequences

Top(stack) == stack[Len(stack)]

Pop(stack) == SubSeq(stack, 1, Len(stack) - 1)

\* No entry has been replayed yet.
NoStacks == [applied |-> <<>>, undone |-> <<>>, valid |-> TRUE]

\* A mistaken Replayed: a new edit does not discard what could be redone.
ReplayedKeepingUndone(stacks, entry, n) ==
    CASE entry.action = "undo" ->
           [stacks EXCEPT !.applied = Pop(@), !.undone = Append(@, entry.target)]
      [] entry.action = "redo" ->
           [stacks EXCEPT !.undone = Pop(@), !.applied = Append(@, entry.target)]
      [] OTHER ->
           [stacks EXCEPT !.applied = Append(@, n)]

(***************************************************************************)
(* The effect of the entry at position n on the stacks.  An undo must name *)
(* the top of "applied", a redo the top of "undone"; a log in which one    *)
(* does not is invalid, and the code then refuses the operation.           *)
(***************************************************************************)
Replayed(stacks, entry, n) ==
    CASE entry.action = "undo" ->
           IF stacks.applied # <<>> /\ Top(stacks.applied) = entry.target
           THEN [stacks EXCEPT !.applied = Pop(@),
                               !.undone = Append(@, entry.target)]
           ELSE [stacks EXCEPT !.valid = FALSE]
      [] entry.action = "redo" ->
           IF stacks.undone # <<>> /\ Top(stacks.undone) = entry.target
           THEN [stacks EXCEPT !.undone = Pop(@),
                               !.applied = Append(@, entry.target)]
           ELSE [stacks EXCEPT !.valid = FALSE]
      [] OTHER ->
           [stacks EXCEPT !.applied = Append(@, n), !.undone = <<>>]

\* The stacks the whole log leads to.
Stacks(log) ==
    LET after[n \in 0..Len(log)] ==
            IF n = 0 THEN NoStacks ELSE Replayed(after[n - 1], log[n], n)
    IN  after[Len(log)]
=============================================================================
