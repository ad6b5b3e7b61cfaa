----------------------------- MODULE EditHistory -----------------------------
(***************************************************************************)
(* What undo and redo promise to the editors of one branch: a linear edit  *)
(* history.  An undo returns to the state before the latest edit still in  *)
(* effect, a redo to the state the latest undo left, a new edit discards   *)
(* what could be redone, and finalizing keeps the current state but        *)
(* nothing to undo or redo.                                                *)
(***************************************************************************)
EXTENDS Sequences, Integers

CONSTANT State            \* what an editor sees

VARIABLES open,           \* the branch exists
          current,        \* what an editor sees now
          past,           \* what each possible undo in turn returns to
          future          \* what each possible redo in turn returns to

hvars == <<open, current, past, future>>

Newest(stack) == stack[Len(stack)]

Without(stack) == SubSeq(stack, 1, Len(stack) - 1)

HInit ==
    /\ open = FALSE
    /\ current \in State
    /\ past = <<>>
    /\ future = <<>>

\* The branch is created, empty or from some finalized revision.
Open ==
    /\ ~open
    /\ open' = TRUE
    /\ current' \in State
    /\ UNCHANGED <<past, future>>

Change ==
    /\ open
    /\ current' \in State \ {current}
    /\ past' = Append(past, current)
    /\ future' = <<>>
    /\ UNCHANGED open

Undo ==
    /\ past # <<>>
    /\ current' = Newest(past)
    /\ past' = Without(past)
    /\ future' = Append(future, current)
    /\ UNCHANGED open

Redo ==
    /\ future # <<>>
    /\ current' = Newest(future)
    /\ future' = Without(future)
    /\ past' = Append(past, current)
    /\ UNCHANGED open

Seal ==
    /\ past' = <<>>
    /\ future' = <<>>
    /\ UNCHANGED <<open, current>>

HNext ==
    \/ Open
    \/ Change
    \/ Undo
    \/ Redo
    \/ Seal

HSpec == HInit /\ [][HNext]_hvars
=============================================================================
