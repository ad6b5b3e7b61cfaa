--------------------------- MODULE SnapshotProofs ---------------------------
(***************************************************************************)
(* Undo and redo of whole snapshots never conflict and behave as a linear  *)
(* edit history.  The invariant says that the operations on each stack     *)
(* link up: what an operation left is what the one above it found, and the *)
(* top one left (or, on the stack of undone ones, found) the snapshot that *)
(* is stored now.                                                          *)
(***************************************************************************)
EXTENDS UndoProofs

-----------------------------------------------------------------------------
(* Stacks of positions, each with two values.                              *)

\* Down from the value now, each position's 'to' is the 'from' of the one above.
Linked(now, stack, from, to) ==
    \A k \in 1..Len(stack) :
        to[stack[k]] = IF k = Len(stack) THEN now ELSE from[stack[k + 1]]

LEMMA LinkedPush ==
    ASSUME NEW G, NEW stack \in Seq(G), NEW g \in G, NEW now, NEW next,
           NEW from, NEW to, Linked(now, stack, from, to),
           from[g] = now, to[g] = next
    PROVE  Linked(next, Append(stack, g), from, to)
  <1>1. PICK n, long : n = Len(stack) /\ long = Append(stack, g)
    OBVIOUS
  <1>2. /\ n \in Nat /\ Len(long) = n + 1
        /\ long[n + 1] = g
        /\ \A k \in 1..n : long[k] = stack[k]
    BY <1>1
  <1>3. ASSUME NEW k \in 1..(n + 1)
        PROVE  to[long[k]] = IF k = n + 1 THEN next ELSE from[long[k + 1]]
    <2>1. CASE k = n + 1
      BY <1>2, <2>1
    <2>2. CASE k # n + 1
      <3>1. k \in 1..n /\ (k # n => k + 1 \in 1..n)
        BY <1>2, <2>2
      <3>2. to[stack[k]] = IF k = n THEN now ELSE from[stack[k + 1]]
        BY <1>1, <3>1 DEF Linked
      <3>3. long[k] = stack[k] /\ long[k + 1] = IF k = n THEN g ELSE stack[k + 1]
        BY <1>2, <3>1
      <3> QED BY <2>2, <3>2, <3>3
    <2> QED BY <2>1, <2>2
  <1> QED BY <1>1, <1>2, <1>3 DEF Linked

LEMMA LinkedTop ==
    ASSUME NEW G, NEW stack \in Seq(G), stack # <<>>, NEW now,
           NEW from, NEW to, Linked(now, stack, from, to)
    PROVE  /\ Top(stack) \in G
           /\ to[Top(stack)] = now
           /\ Linked(from[Top(stack)], Pop(stack), from, to)
  <1>1. PICK n, rest : n = Len(stack) /\ rest = Pop(stack)
    OBVIOUS
  <1>2. /\ n \in Nat \ {0} /\ n \in 1..n /\ Len(rest) = n - 1
        /\ \A k \in 1..(n - 1) : rest[k] = stack[k] /\ k \in 1..n
    BY <1>1 DEF Pop
  <1>3. Top(stack) \in G /\ Top(stack) = stack[n]
    BY <1>1, <1>2 DEF Top
  <1>4. to[Top(stack)] = now
    BY <1>1, <1>2, <1>3 DEF Linked
  <1>5. ASSUME NEW k \in 1..(n - 1)
        PROVE  to[rest[k]] = IF k = n - 1 THEN from[stack[n]] ELSE from[rest[k + 1]]
    <2>1. k \in 1..n /\ k # n /\ rest[k] = stack[k]
      BY <1>2
    <2>2. to[stack[k]] = from[stack[k + 1]]
      BY <1>1, <2>1 DEF Linked
    <2>3. k # n - 1 => rest[k + 1] = stack[k + 1]
      BY <1>2
    <2>4. k = n - 1 => k + 1 = n
      BY <1>2
    <2> QED BY <2>1, <2>2, <2>3, <2>4
  <1>6. Linked(from[Top(stack)], Pop(stack), from, to)
    BY <1>1, <1>2, <1>3, <1>5 DEF Linked
  <1> QED BY <1>3, <1>4, <1>6

LEMMA LinkedSame ==
    ASSUME NEW G, NEW stack \in Seq(G), NEW now, NEW from, NEW to,
           NEW from2, NEW to2,
           \A g \in G : from2[g] = from[g] /\ to2[g] = to[g],
           Linked(now, stack, from, to)
    PROVE  Linked(now, stack, from2, to2)
  <1> SUFFICES ASSUME NEW k \in 1..Len(stack)
               PROVE  to2[stack[k]] = IF k = Len(stack) THEN now
                                                        ELSE from2[stack[k + 1]]
    BY DEF Linked
  <1>1. stack[k] \in G
    OBVIOUS
  <1>2. k # Len(stack) => stack[k + 1] \in G
    OBVIOUS
  <1> QED BY <1>1, <1>2 DEF Linked

\* What the positions of a stack hold, in turn.
Held(stack, value) == [k \in DOMAIN stack |-> value[stack[k]]]

LEMMA HeldPush ==
    ASSUME NEW G, NEW stack \in Seq(G), NEW g \in G, NEW value
    PROVE  Held(Append(stack, g), value) = Append(Held(stack, value), value[g])
  <1>1. PICK n, old, new : /\ n = Len(stack)
                           /\ old = Held(stack, value)
                           /\ new = Held(Append(stack, g), value)
    OBVIOUS
  <1>2. n \in Nat /\ DOMAIN stack = 1..n
    BY <1>1
  <1>3. /\ DOMAIN Append(stack, g) = 1..(n + 1)
        /\ \A k \in 1..n : Append(stack, g)[k] = stack[k]
        /\ Append(stack, g)[n + 1] = g
    BY <1>1
  <1>4. \A k \in 1..(n + 1) : k \in 1..n \/ k = n + 1
    BY <1>2
  <1>5. \A k \in 1..n : k \in 1..(n + 1)
    BY <1>2
  <1>6. n + 1 \in 1..(n + 1)
    BY <1>2
  <1>7. PICK S : S = {value[h] : h \in G}
    OBVIOUS
  <1>8. old \in [1..n -> S] /\ \A k \in 1..n : old[k] = value[stack[k]]
    BY <1>1, <1>2, <1>7 DEF Held
  <1>9. old \in Seq(S) /\ Len(old) = n
    BY <1>2, <1>8
  <1>10. /\ DOMAIN new = 1..(n + 1)
         /\ new = [k \in 1..(n + 1) |-> value[Append(stack, g)[k]]]
    BY <1>1, <1>3 DEF Held
  <1>11. /\ \A k \in 1..n : new[k] = old[k]
         /\ new[n + 1] = value[g]
    BY <1>3, <1>5, <1>6, <1>8, <1>10
  <1>12. value[g] \in S
    BY <1>7
  <1>13. new \in [1..(n + 1) -> S]
    BY <1>4, <1>8, <1>10, <1>11, <1>12
  <1>14. new = Append(old, value[g])
    <2>1. PICK x : x = value[g]
      OBVIOUS
    <2>2. x \in S /\ new \in [1..(Len(old) + 1) -> S]
      BY <1>9, <1>12, <1>13, <2>1
    <2>3. (\A k \in 1..Len(old) : new[k] = old[k]) /\ new[Len(old) + 1] = x
      BY <1>9, <1>11, <2>1
    <2>4. old \in Seq(S)
      BY <1>9
    <2>5. new = Append(old, x)
      BY ONLY <2>2, <2>3, <2>4, AppendedSequence
    <2> QED BY <2>1, <2>5
  <1> QED BY <1>1, <1>14

LEMMA HeldSame ==
    ASSUME NEW G, NEW stack \in Seq(G), NEW value, NEW value2,
           \A g \in G : value2[g] = value[g]
    PROVE  Held(stack, value2) = Held(stack, value)
  <1>1. \A k \in DOMAIN stack : stack[k] \in G
    OBVIOUS
  <1> QED BY <1>1 DEF Held

\* The top of a stack of values.
LEMMA HeldTop ==
    ASSUME NEW G, NEW stack \in Seq(G), stack # <<>>, NEW value
    PROVE  LET held == Held(stack, value) IN
           /\ held # <<>>
           /\ held[Len(held)] = value[Top(stack)]
           /\ SubSeq(held, 1, Len(held) - 1) = Held(Pop(stack), value)
  <1>1. PICK g, rest : g = Top(stack) /\ rest = Pop(stack)
    OBVIOUS
  <1>2. g \in G
    BY <1>1 DEF Top
  <1>3. rest \in Seq(G)
    BY <1>1 DEF Pop
  <1>4. stack = Append(rest, g)
    BY <1>1 DEF Top, Pop
  <1>5. PICK held, x : held = Held(rest, value) /\ x = value[g]
    OBVIOUS
  <1>6. Held(stack, value) = Append(held, x)
    BY <1>2, <1>3, <1>4, <1>5, HeldPush
  <1>7. held \in Seq({value[h] : h \in G} \cup {x})
    <2>1. PICK n, S : n = Len(rest) /\ S = {value[h] : h \in G} \cup {x}
      OBVIOUS
    <2>2. n \in Nat /\ DOMAIN rest = 1..n /\ \A k \in 1..n : rest[k] \in G
      BY <1>3, <2>1
    <2>3. held \in [1..n -> S]
      BY <1>5, <2>1, <2>2 DEF Held
    <2> QED BY <2>1, <2>2, <2>3
  <1>8. /\ Append(held, x) # <<>>
        /\ Append(held, x)[Len(Append(held, x))] = x
        /\ SubSeq(Append(held, x), 1, Len(Append(held, x)) - 1) = held
    BY <1>7
  <1> QED BY <1>1, <1>5, <1>6, <1>8

-----------------------------------------------------------------------------
(* The invariant.                                                          *)

BytesFound(r) == [g \in DOMAIN operations[r] |-> operations[r][g].before]

BytesLeft(r) == [g \in DOMAIN operations[r] |-> operations[r][g].after]

\* The stacks of r, with what is stored now, are those of a linked history.
LinkedStacks(stacks, positions, now, found, left) ==
    /\ stacks \in ValidStacks(positions)
    /\ Linked(now, stacks.applied, found, left)
    /\ Linked(now, stacks.undone, left, found)

\* How an operation of r that stores 'new' is recorded.
OperationRecorded(r, new, n) ==
    /\ DOMAIN operations[r] \subseteq DOMAIN operations'[r]
    /\ n \in DOMAIN operations'[r]
    /\ \A g \in DOMAIN operations[r] : /\ BytesFound(r)'[g] = BytesFound(r)[g]
                                       /\ BytesLeft(r)'[g] = BytesLeft(r)[g]
    /\ BytesFound(r)'[n] = snapshot[r]
    /\ BytesLeft(r)'[n] = new
    /\ snapshot'[r] = new
    /\ \A s \in Revision : s # r => /\ operations'[s] = operations[s]
                                    /\ snapshot'[s] = snapshot[s]

LEMMA OperationIsRecorded ==
    ASSUME TypeOK, NEW r \in Revision, NEW new, NEW action, NEW target,
           ApplySnapshotOperation(r, new, action, target),
           NEW n, n = Len(operations[r]) + 1
    PROVE  /\ OperationRecorded(r, new, n)
           /\ \E entry : /\ entry.action = action /\ entry.target = target
                         /\ Stacks(operations'[r])
                               = Replayed(Stacks(operations[r]), entry, n)
  <1>1. PICK entry : entry = [action |-> action, target |-> target,
                              before |-> snapshot[r], after |-> new]
    OBVIOUS
  <1>2. PICK log, S : log = operations[r] /\ S = Operation \cup {entry}
    OBVIOUS
  <1>3. log \in Seq(Operation) /\ log \in Seq(S) /\ entry \in S
    BY <1>2 DEF TypeOK
  <1>4. /\ operations'[r] = Append(log, entry)
        /\ snapshot'[r] = new
        /\ \A s \in Revision : s # r => /\ operations'[s] = operations[s]
                                        /\ snapshot'[s] = snapshot[s]
    BY <1>1, <1>2 DEF ApplySnapshotOperation, TypeOK
  <1>5. /\ n \in Nat /\ DOMAIN log = 1..(n - 1)
        /\ DOMAIN Append(log, entry) = 1..n /\ n \in 1..n
        /\ \A g \in 1..(n - 1) : g \in 1..n /\ Append(log, entry)[g] = log[g]
        /\ Append(log, entry)[n] = entry
    BY <1>2, <1>3
  <1>6. OperationRecorded(r, new, n)
    BY <1>1, <1>2, <1>4, <1>5 DEF OperationRecorded, BytesFound, BytesLeft
  <1>7. Stacks(Append(log, entry)) = Replayed(Stacks(log), entry, Len(log) + 1)
    BY <1>3, StacksAppend
  <1>8. entry.action = action /\ entry.target = target
    BY <1>1
  <1> QED BY <1>2, <1>4, <1>6, <1>7, <1>8

\* The stacks of a revision and their links after a replacement ...
ReplacedLinks(stacks, after, positions, now, next, found, left, found2, left2) ==
    /\ LinkedStacks(after, positions, next, found2, left2)
    /\ Held(after.applied, found2) = Append(Held(stacks.applied, found), now)
    /\ Held(after.undone, left2) = <<>>

LEMMA LinksAfterReplace ==
    ASSUME NEW P, NEW positions, P \subseteq positions, NEW n \in positions,
           NEW stacks, NEW now, NEW next,
           NEW found, NEW left, NEW found2, NEW left2,
           LinkedStacks(stacks, P, now, found, left),
           \A g \in P : found2[g] = found[g] /\ left2[g] = left[g],
           found2[n] = now, left2[n] = next,
           NEW entry, entry.action = "replace",
           NEW after, after = Replayed(stacks, entry, n)
    PROVE  ReplacedLinks(stacks, after, positions, now, next, found, left,
                         found2, left2)
  <1>1. after = [applied |-> Append(stacks.applied, n), undone |-> <<>>,
                 valid |-> TRUE]
    BY DEF LinkedStacks, ValidStacks, Replayed
  <1>2. PICK stack : stack = stacks.applied
    OBVIOUS
  <1>3. stack \in Seq(P)
    BY <1>2 DEF LinkedStacks, ValidStacks
  <1>4. stack \in Seq(positions)
    BY <1>3
  <1>5. Linked(now, stack, found2, left2)
    BY <1>2, <1>3, LinkedSame DEF LinkedStacks
  <1>6. Linked(next, Append(stack, n), found2, left2)
    BY <1>4, <1>5, LinkedPush
  <1>7. Linked(next, <<>>, left2, found2)
    BY DEF Linked
  <1>8. after \in ValidStacks(positions)
    BY <1>1, <1>2, <1>4 DEF ValidStacks
  <1>9. Held(Append(stack, n), found2) = Append(Held(stack, found2), now)
    BY <1>4, HeldPush
  <1>10. Held(stack, found2) = Held(stack, found)
    BY <1>3, HeldSame
  <1>11. Held(<<>>, left2) = <<>>
    BY DEF Held
  <1> QED BY <1>1, <1>2, <1>6, <1>7, <1>8, <1>9, <1>10, <1>11
         DEF LinkedStacks, ReplacedLinks

\* ... and after the top of one stack moved to the other: stack, other, left and
\* found are those of an undo, or all exchanged for a redo.
MovedLinks(stack, other, positions, now, next, from, to, from2, to2) ==
    /\ Pop(stack) \in Seq(positions)
    /\ Append(other, Top(stack)) \in Seq(positions)
    /\ Linked(next, Pop(stack), from2, to2)
    /\ Linked(next, Append(other, Top(stack)), to2, from2)
    /\ Held(stack, from) # <<>>
    /\ Held(stack, from)[Len(Held(stack, from))] = next
    /\ Held(Pop(stack), from2)
          = SubSeq(Held(stack, from), 1, Len(Held(stack, from)) - 1)
    /\ Held(Append(other, Top(stack)), to2) = Append(Held(other, to), now)

LEMMA LinksAfterMove ==
    ASSUME NEW P, NEW positions, P \subseteq positions,
           NEW stack \in Seq(P), stack # <<>>, NEW other \in Seq(P),
           NEW now, NEW next, NEW from, NEW to, NEW from2, NEW to2,
           Linked(now, stack, from, to), Linked(now, other, to, from),
           \A g \in P : from2[g] = from[g] /\ to2[g] = to[g],
           next = from[Top(stack)]
    PROVE  MovedLinks(stack, other, positions, now, next, from, to, from2, to2)
  <1>1. PICK g, rest, long : /\ g = Top(stack) /\ rest = Pop(stack)
                             /\ long = Append(other, g)
    OBVIOUS
  <1>2. g \in P /\ to[g] = now /\ Linked(from[g], rest, from, to)
    BY <1>1, LinkedTop
  <1>3. rest \in Seq(P) /\ long \in Seq(P)
    BY <1>1, <1>2 DEF Pop
  <1>4. rest \in Seq(positions) /\ long \in Seq(positions)
    BY <1>3
  <1>5. from[g] = next
    BY <1>1
  <1>6. Linked(next, long, to, from)
    BY <1>1, <1>2, <1>5, LinkedPush
  <1>7. Linked(next, rest, from2, to2)
    <2>1. Linked(next, rest, from, to)
      BY <1>2, <1>5
    <2> QED BY <1>3, <2>1, LinkedSame
  <1>8. Linked(next, long, to2, from2)
    BY <1>3, <1>6, LinkedSame
  <1>9. /\ Held(stack, from) # <<>>
        /\ Held(stack, from)[Len(Held(stack, from))] = next
        /\ SubSeq(Held(stack, from), 1, Len(Held(stack, from)) - 1) = Held(rest, from)
    BY <1>1, <1>5, HeldTop
  <1>10. Held(rest, from2) = Held(rest, from) /\ Held(long, to2) = Held(long, to)
    BY <1>3, HeldSame
  <1>11. Held(long, to) = Append(Held(other, to), now)
    BY <1>1, <1>2, HeldPush
  <1> QED BY <1>1, <1>4, <1>7, <1>8, <1>9, <1>10, <1>11 DEF MovedLinks

-----------------------------------------------------------------------------
(* The steps.                                                              *)

Links(r) ==
    LinkedStacks(Stacks(operations[r]), DOMAIN operations[r], snapshot[r],
                 BytesFound(r), BytesLeft(r))

\* What undo and redo of r would lead to, the next one last.
BytesBefore(r) == Held(Stacks(operations[r]).applied, BytesFound(r))

BytesAfter(r) == Held(Stacks(operations[r]).undone, BytesLeft(r))

LEMMA ReplaceEffect ==
    ASSUME Bookkeeping, NEW r \in Revision, Links(r), NEW new, NEW target,
           ApplySnapshotOperation(r, new, "replace", target)
    PROVE  /\ Links(r)'
           /\ BytesBefore(r)' = Append(BytesBefore(r), snapshot[r])
           /\ BytesAfter(r)' = <<>>
  <1>1. PICK n : n = Len(operations[r]) + 1
    OBVIOUS
  <1>2. TypeOK
    BY DEF Bookkeeping
  <1>3. OperationRecorded(r, new, n)
    BY <1>1, <1>2, OperationIsRecorded
  <1>4. PICK entry : /\ entry.action = "replace" /\ entry.target = target
                     /\ Stacks(operations'[r]) = Replayed(Stacks(operations[r]), entry, n)
    BY <1>1, <1>2, OperationIsRecorded
  <1>5. PICK P, positions, stacks, after, found, left, found2, left2 :
           /\ P = DOMAIN operations[r] /\ positions = DOMAIN operations'[r]
           /\ stacks = Stacks(operations[r]) /\ after = Stacks(operations'[r])
           /\ found = BytesFound(r) /\ left = BytesLeft(r)
           /\ found2 = BytesFound(r)' /\ left2 = BytesLeft(r)'
    OBVIOUS
  <1>6. PICK now : now = snapshot[r]
    OBVIOUS
  <1>7. /\ P \subseteq positions /\ n \in positions
        /\ \A g \in P : found2[g] = found[g] /\ left2[g] = left[g]
        /\ found2[n] = now /\ left2[n] = new
        /\ snapshot'[r] = new
    BY <1>3, <1>5, <1>6 DEF OperationRecorded
  <1>8. LinkedStacks(stacks, P, now, found, left)
    BY <1>5, <1>6 DEF Links
  <1>9. entry.action = "replace" /\ after = Replayed(stacks, entry, n)
    BY <1>4, <1>5
  <1>10. /\ LinkedStacks(after, positions, new, found2, left2)
         /\ Held(after.applied, found2) = Append(Held(stacks.applied, found), now)
         /\ Held(after.undone, left2) = <<>>
    <2>1. ReplacedLinks(stacks, after, positions, now, new, found, left,
                        found2, left2)
      BY ONLY <1>7, <1>8, <1>9, LinksAfterReplace
    <2> QED BY <2>1 DEF ReplacedLinks
  <1> QED BY <1>5, <1>6, <1>7, <1>10 DEF Links, BytesBefore, BytesAfter

LEMMA UndoEffect ==
    ASSUME Bookkeeping, NEW r \in Revision, Links(r), NEW target,
           Stacks(operations[r]).applied # <<>>,
           target = Top(Stacks(operations[r]).applied),
           target \in DOMAIN operations[r],
           ApplySnapshotOperation(r, operations[r][target].before, "undo", target)
    PROVE  /\ Links(r)'
           /\ BytesBefore(r) # <<>>
           /\ snapshot'[r] = BytesBefore(r)[Len(BytesBefore(r))]
           /\ BytesBefore(r)' = SubSeq(BytesBefore(r), 1, Len(BytesBefore(r)) - 1)
           /\ BytesAfter(r)' = Append(BytesAfter(r), snapshot[r])
  <1>1. PICK n, next : /\ n = Len(operations[r]) + 1
                       /\ next = operations[r][target].before
    OBVIOUS
  <1>2. TypeOK /\ ApplySnapshotOperation(r, next, "undo", target)
    BY <1>1 DEF Bookkeeping
  <1>3. OperationRecorded(r, next, n)
    BY <1>1, <1>2, OperationIsRecorded
  <1>4. PICK entry : /\ entry.action = "undo" /\ entry.target = target
                     /\ Stacks(operations'[r]) = Replayed(Stacks(operations[r]), entry, n)
    BY <1>1, <1>2, OperationIsRecorded
  <1>5. PICK P, positions, stacks, after, found, left, found2, left2 :
           /\ P = DOMAIN operations[r] /\ positions = DOMAIN operations'[r]
           /\ stacks = Stacks(operations[r]) /\ after = Stacks(operations'[r])
           /\ found = BytesFound(r) /\ left = BytesLeft(r)
           /\ found2 = BytesFound(r)' /\ left2 = BytesLeft(r)'
    OBVIOUS
  <1>6. PICK now, stack, other : /\ now = snapshot[r]
                                 /\ stack = stacks.applied
                                 /\ other = stacks.undone
    OBVIOUS
  <1>7. /\ P \subseteq positions
        /\ \A g \in P : found2[g] = found[g] /\ left2[g] = left[g]
        /\ snapshot'[r] = next
    BY <1>3, <1>5 DEF OperationRecorded
  <1>8. /\ stacks \in ValidStacks(P)
        /\ Linked(now, stack, found, left) /\ Linked(now, other, left, found)
    BY <1>5, <1>6 DEF Links, LinkedStacks
  <1>9. /\ stack \in Seq(P) /\ stack # <<>> /\ other \in Seq(P)
        /\ target = Top(stack)
    BY <1>5, <1>6, <1>8 DEF ValidStacks
  <1>10. next = found[Top(stack)]
    BY <1>1, <1>5, <1>9 DEF BytesFound
  <1>11. after = [applied |-> Pop(stack), undone |-> Append(other, Top(stack)),
                  valid |-> TRUE]
    <2>1. entry.action = "undo" /\ stacks.applied # <<>>
          /\ Top(stacks.applied) = entry.target
      BY <1>4, <1>6, <1>9
    <2>2. Replayed(stacks, entry, n) =
             [applied |-> Pop(stacks.applied),
              undone |-> Append(stacks.undone, entry.target), valid |-> TRUE]
      BY ONLY <1>8, <2>1, ReplayedUndo
    <2> QED BY <1>4, <1>5, <1>6, <1>9, <2>2
  <1>12. /\ Pop(stack) \in Seq(positions)
         /\ Append(other, Top(stack)) \in Seq(positions)
         /\ Linked(next, Pop(stack), found2, left2)
         /\ Linked(next, Append(other, Top(stack)), left2, found2)
         /\ Held(stack, found) # <<>>
         /\ Held(stack, found)[Len(Held(stack, found))] = next
         /\ Held(Pop(stack), found2)
               = SubSeq(Held(stack, found), 1, Len(Held(stack, found)) - 1)
         /\ Held(Append(other, Top(stack)), left2) = Append(Held(other, left), now)
    <2>1. MovedLinks(stack, other, positions, now, next, found, left, found2, left2)
      BY ONLY <1>7, <1>8, <1>9, <1>10, LinksAfterMove
    <2> QED BY <2>1 DEF MovedLinks
  <1>13. Links(r)'
    BY <1>5, <1>7, <1>11, <1>12 DEF Links, LinkedStacks, ValidStacks
  <1> QED BY <1>5, <1>6, <1>7, <1>11, <1>12, <1>13 DEF BytesBefore, BytesAfter

LEMMA RedoEffect ==
    ASSUME Bookkeeping, NEW r \in Revision, Links(r), NEW target,
           Stacks(operations[r]).undone # <<>>,
           target = Top(Stacks(operations[r]).undone),
           target \in DOMAIN operations[r],
           ApplySnapshotOperation(r, operations[r][target].after, "redo", target)
    PROVE  /\ Links(r)'
           /\ BytesAfter(r) # <<>>
           /\ snapshot'[r] = BytesAfter(r)[Len(BytesAfter(r))]
           /\ BytesAfter(r)' = SubSeq(BytesAfter(r), 1, Len(BytesAfter(r)) - 1)
           /\ BytesBefore(r)' = Append(BytesBefore(r), snapshot[r])
  <1>1. PICK n, next : /\ n = Len(operations[r]) + 1
                       /\ next = operations[r][target].after
    OBVIOUS
  <1>2. TypeOK /\ ApplySnapshotOperation(r, next, "redo", target)
    BY <1>1 DEF Bookkeeping
  <1>3. OperationRecorded(r, next, n)
    BY <1>1, <1>2, OperationIsRecorded
  <1>4. PICK entry : /\ entry.action = "redo" /\ entry.target = target
                     /\ Stacks(operations'[r]) = Replayed(Stacks(operations[r]), entry, n)
    BY <1>1, <1>2, OperationIsRecorded
  <1>5. PICK P, positions, stacks, after, found, left, found2, left2 :
           /\ P = DOMAIN operations[r] /\ positions = DOMAIN operations'[r]
           /\ stacks = Stacks(operations[r]) /\ after = Stacks(operations'[r])
           /\ found = BytesFound(r) /\ left = BytesLeft(r)
           /\ found2 = BytesFound(r)' /\ left2 = BytesLeft(r)'
    OBVIOUS
  <1>6. PICK now, stack, other : /\ now = snapshot[r]
                                 /\ stack = stacks.undone
                                 /\ other = stacks.applied
    OBVIOUS
  <1>7. /\ P \subseteq positions
        /\ \A g \in P : left2[g] = left[g] /\ found2[g] = found[g]
        /\ snapshot'[r] = next
    BY <1>3, <1>5 DEF OperationRecorded
  <1>8. /\ stacks \in ValidStacks(P)
        /\ Linked(now, stack, left, found) /\ Linked(now, other, found, left)
    BY <1>5, <1>6 DEF Links, LinkedStacks
  <1>9. /\ stack \in Seq(P) /\ stack # <<>> /\ other \in Seq(P)
        /\ target = Top(stack)
    BY <1>5, <1>6, <1>8 DEF ValidStacks
  <1>10. next = left[Top(stack)]
    BY <1>1, <1>5, <1>9 DEF BytesLeft
  <1>11. after = [applied |-> Append(other, Top(stack)), undone |-> Pop(stack),
                  valid |-> TRUE]
    <2>1. entry.action = "redo" /\ stacks.undone # <<>>
          /\ Top(stacks.undone) = entry.target
      BY <1>4, <1>6, <1>9
    <2>2. Replayed(stacks, entry, n) =
             [applied |-> Append(stacks.applied, entry.target),
              undone |-> Pop(stacks.undone), valid |-> TRUE]
      BY ONLY <1>8, <2>1, ReplayedRedo
    <2> QED BY <1>4, <1>5, <1>6, <1>9, <2>2
  <1>12. /\ Pop(stack) \in Seq(positions)
         /\ Append(other, Top(stack)) \in Seq(positions)
         /\ Linked(next, Pop(stack), left2, found2)
         /\ Linked(next, Append(other, Top(stack)), found2, left2)
         /\ Held(stack, left) # <<>>
         /\ Held(stack, left)[Len(Held(stack, left))] = next
         /\ Held(Pop(stack), left2)
               = SubSeq(Held(stack, left), 1, Len(Held(stack, left)) - 1)
         /\ Held(Append(other, Top(stack)), found2) = Append(Held(other, found), now)
    <2>1. MovedLinks(stack, other, positions, now, next, left, found, left2, found2)
      BY ONLY <1>7, <1>8, <1>9, <1>10, LinksAfterMove
    <2> QED BY <2>1 DEF MovedLinks
  <1>13. Links(r)'
    BY <1>5, <1>7, <1>11, <1>12 DEF Links, LinkedStacks, ValidStacks
  <1> QED BY <1>5, <1>6, <1>7, <1>11, <1>12, <1>13 DEF BytesBefore, BytesAfter

-----------------------------------------------------------------------------
(* The invariant is one.                                                   *)

SnapshotsAreLinked == \A r \in Revision : Links(r)

LEMMA EmptyLogIsLinked ==
    ASSUME NEW now, NEW found, NEW left, NEW positions
    PROVE  LinkedStacks(Stacks(<<>>), positions, now, found, left)
  <1>1. NoStacks \in ValidStacks(positions)
    BY DEF NoStacks, ValidStacks
  <1>2. NoStacks.applied = <<>> /\ NoStacks.undone = <<>>
    BY DEF NoStacks
  <1>3. \A from, to : Linked(now, <<>>, from, to)
    BY DEF Linked
  <1> QED BY <1>1, <1>2, <1>3, StacksEmpty DEF LinkedStacks

LEMMA SameOperations ==
    ASSUME NEW r \in Revision, operations'[r] = operations[r]
    PROVE  BytesFound(r)' = BytesFound(r) /\ BytesLeft(r)' = BytesLeft(r)
  BY DEF BytesFound, BytesLeft

LEMMA LinksAreKept ==
    ASSUME NEW r \in Revision, Links(r), operations'[r] = operations[r],
           snapshot'[r] = snapshot[r] \/ operations[r] = <<>>
    PROVE  Links(r)'
  <1>1. CASE snapshot'[r] = snapshot[r]
    BY <1>1, SameOperations DEF Links
  <1>2. CASE operations[r] = <<>>
    BY <1>2, EmptyLogIsLinked DEF Links
  <1> QED BY <1>1, <1>2

\* The three opaque operations, each with what it does to its revision.
LEMMA SnapshotOperations ==
    ASSUME Bookkeeping, NEW b \in Branch, NEW r \in Revision, head[b] = r,
           NEW expected
    PROVE  /\ \A bytes \in Bytes : ReplaceWorkingSnapshot(b, expected, bytes) =>
                 ApplySnapshotOperation(r, bytes, "replace", 0)
           /\ UndoLastChange(b, expected) =>
                 \E target :
                    /\ Stacks(operations[r]).applied # <<>>
                    /\ target = Top(Stacks(operations[r]).applied)
                    /\ target \in DOMAIN operations[r]
                    /\ ApplySnapshotOperation(r, operations[r][target].before,
                                              "undo", target)
           /\ RedoLastChange(b, expected) =>
                 \E target :
                    /\ Stacks(operations[r]).undone # <<>>
                    /\ target = Top(Stacks(operations[r]).undone)
                    /\ target \in DOMAIN operations[r]
                    /\ ApplySnapshotOperation(r, operations[r][target].after,
                                              "redo", target)
  BY DEF ReplaceWorkingSnapshot, UndoLastChange, RedoLastChange

LEMMA OthersStayLinked ==
    ASSUME Bookkeeping, SnapshotsAreLinked, NEW r \in Revision, Links(r)',
           NEW new, NEW action, NEW target,
           ApplySnapshotOperation(r, new, action, target)
    PROVE  SnapshotsAreLinked'
  <1>1. PICK n : n = Len(operations[r]) + 1
    OBVIOUS
  <1>2. \A s \in Revision : s # r =>
           operations'[s] = operations[s] /\ snapshot'[s] = snapshot[s]
    BY <1>1, OperationIsRecorded DEF OperationRecorded, Bookkeeping
  <1>3. \A s \in Revision : Links(s)'
    BY <1>2, LinksAreKept DEF SnapshotsAreLinked
  <1> QED BY <1>3 DEF SnapshotsAreLinked

LEMMA SnapshotStepsKeepLinks ==
    ASSUME Bookkeeping, SnapshotsAreLinked, NEW b \in Branch, NEW expected
    PROVE  /\ \A bytes \in Bytes :
                 ReplaceWorkingSnapshot(b, expected, bytes) => SnapshotsAreLinked'
           /\ UndoLastChange(b, expected) => SnapshotsAreLinked'
           /\ RedoLastChange(b, expected) => SnapshotsAreLinked'
  <1>1. OpaqueHead(b, expected) => \E r \in Revision : head[b] = r /\ Links(r)
    BY DEF OpaqueHead, HasWorkingHead, Bookkeeping, TypeOK, SnapshotsAreLinked
  <1>2. ASSUME NEW bytes \in Bytes, ReplaceWorkingSnapshot(b, expected, bytes)
        PROVE  SnapshotsAreLinked'
    <2>1. PICK r \in Revision : head[b] = r /\ Links(r)
      BY <1>1, <1>2 DEF ReplaceWorkingSnapshot
    <2>2. ApplySnapshotOperation(r, bytes, "replace", 0)
      BY <1>2, <2>1, SnapshotOperations
    <2> QED BY <2>1, <2>2, ReplaceEffect, OthersStayLinked
  <1>3. ASSUME UndoLastChange(b, expected)
        PROVE  SnapshotsAreLinked'
    <2>1. PICK r \in Revision : head[b] = r /\ Links(r)
      BY <1>1, <1>3 DEF UndoLastChange
    <2>2. PICK target :
             /\ Stacks(operations[r]).applied # <<>>
             /\ target = Top(Stacks(operations[r]).applied)
             /\ target \in DOMAIN operations[r]
             /\ ApplySnapshotOperation(r, operations[r][target].before, "undo", target)
      BY <1>3, <2>1, SnapshotOperations
    <2> QED BY <2>1, <2>2, UndoEffect, OthersStayLinked
  <1>4. ASSUME RedoLastChange(b, expected)
        PROVE  SnapshotsAreLinked'
    <2>1. PICK r \in Revision : head[b] = r /\ Links(r)
      BY <1>1, <1>4 DEF RedoLastChange
    <2>2. PICK target :
             /\ Stacks(operations[r]).undone # <<>>
             /\ target = Top(Stacks(operations[r]).undone)
             /\ target \in DOMAIN operations[r]
             /\ ApplySnapshotOperation(r, operations[r][target].after, "redo", target)
      BY <1>4, <2>1, SnapshotOperations
    <2> QED BY <2>1, <2>2, RedoEffect, OthersStayLinked
  <1> QED BY <1>2, <1>3, <1>4

LEMMA LinksStep ==
    Bookkeeping /\ SnapshotsAreLinked /\ [Next]_tables => SnapshotsAreLinked'
  <1> SUFFICES ASSUME Bookkeeping, SnapshotsAreLinked, [Next]_tables
               PROVE  SnapshotsAreLinked'
    OBVIOUS
  <1>1. ASSUME operations' = operations,
               \A s \in Revision : snapshot'[s] = snapshot[s] \/ operations[s] = <<>>
        PROVE  SnapshotsAreLinked'
    BY <1>1, LinksAreKept DEF SnapshotsAreLinked
  <1>2. \A s \in Revision : state[s] = "unused" => operations[s] = <<>>
    BY DEF Bookkeeping, UnusedRevisionsAreBlank
  <1>3. ASSUME NEW b \in Branch, NEW r \in Revision, CreateProject(b, r)
        PROVE  SnapshotsAreLinked'
    BY <1>1, <1>3 DEF CreateProject
  <1>4. ASSUME NEW b \in Branch, NEW r \in Revision, NEW base \in Revision,
               CreateBranch(b, r, base)
        PROVE  SnapshotsAreLinked'
    BY <1>1, <1>2, <1>4 DEF CreateBranch, Bookkeeping, TypeOK
  <1>5. ASSUME NEW b \in Branch, NEW new \in Revision, NEW expected,
               Finalize(b, new, expected)
        PROVE  SnapshotsAreLinked'
    <2>1. /\ head[b] \in Revision /\ state[new] = "unused"
          /\ operations' = operations
          /\ snapshot' = [snapshot EXCEPT
                ![head[b]] = IF objectMode[head[b]] = 0 THEN @ ELSE ObjectManifest,
                ![new] = IF objectMode[head[b]] = 0 THEN snapshot[head[b]] ELSE NoBytes]
          /\ objectMode[head[b]] \in {0, 1}
          /\ snapshot \in [Revision -> Bytes \cup {NoBytes, ObjectManifest}]
      BY <1>5 DEF Finalize, SealAndAdvance, HasWorkingHead, Bookkeeping, TypeOK
    <2>2. objectMode[head[b]] # 0 => operations[head[b]] = <<>>
      BY <2>1 DEF Bookkeeping, ObjectModeHasNoOperations
    <2> QED BY <1>1, <1>2, <2>1, <2>2
  <1>6. ASSUME NEW b, NEW edits, NEW action, NEW target,
               ApplyEdits(b, edits, action, target)
        PROVE  SnapshotsAreLinked'
    BY <1>1, <1>6 DEF ApplyEdits
  <1>7. ASSUME NEW b \in Branch, NEW expected
        PROVE  /\ \A edit \in Edit : ModifyObject(b, edit) => SnapshotsAreLinked'
               /\ \A edits \in EditGroups :
                     CommitObjectGroup(b, expected, edits) => SnapshotsAreLinked'
               /\ \A redo \in BOOLEAN :
                     CompensateObjectGroup(b, expected, redo) => SnapshotsAreLinked'
    BY <1>6 DEF ModifyObject, CommitObjectGroup, CompensateObjectGroup
  <1>8. CASE UNCHANGED tables
    BY <1>1, <1>8 DEF tables
  <1> QED
    BY <1>3, <1>4, <1>5, <1>7, <1>8, SnapshotStepsKeepLinks DEF Next

LEMMA LinksAreInvariant == Spec => [](Bookkeeping /\ SnapshotsAreLinked)
  <1>1. Init => SnapshotsAreLinked
    BY EmptyLogIsLinked DEF Init, SnapshotsAreLinked, Links
  <1>2. Bookkeeping /\ SnapshotsAreLinked /\ [Next]_tables => SnapshotsAreLinked'
    BY LinksStep
  <1> QED
    BY <1>1, <1>2, BookkeepingIsInvariant, PTL DEF Spec

LEMMA LinksSuffice ==
    Bookkeeping /\ SnapshotsAreLinked => SnapshotUndoNeverConflicts
  <1> SUFFICES ASSUME Bookkeeping, SnapshotsAreLinked, NEW b \in Branch,
                      HasWorkingHead(b), objectMode[head[b]] = 0
               PROVE  LET r      == head[b]
                          stacks == Stacks(operations[r])
                      IN
                      /\ stacks.valid
                      /\ stacks.applied # <<>> =>
                            /\ Top(stacks.applied) \in DOMAIN operations[r]
                            /\ snapshot[r] = operations[r][Top(stacks.applied)].after
                      /\ stacks.undone # <<>> =>
                            /\ Top(stacks.undone) \in DOMAIN operations[r]
                            /\ snapshot[r] = operations[r][Top(stacks.undone)].before
    BY DEF SnapshotUndoNeverConflicts
  <1>1. PICK r \in Revision : head[b] = r /\ Links(r)
    BY DEF HasWorkingHead, Bookkeeping, TypeOK, SnapshotsAreLinked
  <1>2. PICK P, stacks, stack, other :
           /\ P = DOMAIN operations[r] /\ stacks = Stacks(operations[r])
           /\ stack = stacks.applied /\ other = stacks.undone
    OBVIOUS
  <1>3. /\ stacks \in ValidStacks(P)
        /\ Linked(snapshot[r], stack, BytesFound(r), BytesLeft(r))
        /\ Linked(snapshot[r], other, BytesLeft(r), BytesFound(r))
    BY <1>1, <1>2 DEF Links, LinkedStacks
  <1>4. stack \in Seq(P) /\ other \in Seq(P) /\ stacks.valid
    BY <1>2, <1>3 DEF ValidStacks
  <1>5. stack # <<>> => Top(stack) \in P /\ BytesLeft(r)[Top(stack)] = snapshot[r]
    BY <1>3, <1>4, LinkedTop
  <1>6. other # <<>> => Top(other) \in P /\ BytesFound(r)[Top(other)] = snapshot[r]
    BY <1>3, <1>4, LinkedTop
  <1> QED BY <1>1, <1>2, <1>4, <1>5, <1>6 DEF BytesFound, BytesLeft

\* What the next undo of an opaque revision would take back left exactly the
\* snapshot that is stored, and what the next redo would repeat found it: the
\* checks of undoLastChange and redoLastChange (history.cpp) never refuse a
\* caller that knows the generation, however long the history is.
THEOREM SnapshotUndoNeverMeetsConflicts == Spec => []SnapshotUndoNeverConflicts
  BY LinksAreInvariant, LinksSuffice, PTL

-----------------------------------------------------------------------------
(* Opaque edits refine EditHistory.                                        *)

\* The mapping of HistoryRefinement, read off the stacks.
HistoryIsHeld ==
    \A b \in Branch :
        /\ head[b] = NoRevision => SnapshotPast(b) = <<>> /\ SnapshotFuture(b) = <<>>
        /\ \A r \in Revision : head[b] = r =>
              SnapshotPast(b) = BytesBefore(r) /\ SnapshotFuture(b) = BytesAfter(r)

LEMMA MappingIsHeld == SnapshotsAreLinked => HistoryIsHeld
  <1> SUFFICES ASSUME SnapshotsAreLinked, NEW b \in Branch
               PROVE  /\ head[b] = NoRevision =>
                            SnapshotPast(b) = <<>> /\ SnapshotFuture(b) = <<>>
                      /\ \A r \in Revision : head[b] = r =>
                            /\ SnapshotPast(b) = BytesBefore(r)
                            /\ SnapshotFuture(b) = BytesAfter(r)
    BY DEF HistoryIsHeld
  <1>1. head[b] = NoRevision => SnapshotPast(b) = <<>> /\ SnapshotFuture(b) = <<>>
    BY DEF SnapshotPast, SnapshotFuture, IsOpen
  <1>2. ASSUME NEW r \in Revision, head[b] = r
        PROVE  SnapshotPast(b) = BytesBefore(r) /\ SnapshotFuture(b) = BytesAfter(r)
    <2>1. PICK P, stack, other : /\ P = DOMAIN operations[r]
                                 /\ stack = Stacks(operations[r]).applied
                                 /\ other = Stacks(operations[r]).undone
      OBVIOUS
    <2>2. stack \in Seq(P) /\ other \in Seq(P)
      BY <2>1 DEF SnapshotsAreLinked, Links, LinkedStacks, ValidStacks
    <2>3. /\ \A k \in DOMAIN stack : stack[k] \in P
          /\ \A k \in DOMAIN other : other[k] \in P
      BY <2>2
    <2>4. IsOpen(b)
      BY <1>2, NullsAreNotValues DEF IsOpen
    <2>5. /\ SnapshotPast(b) = [k \in DOMAIN stack |-> operations[r][stack[k]].before]
          /\ SnapshotFuture(b) = [k \in DOMAIN other |-> operations[r][other[k]].after]
      BY <1>2, <2>1, <2>4 DEF SnapshotPast, SnapshotFuture
    <2>6. /\ \A k \in DOMAIN stack :
                operations[r][stack[k]].before = BytesFound(r)[stack[k]]
          /\ \A k \in DOMAIN other :
                operations[r][other[k]].after = BytesLeft(r)[other[k]]
      BY <2>1, <2>3 DEF BytesFound, BytesLeft
    <2> QED BY <2>1, <2>5, <2>6 DEF BytesBefore, BytesAfter, Held
  <1> QED BY <1>1, <1>2

LEMMA BytesType ==
    ASSUME Bookkeeping, NEW b \in Branch
    PROVE  VisibleBytes(b) \in Bytes \cup {NoBytes}
  <1>1. head[b] \in Revision \/ head[b] = NoRevision
    BY DEF Bookkeeping, TypeOK
  <1> QED BY <1>1 DEF VisibleBytes, IsOpen, Bookkeeping, TypeOK, OpaqueSnapshots

SnapshotHistoryStep(b) ==
    [SnapshotHistoryOf(b)!HNext]_(SnapshotHistoryOf(b)!hvars)

SnapshotHistorySteps == \A b \in Branch : SnapshotHistoryStep(b)

\* A branch whose bytes and operations the step leaves alone.
LEMMA UntouchedBytes ==
    ASSUME Bookkeeping, HistoryIsHeld, HistoryIsHeld',
           NEW b \in Branch, head'[b] = head[b], VisibleBytes(b)' = VisibleBytes(b),
           head[b] # NoRevision => operations'[head[b]] = operations[head[b]]
    PROVE  SnapshotHistoryStep(b)
  <1>1. IsOpen(b)' = IsOpen(b)
    BY DEF IsOpen
  <1>2. CASE head[b] = NoRevision
    <2>1. /\ SnapshotPast(b) = <<>> /\ SnapshotFuture(b) = <<>>
          /\ SnapshotPast(b)' = <<>> /\ SnapshotFuture(b)' = <<>>
      BY <1>2 DEF HistoryIsHeld
    <2> QED BY <1>1, <2>1 DEF SnapshotHistoryStep, SnapshotHistoryOf!hvars
  <1>3. CASE head[b] # NoRevision
    <2>1. PICK r \in Revision : head[b] = r
      BY <1>3 DEF Bookkeeping, TypeOK
    <2>2. BytesBefore(r)' = BytesBefore(r) /\ BytesAfter(r)' = BytesAfter(r)
      BY <1>3, <2>1, SameOperations DEF BytesBefore, BytesAfter
    <2>3. SnapshotPast(b)' = SnapshotPast(b) /\ SnapshotFuture(b)' = SnapshotFuture(b)
      BY <2>1, <2>2 DEF HistoryIsHeld
    <2> QED BY <1>1, <2>3 DEF SnapshotHistoryStep, SnapshotHistoryOf!hvars
  <1> QED BY <1>2, <1>3

\* A step that keeps the head of a branch and what is recorded of it.
LEMMA UntouchedRevision ==
    ASSUME Bookkeeping, HistoryIsHeld, HistoryIsHeld',
           NEW b \in Branch, head'[b] = head[b],
           head[b] # NoRevision => /\ operations'[head[b]] = operations[head[b]]
                                   /\ snapshot'[head[b]] = snapshot[head[b]]
                                   /\ objectMode'[head[b]] = objectMode[head[b]]
    PROVE  SnapshotHistoryStep(b)
  <1>1. VisibleBytes(b)' = VisibleBytes(b)
    BY DEF VisibleBytes, IsOpen
  <1> QED BY <1>1, UntouchedBytes

LEMMA NewHeadOpensOrSealsBytes ==
    ASSUME Bookkeeping, Bookkeeping', HistoryIsHeld, HistoryIsHeld',
           operations' = operations, NEW b \in Branch, NEW new \in Revision,
           state[new] = "unused", head'[b] = new,
           head[b] = NoRevision \/ VisibleBytes(b)' = VisibleBytes(b)
    PROVE  SnapshotHistoryStep(b)
  <1>1. operations'[new] = <<>> /\ IsOpen(b)'
    BY NullsAreNotValues DEF Bookkeeping, UnusedRevisionsAreBlank, IsOpen
  <1>2. BytesBefore(new)' = <<>> /\ BytesAfter(new)' = <<>>
    <2>1. Stacks(operations'[new]).applied = <<>> /\ Stacks(operations'[new]).undone = <<>>
      BY <1>1, StacksEmpty DEF NoStacks
    <2>2. \A value : Held(<<>>, value) = <<>>
      BY DEF Held
    <2> QED BY <2>1, <2>2 DEF BytesBefore, BytesAfter
  <1>3. SnapshotPast(b)' = <<>> /\ SnapshotFuture(b)' = <<>>
    BY <1>2 DEF HistoryIsHeld
  <1>4. CASE head[b] = NoRevision
    <2>1. ~IsOpen(b) /\ SnapshotPast(b) = <<>> /\ SnapshotFuture(b) = <<>>
      BY <1>4 DEF HistoryIsHeld, IsOpen
    <2>2. VisibleBytes(b)' \in Bytes \cup {NoBytes}
      <3>1. head'[b] \in Revision /\ Bookkeeping'
        OBVIOUS
      <3> QED BY <3>1 DEF VisibleBytes, IsOpen, Bookkeeping, TypeOK, OpaqueSnapshots
    <2>3. SnapshotHistoryOf(b)!Open
      BY <1>1, <1>3, <2>1, <2>2 DEF SnapshotHistoryOf!Open
    <2> QED BY <2>3 DEF SnapshotHistoryStep, SnapshotHistoryOf!HNext
  <1>5. CASE head[b] # NoRevision
    <2>1. IsOpen(b) /\ VisibleBytes(b)' = VisibleBytes(b)
      BY <1>5 DEF IsOpen
    <2>2. SnapshotHistoryOf(b)!Seal
      BY <1>1, <1>3, <2>1 DEF SnapshotHistoryOf!Seal
    <2> QED BY <2>2 DEF SnapshotHistoryStep, SnapshotHistoryOf!HNext
  <1> QED BY <1>4, <1>5

\* The opaque operations on the branch they name.
LEMMA SnapshotOperationsAreHistorySteps ==
    ASSUME Bookkeeping, SnapshotsAreLinked, HistoryIsHeld, HistoryIsHeld',
           NEW b \in Branch, NEW expected
    PROVE  /\ \A bytes \in Bytes :
                 ReplaceWorkingSnapshot(b, expected, bytes) => SnapshotHistoryStep(b)
           /\ UndoLastChange(b, expected) => SnapshotHistoryStep(b)
           /\ RedoLastChange(b, expected) => SnapshotHistoryStep(b)
  <1>1. OpaqueHead(b, expected) =>
           \E r \in Revision : /\ head[b] = r /\ Links(r) /\ IsOpen(b)
                               /\ objectMode[r] = 0
    BY DEF OpaqueHead, HasWorkingHead, Bookkeeping, TypeOK, SnapshotsAreLinked,
           IsOpen
  <1>2. ASSUME NEW r \in Revision, head[b] = r, IsOpen(b), objectMode[r] = 0,
               NEW new, NEW action, NEW target,
               ApplySnapshotOperation(r, new, action, target)
        PROVE  /\ IsOpen(b)' /\ snapshot[r] # new
               /\ VisibleBytes(b) = snapshot[r] /\ VisibleBytes(b)' = new
               /\ snapshot'[r] = new
               /\ SnapshotPast(b) = BytesBefore(r) /\ SnapshotFuture(b) = BytesAfter(r)
               /\ SnapshotPast(b)' = BytesBefore(r)'
               /\ SnapshotFuture(b)' = BytesAfter(r)'
    <2>1. /\ head' = head /\ objectMode' = objectMode
          /\ snapshot'[r] = new /\ snapshot[r] # new
      BY <1>2 DEF ApplySnapshotOperation, Bookkeeping, TypeOK
    <2> QED BY <1>2, <2>1 DEF IsOpen, VisibleBytes, HistoryIsHeld
  <1>3. ASSUME NEW bytes \in Bytes, ReplaceWorkingSnapshot(b, expected, bytes)
        PROVE  SnapshotHistoryOf(b)!Change
    <2>1. PICK r \in Revision : /\ head[b] = r /\ Links(r) /\ IsOpen(b)
                                /\ objectMode[r] = 0
      BY <1>1, <1>3 DEF ReplaceWorkingSnapshot
    <2>2. ApplySnapshotOperation(r, bytes, "replace", 0)
      BY <1>3, <2>1, SnapshotOperations
    <2>3. /\ BytesBefore(r)' = Append(BytesBefore(r), snapshot[r])
          /\ BytesAfter(r)' = <<>>
      BY <2>1, <2>2, ReplaceEffect
    <2> QED BY <1>2, <2>1, <2>2, <2>3 DEF SnapshotHistoryOf!Change
  <1>4. ASSUME UndoLastChange(b, expected)
        PROVE  SnapshotHistoryOf(b)!Undo
    <2>1. PICK r \in Revision : /\ head[b] = r /\ Links(r) /\ IsOpen(b)
                                /\ objectMode[r] = 0
      BY <1>1, <1>4 DEF UndoLastChange
    <2>2. PICK target :
             /\ Stacks(operations[r]).applied # <<>>
             /\ target = Top(Stacks(operations[r]).applied)
             /\ target \in DOMAIN operations[r]
             /\ ApplySnapshotOperation(r, operations[r][target].before, "undo", target)
      BY <1>4, <2>1, SnapshotOperations
    <2>3. /\ BytesBefore(r) # <<>>
          /\ snapshot'[r] = BytesBefore(r)[Len(BytesBefore(r))]
          /\ BytesBefore(r)' = SubSeq(BytesBefore(r), 1, Len(BytesBefore(r)) - 1)
          /\ BytesAfter(r)' = Append(BytesAfter(r), snapshot[r])
      BY <2>1, <2>2, UndoEffect
    <2>4. /\ IsOpen(b)'
          /\ VisibleBytes(b) = snapshot[r] /\ VisibleBytes(b)' = snapshot'[r]
          /\ SnapshotPast(b) = BytesBefore(r) /\ SnapshotFuture(b) = BytesAfter(r)
          /\ SnapshotPast(b)' = BytesBefore(r)'
          /\ SnapshotFuture(b)' = BytesAfter(r)'
      BY <1>2, <2>1, <2>2
    <2> QED BY <2>1, <2>3, <2>4
            DEF SnapshotHistoryOf!Undo, SnapshotHistoryOf!Newest,
                SnapshotHistoryOf!Without
  <1>5. ASSUME RedoLastChange(b, expected)
        PROVE  SnapshotHistoryOf(b)!Redo
    <2>1. PICK r \in Revision : /\ head[b] = r /\ Links(r) /\ IsOpen(b)
                                /\ objectMode[r] = 0
      BY <1>1, <1>5 DEF RedoLastChange
    <2>2. PICK target :
             /\ Stacks(operations[r]).undone # <<>>
             /\ target = Top(Stacks(operations[r]).undone)
             /\ target \in DOMAIN operations[r]
             /\ ApplySnapshotOperation(r, operations[r][target].after, "redo", target)
      BY <1>5, <2>1, SnapshotOperations
    <2>3. /\ BytesAfter(r) # <<>>
          /\ snapshot'[r] = BytesAfter(r)[Len(BytesAfter(r))]
          /\ BytesAfter(r)' = SubSeq(BytesAfter(r), 1, Len(BytesAfter(r)) - 1)
          /\ BytesBefore(r)' = Append(BytesBefore(r), snapshot[r])
      BY <2>1, <2>2, RedoEffect
    <2>4. /\ IsOpen(b)'
          /\ VisibleBytes(b) = snapshot[r] /\ VisibleBytes(b)' = snapshot'[r]
          /\ SnapshotPast(b) = BytesBefore(r) /\ SnapshotFuture(b) = BytesAfter(r)
          /\ SnapshotPast(b)' = BytesBefore(r)'
          /\ SnapshotFuture(b)' = BytesAfter(r)'
      BY <1>2, <2>1, <2>2
    <2> QED BY <2>1, <2>3, <2>4
            DEF SnapshotHistoryOf!Redo, SnapshotHistoryOf!Newest,
                SnapshotHistoryOf!Without
  <1> QED BY <1>3, <1>4, <1>5 DEF SnapshotHistoryStep, SnapshotHistoryOf!HNext

\* Every step is a step of the opaque history of each branch, or leaves it alone.
LEMMA EveryStepIsASnapshotStep ==
    ASSUME ReplayInvariant, SnapshotsAreLinked, HistoryIsHeld,
           Bookkeeping', HistoryIsHeld', [Next]_tables
    PROVE  SnapshotHistorySteps
  <1>0. Bookkeeping
    BY DEF ReplayInvariant
  <1>1. ASSUME NEW b \in Branch, NEW c \in Branch, c # b, head'[c] = head[c],
               \A s \in Revision : s # head[b] => operations'[s] = operations[s],
               \A s \in Revision : s # head[b] /\ state[s] # "unused" =>
                  snapshot'[s] = snapshot[s] /\ objectMode'[s] = objectMode[s]
        PROVE  SnapshotHistoryStep(c)
    <2>1. head[c] # NoRevision =>
             head[c] \in Revision /\ head[c] # head[b] /\ state[head[c]] = "working"
      BY <1>1, HeadsAreApart DEF ReplayInvariant, Lineage, HeadsAreWorking,
                                 Bookkeeping, TypeOK
    <2>2. head[c] # NoRevision => /\ operations'[head[c]] = operations[head[c]]
                                  /\ snapshot'[head[c]] = snapshot[head[c]]
                                  /\ objectMode'[head[c]] = objectMode[head[c]]
      BY <1>1, <2>1
    <2> QED BY <1>0, <1>1, <2>2, UntouchedRevision
  <1>2. ASSUME NEW b \in Branch, NEW r \in Revision, state[r] = "unused",
               head' = [head EXCEPT ![b] = r], operations' = operations,
               head[b] = NoRevision \/ VisibleBytes(b)' = VisibleBytes(b),
               \A s \in Revision : s # head[b] /\ state[s] # "unused" =>
                  snapshot'[s] = snapshot[s] /\ objectMode'[s] = objectMode[s]
        PROVE  SnapshotHistorySteps
    <2>1. head'[b] = r /\ \A c \in Branch : c # b => head'[c] = head[c]
      BY <1>0, <1>2 DEF Bookkeeping, TypeOK
    <2>2. SnapshotHistoryStep(b)
      BY <1>0, <1>2, <2>1, NewHeadOpensOrSealsBytes
    <2>3. \A c \in Branch : c # b => SnapshotHistoryStep(c)
      BY <1>1, <1>2, <2>1
    <2> QED BY <2>2, <2>3 DEF SnapshotHistorySteps
  <1>3. ASSUME NEW b \in Branch, NEW r \in Revision, CreateProject(b, r)
        PROVE  SnapshotHistorySteps
    BY <1>2, <1>3 DEF CreateProject
  <1>4. ASSUME NEW b \in Branch, NEW r \in Revision, NEW base \in Revision,
               CreateBranch(b, r, base)
        PROVE  SnapshotHistorySteps
    <2>1. \A s \in Revision : state[s] # "unused" =>
             snapshot'[s] = snapshot[s] /\ objectMode'[s] = objectMode[s]
      BY <1>0, <1>4 DEF CreateBranch, Bookkeeping, TypeOK
    <2> QED BY <1>2, <1>4, <2>1 DEF CreateBranch
  <1>5. ASSUME NEW b \in Branch, NEW new \in Revision, NEW expected,
               Finalize(b, new, expected)
        PROVE  SnapshotHistorySteps
    <2>1. PICK r \in Revision : head[b] = r
      BY <1>0, <1>5 DEF Finalize, HasWorkingHead, Bookkeeping, TypeOK
    <2>2. /\ state[r] = "working" /\ state[new] = "unused" /\ new # r
          /\ head' = [head EXCEPT ![b] = new] /\ operations' = operations
          /\ objectMode' = [objectMode EXCEPT ![new] = objectMode[r]]
          /\ snapshot' = [snapshot EXCEPT
                ![r] = IF objectMode[r] = 0 THEN @ ELSE ObjectManifest,
                ![new] = IF objectMode[r] = 0 THEN snapshot[r] ELSE NoBytes]
          /\ objectMode \in [Revision -> {0, 1}]
          /\ snapshot \in [Revision -> Bytes \cup {NoBytes, ObjectManifest}]
          /\ head \in [Branch -> Revision \cup {NoRevision}]
      BY <1>0, <1>5, <2>1 DEF Finalize, SealAndAdvance, HasWorkingHead,
                              Bookkeeping, TypeOK
    <2>3. \A s \in Revision : s # head[b] /\ state[s] # "unused" =>
             snapshot'[s] = snapshot[s] /\ objectMode'[s] = objectMode[s]
      BY <2>1, <2>2
    <2>4. VisibleBytes(b)' = VisibleBytes(b)
      <3>1. head'[b] = new /\ objectMode'[new] = objectMode[r]
            /\ (objectMode[r] = 0 => snapshot'[new] = snapshot[r])
        BY <2>2
      <3> QED BY <2>1, <3>1, NullsAreNotValues DEF VisibleBytes, IsOpen
    <2> QED BY <1>2, <2>2, <2>3, <2>4
  <1>6. ASSUME NEW b \in Branch, ObjectStep(b)
        PROVE  SnapshotHistorySteps
    <2>1. PICK edits \in Seq(TypedEdit), action \in {"edit", "undo", "redo"},
                target \in Nat :
             HasWorkingHead(b) /\ ApplyEdits(b, edits, action, target)
      BY <1>6 DEF ObjectStep
    <2>2. EditEffect(b, edits, action, target)
      BY <1>0, <2>1, ApplyEditsEffect
    <2>3. PICK r \in Revision : head[b] = r
      BY <2>2 DEF EditEffect
    <2>4. /\ head' = head /\ operations' = operations /\ snapshot' = snapshot
          /\ objectMode' = [objectMode EXCEPT ![r] = 1]
          /\ objectMode[r] = 0 => snapshot[r] = NoBytes
          /\ objectMode \in [Revision -> {0, 1}]
      BY <1>0, <2>2, <2>3 DEF EditEffect, Bookkeeping, TypeOK
    <2>5. VisibleBytes(b)' = VisibleBytes(b)
      BY <2>3, <2>4 DEF VisibleBytes, IsOpen
    <2>6. SnapshotHistoryStep(b)
      BY <1>0, <2>4, <2>5, UntouchedBytes
    <2>7. \A c \in Branch : c # b => SnapshotHistoryStep(c)
      BY <1>1, <2>3, <2>4
    <2> QED BY <2>6, <2>7 DEF SnapshotHistorySteps
  <1>7. ASSUME NEW b \in Branch, SnapshotStep(b), SnapshotHistoryStep(b)
        PROVE  SnapshotHistorySteps
    <2>1. /\ head' = head /\ objectMode' = objectMode
          /\ \A s \in Revision : s # head[b] => /\ snapshot'[s] = snapshot[s]
                                                /\ operations'[s] = operations[s]
      BY <1>7, SnapshotStepFrame
    <2>2. \A c \in Branch : c # b => SnapshotHistoryStep(c)
      BY <1>1, <2>1
    <2> QED BY <1>7, <2>2 DEF SnapshotHistorySteps
  <1>8. ASSUME NEW b \in Branch, NEW expected
        PROVE  /\ \A bytes \in Bytes :
                     ReplaceWorkingSnapshot(b, expected, bytes) => SnapshotHistorySteps
               /\ UndoLastChange(b, expected) => SnapshotHistorySteps
               /\ RedoLastChange(b, expected) => SnapshotHistorySteps
    <2>1. /\ \A bytes \in Bytes :
                ReplaceWorkingSnapshot(b, expected, bytes) => SnapshotStep(b)
          /\ UndoLastChange(b, expected) => SnapshotStep(b)
          /\ RedoLastChange(b, expected) => SnapshotStep(b)
      BY DEF ReplaceWorkingSnapshot, UndoLastChange, RedoLastChange, SnapshotStep
    <2> QED BY <1>0, <1>7, <2>1, SnapshotOperationsAreHistorySteps
  <1>9. ASSUME UNCHANGED tables
        PROVE  SnapshotHistorySteps
    BY <1>0, <1>9, UntouchedRevision DEF tables, SnapshotHistorySteps
  <1>10. ASSUME NEW b \in Branch, NEW expected
         PROVE  /\ \A edit \in Edit : ModifyObject(b, edit) => ObjectStep(b)
                /\ \A edits \in EditGroups :
                      CommitObjectGroup(b, expected, edits) => ObjectStep(b)
                /\ \A redo \in BOOLEAN :
                      CompensateObjectGroup(b, expected, redo) => ObjectStep(b)
    <2>1. \A edit \in Edit : ModifyObject(b, edit) => ObjectStep(b)
      BY EditsAreTyped DEF ModifyObject, ObjectStep
    <2>2. \A edits \in EditGroups :
             CommitObjectGroup(b, expected, edits) => ObjectStep(b)
      BY EditsAreTyped DEF CommitObjectGroup, ObjectStep
    <2> QED BY <1>0, <2>1, <2>2, CompensationIsObjectStep
  <1> QED
    BY <1>3, <1>4, <1>5, <1>6, <1>8, <1>9, <1>10 DEF Next

LEMMA InitialSnapshotHistories ==
    Init => \A b \in Branch : SnapshotHistoryOf(b)!HInit
  <1> SUFFICES ASSUME Init, NEW b \in Branch
               PROVE  SnapshotHistoryOf(b)!HInit
    OBVIOUS
  <1>1. head[b] = NoRevision
    BY DEF Init
  <1>2. /\ ~IsOpen(b) /\ VisibleBytes(b) = NoBytes
        /\ SnapshotPast(b) = <<>> /\ SnapshotFuture(b) = <<>>
    BY <1>1 DEF IsOpen, VisibleBytes, SnapshotPast, SnapshotFuture
  <1> QED BY <1>2 DEF SnapshotHistoryOf!HInit

\* Undo and redo of whole-snapshot replacements behave as a linear edit history
\* on every branch (replaceWorkingSnapshot, undoLastChange, redoLastChange), and
\* no object edit, finalization or other branch disturbs it.
THEOREM SnapshotEditsRefineEditHistory == Spec => SnapshotEditsAreAHistory
  <1>1. Init => \A b \in Branch : SnapshotHistoryOf(b)!HInit
    BY InitialSnapshotHistories
  <1>2. SnapshotsAreLinked => HistoryIsHeld
    BY MappingIsHeld
  <1>3. /\ ReplayInvariant /\ SnapshotsAreLinked /\ HistoryIsHeld
        /\ Bookkeeping' /\ HistoryIsHeld' /\ [Next]_tables
        => SnapshotHistorySteps
    BY EveryStepIsASnapshotStep
  <1>4. Spec => [](Bookkeeping /\ SnapshotsAreLinked)
    BY LinksAreInvariant
  <1>5. Spec => [][SnapshotHistorySteps]_tables
    BY <1>2, <1>3, <1>4, ReplayInvariantIsInvariant, PTL DEF Spec
  <1> QED BY <1>1, <1>5, PTL DEF Spec, SnapshotEditsAreAHistory,
                                 SnapshotHistorySteps, SnapshotHistoryStep
=============================================================================
