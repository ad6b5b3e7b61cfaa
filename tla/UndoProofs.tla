----------------------------- MODULE UndoProofs -----------------------------
(***************************************************************************)
(* Undo and redo never conflict, and both histories of a branch behave as  *)
(* a linear edit history.  Nothing of that is stored: the stacks are what  *)
(* a replay of the log computes, and the earlier models are only rows in   *)
(* journal events.  The invariant says that they chain: the group at each  *)
(* position of a stack left (found) exactly the rows to which the groups   *)
(* above it lead back, and the top one the rows of the branch.             *)
(***************************************************************************)
EXTENDS HistoryProofs, HistoryRefinement, WellFoundedInduction,
        SequenceTheorems

-----------------------------------------------------------------------------
(* The replay of a log.                                                    *)

\* Induction over a set of naturals, from the well-foundedness of <: what
\* holds of 0 and passes from n to n + 1 has no least counterexample.
LEMMA NatSetInduction ==
  ASSUME NEW S, 0 \in S, \A n \in Nat : n \in S => n + 1 \in S
  PROVE  \A n \in Nat : n \in S
<1> DEFINE R == OpToRel(<, Nat)
           T == Nat \ S
<1>1. SUFFICES ASSUME T # {} PROVE FALSE
  OBVIOUS
<1>2. IsWellFoundedOn(R, Nat)
  BY NatLessThanWellFounded
<1>3. PICK m \in T : \A k \in T : <<k, m>> \notin R
  <2> HIDE DEF R
  <2> QED BY <1>1, <1>2, WFMin
<1>4. m \in Nat /\ m # 0 /\ m - 1 \in Nat
  OBVIOUS
<1>5. m - 1 \notin T
  <2>1. <<m - 1, m>> \in R
    BY <1>4 DEF OpToRel
  <2> QED BY <1>3, <2>1
<1> QED BY <1>4, <1>5

\* f holds the stacks after each of the first n entries of a log.
IsReplay(f, log, n) ==
    f = [k \in 0..n |-> IF k = 0 THEN NoStacks ELSE Replayed(f[k - 1], log[k], k)]

LEMMA ReplayExists ==
    ASSUME NEW log
    PROVE  \A n \in Nat : \E f : IsReplay(f, log, n)
  <1> DEFINE S == {n \in Nat : \E f : IsReplay(f, log, n)}
  <1>1. 0 \in S
    <2>1. IsReplay([k \in 0..0 |-> NoStacks], log, 0)
      BY DEF IsReplay
    <2> QED BY <2>1
  <1>2. ASSUME NEW n \in Nat, n \in S PROVE n + 1 \in S
    <2>1. PICK f : IsReplay(f, log, n)
      BY <1>2
    <2> DEFINE g == [k \in 0..(n + 1) |->
                        IF k = n + 1 THEN Replayed(f[n], log[n + 1], n + 1) ELSE f[k]]
    <2>2. ASSUME NEW k \in 0..(n + 1)
          PROVE  g[k] = IF k = 0 THEN NoStacks ELSE Replayed(g[k - 1], log[k], k)
      <3>1. CASE k = n + 1
        <4>1. k # 0 /\ k - 1 = n /\ n \in 0..(n + 1) /\ n # n + 1
          BY <3>1
        <4> QED BY <3>1, <4>1
      <3>2. CASE k # n + 1
        <4>1. k \in 0..n
          BY <3>2
        <4>2. g[k] = f[k]
          BY <3>2
        <4>3. k # 0 => k - 1 \in 0..(n + 1) /\ k - 1 # n + 1
          BY <4>1
        <4>4. k # 0 => g[k - 1] = f[k - 1]
          BY <4>3
        <4>5. f[k] = IF k = 0 THEN NoStacks ELSE Replayed(f[k - 1], log[k], k)
          BY <2>1, <4>1 DEF IsReplay
        <4> HIDE DEF g
        <4> QED BY <4>2, <4>4, <4>5
      <3> QED BY <3>1, <3>2
    <2>3. IsReplay(g, log, n + 1)
      BY <2>2 DEF IsReplay
    <2> QED BY <2>3
  <1> HIDE DEF S
  <1>3. \A n \in Nat : n \in S
    BY <1>1, <1>2, NatSetInduction
  <1> QED BY <1>3 DEF S

\* Two replays agree as long as their logs do.
LEMMA ReplayUnique ==
    ASSUME NEW log, NEW long, NEW n \in Nat, NEW m \in Nat, n <= m,
           \A i \in 1..n : long[i] = log[i],
           NEW f, IsReplay(f, log, n), NEW g, IsReplay(g, long, m)
    PROVE  \A k \in 0..n : g[k] = f[k]
  <1> DEFINE S == {k \in Nat : k <= n => g[k] = f[k]}
  <1>1. 0 \in S
    BY DEF IsReplay
  <1>2. ASSUME NEW k \in Nat, k \in S PROVE k + 1 \in S
    <2> SUFFICES ASSUME k + 1 <= n PROVE g[k + 1] = f[k + 1]
      OBVIOUS
    <2>1. k + 1 \in 0..n /\ k + 1 \in 0..m /\ k + 1 # 0 /\ (k + 1) - 1 = k
          /\ k + 1 \in 1..n /\ k <= n
      OBVIOUS
    <2>2. f[k + 1] = Replayed(f[k], log[k + 1], k + 1)
      BY <2>1 DEF IsReplay
    <2>3. g[k + 1] = Replayed(g[k], long[k + 1], k + 1)
      BY <2>1 DEF IsReplay
    <2> QED BY <1>2, <2>1, <2>2, <2>3
  <1> HIDE DEF S
  <1>3. \A k \in Nat : k \in S
    BY <1>1, <1>2, NatSetInduction
  <1> QED BY <1>3 DEF S

\* What the recursive function in Stacks computes is a replay.
LEMMA StacksReplay ==
    ASSUME NEW log, Len(log) \in Nat
    PROVE  \E f : IsReplay(f, log, Len(log)) /\ Stacks(log) = f[Len(log)]
  <1> DEFINE f == CHOOSE f : IsReplay(f, log, Len(log))
  <1>1. IsReplay(f, log, Len(log))
    BY ReplayExists
  <1>2. Stacks(log) = f[Len(log)]
    BY DEF Stacks, IsReplay
  <1> QED BY <1>1, <1>2

LEMMA StacksEmpty == Stacks(<<>>) = NoStacks
  <1>1. PICK f : IsReplay(f, <<>>, 0) /\ Stacks(<<>>) = f[0]
    BY StacksReplay
  <1> QED BY <1>1 DEF IsReplay

\* The stacks after one more entry are those before it with that entry
\* replayed: what undo and redo read follows from the log one entry at a time.
LEMMA StacksAppend ==
    ASSUME NEW E, NEW log \in Seq(E), NEW entry \in E
    PROVE  Stacks(Append(log, entry)) = Replayed(Stacks(log), entry, Len(log) + 1)
  <1> DEFINE n == Len(log)
             long == Append(log, entry)
  <1>1. n \in Nat /\ Len(long) = n + 1 /\ long[n + 1] = entry
        /\ \A i \in 1..n : long[i] = log[i]
    OBVIOUS
  <1> HIDE DEF n, long
  <1>2. PICK f : IsReplay(f, log, n) /\ Stacks(log) = f[n]
    BY <1>1, StacksReplay DEF n
  <1>3. PICK g : IsReplay(g, long, n + 1) /\ Stacks(long) = g[n + 1]
    BY <1>1, StacksReplay
  <1>4. g[n] = f[n]
    <2>1. n + 1 \in Nat /\ n <= n + 1 /\ n \in 0..n
      BY <1>1
    <2>2. \A k \in 0..n : g[k] = f[k]
      BY <1>1, <1>2, <1>3, <2>1, ReplayUnique
    <2> QED BY <2>1, <2>2
  <1>5. g[n + 1] = Replayed(g[n], long[n + 1], n + 1)
    <2>1. n + 1 \in 0..(n + 1) /\ n + 1 # 0 /\ (n + 1) - 1 = n
      BY <1>1
    <2> QED BY <1>3, <2>1 DEF IsReplay
  <1> QED BY <1>1, <1>2, <1>3, <1>4, <1>5 DEF n, long

-----------------------------------------------------------------------------
(* Rewinding a stack of positions.                                         *)

LEMMA SmallestIsLeast ==
    ASSUME NEW S \in SUBSET Nat, S # {}
    PROVE  /\ Smallest(S) \in S
           /\ \A y \in S : Smallest(S) <= y
  <1> DEFINE R == OpToRel(<, Nat)
  <1>1. IsWellFoundedOn(R, Nat)
    BY NatLessThanWellFounded
  <1>2. PICK m \in S : \A y \in S : <<y, m>> \notin R
    <2> HIDE DEF R
    <2> QED BY <1>1, WFMin
  <1>3. ASSUME NEW y \in S PROVE m <= y
    <2>1. y \in Nat /\ m \in Nat
      OBVIOUS
    <2>2. y < m => <<y, m>> \in R
      BY <2>1 DEF OpToRel
    <2> HIDE DEF R
    <2> QED BY <1>2, <2>1, <2>2
  <1> QED BY <1>3 DEF Smallest

LEMMA SmallestIs ==
    ASSUME NEW S \in SUBSET Nat, NEW x \in S, \A y \in S : x <= y
    PROVE  Smallest(S) = x
  <1>1. Smallest(S) \in S /\ \A y \in S : Smallest(S) <= y
    BY SmallestIsLeast
  <1>2. Smallest(S) \in Nat /\ x \in Nat
    BY <1>1
  <1> QED BY <1>1, <1>2

\* The view before the positions stack[k..] took effect, the last one first:
\* each object shows what the first of them that names it had left behind it.
Rewound(view, stack, names, left, k) ==
    [o \in Object |->
        LET at == {j \in k..Len(stack) : o \in names[stack[j]]} IN
        IF at = {} THEN view[o] ELSE left[stack[Smallest(at)]][o]]

\* Each position of the stack found the view that the later ones rewind to.
Chained(view, stack, names, left, found) ==
    \A k \in 1..Len(stack) : \A o \in names[stack[k]] :
        found[stack[k]][o] = Rewound(view, stack, names, left, k + 1)[o]

\* Rewinding g alone leads from the view above to the view below.
Separates(above, below, names, left, g) ==
    \A o \in Object :
        below[o] = IF o \in names[g] THEN left[g][o] ELSE above[o]

LEMMA RewoundTop ==
    ASSUME NEW G, NEW stack \in Seq(G), NEW view, DOMAIN view = Object,
           view = [o \in Object |-> view[o]], NEW names, NEW left
    PROVE  Rewound(view, stack, names, left, Len(stack) + 1) = view
  <1>1. (Len(stack) + 1)..Len(stack) = {}
    OBVIOUS
  <1>2. \A o \in Object :
           {j \in (Len(stack) + 1)..Len(stack) : o \in names[stack[j]]} = {}
    BY <1>1
  <1>3. \A o \in Object :
           Rewound(view, stack, names, left, Len(stack) + 1)[o] = view[o]
    BY <1>2 DEF Rewound
  <1> QED BY <1>3 DEF Rewound

\* Rewinding a pushed position first and then the rest is rewinding the rest.
LEMMA RewoundPush ==
    ASSUME NEW G, NEW stack \in Seq(G), NEW g \in G, NEW above, NEW below,
           NEW names, NEW left, Separates(above, below, names, left, g),
           NEW k \in 1..(Len(stack) + 1)
    PROVE  Rewound(above, Append(stack, g), names, left, k)
              = Rewound(below, stack, names, left, k)
  <1> DEFINE n == Len(stack)
             long == Append(stack, g)
  <1>1. /\ n \in Nat
        /\ Len(long) = n + 1
        /\ long[n + 1] = g
        /\ \A j \in 1..n : long[j] = stack[j]
    OBVIOUS
  <1> HIDE DEF n, long
  <1> SUFFICES ASSUME NEW o \in Object
               PROVE  Rewound(above, long, names, left, k)[o]
                         = Rewound(below, stack, names, left, k)[o]
    BY DEF Rewound, long
  <1> DEFINE short == {j \in k..n : o \in names[stack[j]]}
             all == {j \in k..(n + 1) : o \in names[long[j]]}
  <1>2. /\ short \in SUBSET Nat
        /\ all \in SUBSET Nat
        /\ \A j \in short : k <= j /\ j <= n /\ long[j] = stack[j]
        /\ k \in 1..(n + 1)
    BY <1>1 DEF n
  <1>3. all = short \cup IF o \in names[g] THEN {n + 1} ELSE {}
    <2>1. \A j \in k..(n + 1) : j \in k..n \/ j = n + 1
      BY <1>1, <1>2
    <2>2. \A j \in k..n : j \in k..(n + 1) /\ j \in 1..n
      BY <1>1, <1>2
    <2>3. n + 1 \in k..(n + 1)
      BY <1>1, <1>2
    <2> QED BY <2>1, <2>2, <2>3, <1>1
  <1>4. Rewound(above, long, names, left, k)[o]
           = IF all = {} THEN above[o] ELSE left[long[Smallest(all)]][o]
    BY <1>1 DEF Rewound
  <1>5. Rewound(below, stack, names, left, k)[o]
           = IF short = {} THEN below[o] ELSE left[stack[Smallest(short)]][o]
    BY DEF Rewound, n
  <1>6. below[o] = IF o \in names[g] THEN left[g][o] ELSE above[o]
    BY DEF Separates
  <1>7. CASE short = {} /\ o \notin names[g]
    <2>1. all = {}
      BY <1>3, <1>7
    <2> HIDE DEF all, short
    <2> QED BY <1>4, <1>5, <1>6, <1>7, <2>1
  <1>8. CASE short = {} /\ o \in names[g]
    <2>1. all = {n + 1}
      BY <1>3, <1>8
    <2>2. Smallest(all) = n + 1
      BY <1>1, <1>2, <2>1, SmallestIs
    <2> HIDE DEF all, short
    <2> QED BY <1>1, <1>4, <1>5, <1>6, <1>8, <2>1, <2>2
  <1>9. CASE short # {}
    <2>1. /\ Smallest(short) \in short
          /\ \A y \in short : Smallest(short) <= y
      BY <1>2, <1>9, SmallestIsLeast
    <2>2. \A y \in all : y \in short \/ y = n + 1
      BY <1>3
    <2>3. Smallest(short) \in all /\ \A y \in all : Smallest(short) <= y
      <3>1. Smallest(short) \in all
        BY <1>3, <2>1
      <3>2. Smallest(short) \in Nat /\ Smallest(short) <= n
        BY <1>2, <2>1
      <3> HIDE DEF all, short
      <3> QED BY <1>1, <2>1, <2>2, <3>1, <3>2
    <2>4. Smallest(all) = Smallest(short)
      BY <1>2, <2>3, SmallestIs
    <2>5. all # {} /\ long[Smallest(short)] = stack[Smallest(short)]
      BY <1>2, <2>1, <2>3
    <2> HIDE DEF all, short
    <2> QED BY <1>4, <1>5, <1>9, <2>4, <2>5
  <1> QED BY <1>7, <1>8, <1>9

LEMMA ChainPush ==
    ASSUME NEW G, NEW stack \in Seq(G), NEW g \in G, NEW above, NEW below,
           above = [o \in Object |-> above[o]],
           NEW names, NEW left, NEW found,
           \A h \in G : names[h] \subseteq Object,
           Separates(above, below, names, left, g),
           \A o \in names[g] : found[g][o] = above[o],
           Chained(below, stack, names, left, found)
    PROVE  Chained(above, Append(stack, g), names, left, found)
  <1> DEFINE n == Len(stack)
             long == Append(stack, g)
  <1>1. /\ n \in Nat
        /\ Len(long) = n + 1
        /\ long[n + 1] = g
        /\ long \in Seq(G)
        /\ \A j \in 1..n : long[j] = stack[j]
    OBVIOUS
  <1> HIDE DEF n, long
  <1> SUFFICES ASSUME NEW k \in 1..(n + 1), NEW o \in names[long[k]]
               PROVE  found[long[k]][o]
                         = Rewound(above, long, names, left, k + 1)[o]
    BY <1>1 DEF Chained, long
  <1>2. CASE k = n + 1
    <2>1. Rewound(above, long, names, left, Len(long) + 1) = above
      BY <1>1, RewoundTop
    <2> QED BY <1>1, <1>2, <2>1
  <1>3. CASE k # n + 1
    <2>1. k \in 1..n /\ k + 1 \in 1..(n + 1)
      BY <1>1, <1>3
    <2>2. Rewound(above, long, names, left, k + 1)
             = Rewound(below, stack, names, left, k + 1)
      BY <2>1, RewoundPush DEF n, long
    <2>3. found[stack[k]][o] = Rewound(below, stack, names, left, k + 1)[o]
      BY <1>1, <2>1 DEF Chained, n
    <2> QED BY <1>1, <2>1, <2>2, <2>3
  <1> QED BY <1>2, <1>3

\* The top position left the view the stack is chained to.
LEMMA ChainTop ==
    ASSUME NEW G, NEW stack \in Seq(G), stack # <<>>, NEW view,
           view = [o \in Object |-> view[o]],
           NEW names, NEW left, NEW found,
           Chained(view, stack, names, left, found)
    PROVE  \A o \in names[Top(stack)] : found[Top(stack)][o] = view[o]
  <1>1. Rewound(view, stack, names, left, Len(stack) + 1) = view
    BY RewoundTop
  <1>2. Len(stack) \in 1..Len(stack)
    OBVIOUS
  <1> QED BY <1>1, <1>2 DEF Chained, Top

LEMMA ChainPop ==
    ASSUME NEW G, NEW stack \in Seq(G), NEW g \in G, NEW above, NEW below,
           NEW names, NEW left, NEW found,
           Separates(above, below, names, left, g),
           Chained(above, Append(stack, g), names, left, found)
    PROVE  Chained(below, stack, names, left, found)
  <1> DEFINE n == Len(stack)
             long == Append(stack, g)
  <1>1. /\ n \in Nat
        /\ Len(long) = n + 1
        /\ \A j \in 1..n : long[j] = stack[j]
    OBVIOUS
  <1> HIDE DEF n, long
  <1>2. \A k \in 1..(n + 1) : \A o \in names[long[k]] :
           found[long[k]][o] = Rewound(above, long, names, left, k + 1)[o]
    BY <1>1 DEF Chained, long
  <1>3. ASSUME NEW k \in 1..n, NEW o \in names[stack[k]]
        PROVE  found[stack[k]][o] = Rewound(below, stack, names, left, k + 1)[o]
    <2>1. k \in 1..(n + 1) /\ k + 1 \in 1..(n + 1)
      BY <1>1
    <2>2. Rewound(above, long, names, left, k + 1)
             = Rewound(below, stack, names, left, k + 1)
      BY <2>1, RewoundPush DEF n, long
    <2> QED BY <1>1, <1>2, <2>1, <2>2
  <1> QED BY <1>3 DEF Chained, n

\* Undo takes the top position of one stack to the other, and so does redo.
LEMMA CompensationKeepsChains ==
    ASSUME NEW G, NEW stack \in Seq(G), stack # <<>>, NEW other \in Seq(G),
           NEW view, view = [o \in Object |-> view[o]],
           NEW next, next = [o \in Object |-> next[o]],
           NEW names, NEW left, NEW found,
           \A h \in G : names[h] \subseteq Object,
           Separates(view, next, names, left, Top(stack)),
           Chained(view, stack, names, left, found),
           Chained(view, other, names, found, left)
    PROVE  /\ Chained(next, Pop(stack), names, left, found)
           /\ Chained(next, Append(other, Top(stack)), names, found, left)
  <1> DEFINE g == Top(stack)
             rest == Pop(stack)
  <1>1. g \in G /\ rest \in Seq(G) /\ stack = Append(rest, g)
    BY DEF Top, Pop
  <1> HIDE DEF g, rest
  <1>2. Chained(view, Append(rest, g), names, left, found)
    BY <1>1
  <1>3. Separates(view, next, names, left, g)
    BY DEF g
  <1>4. /\ \A o \in names[g] : found[g][o] = view[o]
        /\ Chained(next, rest, names, left, found)
    <2>1. \A o \in names[g] : found[g][o] = view[o]
      BY ChainTop DEF g
    <2>2. rest \in Seq(G) /\ g \in G
      BY <1>1
    <2>3. Chained(next, rest, names, left, found)
      BY <1>2, <1>3, <2>2, ChainPop
    <2> QED BY <2>1, <2>3
  <1>5. Separates(next, view, names, found, g)
    BY <1>3, <1>4 DEF Separates
  <1>6. \A o \in names[g] : left[g][o] = next[o]
    BY <1>1, <1>3 DEF Separates
  <1>7. Chained(next, Append(other, g), names, found, left)
    BY <1>1, <1>5, <1>6, ChainPush
  <1> QED BY <1>4, <1>7 DEF g, rest

\* Rewinding looks only at what belongs to the positions of the stack.
LEMMA RewoundSame ==
    ASSUME NEW G, NEW stack \in Seq(G), NEW view,
           NEW names, NEW left, NEW names2, NEW left2,
           \A g \in G : names2[g] = names[g] /\ left2[g] = left[g],
           NEW k \in Nat \ {0}
    PROVE  Rewound(view, stack, names2, left2, k)
              = Rewound(view, stack, names, left, k)
  <1> SUFFICES ASSUME NEW o \in Object
               PROVE  Rewound(view, stack, names2, left2, k)[o]
                         = Rewound(view, stack, names, left, k)[o]
    BY DEF Rewound
  <1> DEFINE at == {j \in k..Len(stack) : o \in names[stack[j]]}
             at2 == {j \in k..Len(stack) : o \in names2[stack[j]]}
  <1>1. \A j \in k..Len(stack) : j \in Nat /\ stack[j] \in G
    OBVIOUS
  <1>2. at2 = at /\ at \in SUBSET Nat /\ \A j \in at : stack[j] \in G
    BY <1>1
  <1>3. Rewound(view, stack, names2, left2, k)[o]
           = IF at2 = {} THEN view[o] ELSE left2[stack[Smallest(at2)]][o]
    BY DEF Rewound
  <1>4. Rewound(view, stack, names, left, k)[o]
           = IF at = {} THEN view[o] ELSE left[stack[Smallest(at)]][o]
    BY DEF Rewound
  <1> HIDE DEF at, at2
  <1>5. CASE at = {}
    BY <1>2, <1>3, <1>4, <1>5
  <1>6. CASE at # {}
    <2>1. stack[Smallest(at)] \in G
      BY <1>2, <1>6, SmallestIsLeast
    <2> QED BY <1>2, <1>3, <1>4, <1>6, <2>1
  <1> QED BY <1>5, <1>6

LEMMA ChainedSame ==
    ASSUME NEW G, NEW stack \in Seq(G), NEW view,
           NEW names, NEW left, NEW found, NEW names2, NEW left2, NEW found2,
           \A g \in G : /\ names2[g] = names[g]
                        /\ left2[g] = left[g]
                        /\ found2[g] = found[g],
           Chained(view, stack, names, left, found)
    PROVE  Chained(view, stack, names2, left2, found2)
  <1> SUFFICES ASSUME NEW k \in 1..Len(stack), NEW o \in names2[stack[k]]
               PROVE  found2[stack[k]][o]
                         = Rewound(view, stack, names2, left2, k + 1)[o]
    BY DEF Chained
  <1>1. stack[k] \in G /\ k + 1 \in Nat \ {0}
    OBVIOUS
  <1>2. Rewound(view, stack, names2, left2, k + 1)
           = Rewound(view, stack, names, left, k + 1)
    BY <1>1, RewoundSame
  <1> QED BY <1>1, <1>2 DEF Chained

-----------------------------------------------------------------------------
(* The events of a group, and what they say of the rows.                   *)

\* The objects that group g of revision r names, and what an editor saw of
\* them before and after it.
TouchedIn(r) ==
    [g \in DOMAIN groups[r] |->
        {o \in Object : IsTouched(GroupEvents(r, g), o)}]

FoundBy(r) ==
    [g \in DOMAIN groups[r] |->
        [o \in Object |-> Visible(EventOn(r, g, o).before)]]

LeftBy(r) ==
    [g \in DOMAIN groups[r] |->
        [o \in Object |-> Visible(EventOn(r, g, o).after)]]

LEMMA GroupEventsShape ==
    ASSUME Bookkeeping, NEW r \in Revision, NEW g \in DOMAIN groups[r]
    PROVE  LET first == groups[r][g].first
               last  == groups[r][g].last
           IN  /\ first \in Nat /\ last \in Nat
               /\ 1 <= first /\ first <= last /\ last <= Len(journal[r])
               /\ GroupEvents(r, g) \in Seq(Event)
               /\ Len(GroupEvents(r, g)) = last - first + 1
               /\ \A i \in 1..(last - first + 1) :
                     /\ first + i - 1 \in DOMAIN journal[r]
                     /\ GroupEvents(r, g)[i] = journal[r][first + i - 1]
  <1> DEFINE old   == journal[r]
             first == groups[r][g].first
             last  == groups[r][g].last
  <1>1. old \in Seq(Event) /\ groups[r] \in Seq(Group)
    BY DEF Bookkeeping, TypeOK
  <1>2. first \in Nat /\ last \in Nat
    <2>1. groups[r][g] \in Group
      BY <1>1
    <2> QED BY <2>1 DEF Group
  <1>3. 1 <= first /\ first <= last /\ last <= Len(old)
    BY DEF Bookkeeping, GroupsInsideJournal
  <1>4. GroupEvents(r, g) = SubSeq(old, first, last)
    BY DEF GroupEvents
  <1> HIDE DEF old, first, last
  <1>5. /\ Len(SubSeq(old, first, last)) = last - first + 1
        /\ SubSeq(old, first, last) \in Seq(Event)
        /\ \A i \in 1..(last - first + 1) :
              /\ first + i - 1 \in DOMAIN old
              /\ SubSeq(old, first, last)[i] = old[first + i - 1]
    BY <1>1, <1>2, <1>3
  <1> QED BY <1>2, <1>3, <1>4, <1>5 DEF old, first, last

\* A group has one event on each object it names.
LEMMA OneEventPerObject ==
    ASSUME Bookkeeping, GroupsNameDistinctObjects, NEW r \in Revision,
           NEW g \in DOMAIN groups[r], NEW i \in DOMAIN GroupEvents(r, g)
    PROVE  /\ EventOn(r, g, GroupEvents(r, g)[i].object) = GroupEvents(r, g)[i]
           /\ GroupEvents(r, g)[i].object \in TouchedIn(r)[g]
  <1> DEFINE events == GroupEvents(r, g)
             first == groups[r][g].first
             last  == groups[r][g].last
             n == last - first + 1
  <1>1. /\ first \in Nat /\ last \in Nat /\ 1 <= first /\ first <= last
        /\ events \in Seq(Event)
        /\ Len(events) = n
        /\ \A j \in 1..n : events[j] = journal[r][first + j - 1]
    BY GroupEventsShape
  <1>2. \A j, k \in first..last :
           journal[r][j].object = journal[r][k].object => j = k
    BY DEF GroupsNameDistinctObjects
  <1>3. ASSUME NEW j \in DOMAIN events, events[j].object = events[i].object
        PROVE  j = i
    <2> HIDE DEF events, first, last
    <2>1. i \in 1..n /\ j \in 1..n
      BY <1>1 DEF events
    <2>2. first + i - 1 \in first..last /\ first + j - 1 \in first..last
      BY <1>1, <2>1
    <2>3. first + i - 1 = first + j - 1
      BY <1>1, <1>2, <1>3, <2>1, <2>2
    <2> QED BY <1>1, <2>1, <2>3
  <1>4. EventOn(r, g, events[i].object) = events[i]
    BY <1>3 DEF EventOn
  <1>5. events[i].object \in Object
    <2>1. events[i] \in Event
      BY <1>1
    <2> QED BY <2>1 DEF Event
  <1>6. events[i].object \in TouchedIn(r)[g]
    BY <1>5 DEF TouchedIn, IsTouched
  <1> QED BY <1>4, <1>6

\* The event of a group on an object it names is one of the journal.
LEMMA EventOnTouched ==
    ASSUME Bookkeeping, GroupsNameDistinctObjects, NEW r \in Revision,
           NEW g \in DOMAIN groups[r], NEW o \in TouchedIn(r)[g]
    PROVE  /\ EventOn(r, g, o) \in Event
           /\ EventOn(r, g, o).object = o
           /\ \E i \in DOMAIN GroupEvents(r, g) :
                 EventOn(r, g, o) = GroupEvents(r, g)[i]
           /\ \E k \in DOMAIN journal[r] : EventOn(r, g, o) = journal[r][k]
  <1>1. PICK i \in DOMAIN GroupEvents(r, g) : GroupEvents(r, g)[i].object = o
    BY DEF TouchedIn, IsTouched
  <1>2. EventOn(r, g, o) = GroupEvents(r, g)[i]
    BY <1>1, OneEventPerObject
  <1>3. GroupEvents(r, g) \in Seq(Event)
    BY GroupEventsShape
  <1>4. \E k \in DOMAIN journal[r] : GroupEvents(r, g)[i] = journal[r][k]
    <2>1. i \in 1..Len(GroupEvents(r, g))
      BY <1>3
    <2> QED BY <2>1, GroupEventsShape
  <1> QED BY <1>1, <1>2, <1>3, <1>4

-----------------------------------------------------------------------------
(* The invariant.                                                          *)

SoundRow(row) == row.deleted <=> row.content = NoContent

\* A row has content exactly when it is not deleted: the live rows, the sealed
\* roots and the rows in the journals.
RowsAreSound ==
    /\ \A b \in Branch : \A o \in Object : SoundRow(rows[b][o])
    /\ \A r \in Revision : root[r] # NoRoot =>
          \A o \in Object : SoundRow(root[r][o])
    /\ \A r \in Revision : \A i \in DOMAIN journal[r] :
          /\ SoundRow(journal[r][i].before)
          /\ SoundRow(journal[r][i].after)

\* What a working journal names is on the branch, of the kind it had then.
KindsAreKept ==
    \A b \in Branch : head[b] # NoRevision =>
        \A i \in DOMAIN journal[head[b]] :
            LET event == journal[head[b]][i]
                row   == rows[b][event.object]
            IN  /\ row # Absent
                /\ row.kind = event.after.kind
                /\ event.before # Absent => event.before.kind = event.after.kind

EditPositions(r) == {g \in DOMAIN groups[r] : groups[r][g].action = "edit"}

ValidStacks(G) == [applied : Seq(G), undone : Seq(G), valid : {TRUE}]

\* Replaying a revision's groups meets no invalid chain, and the stacks hold
\* positions of edits: undos and redos are never undone themselves.
StacksHoldEdits ==
    \A r \in Revision :
        Stacks(groups[r]) \in ValidStacks(EditPositions(r))

\* Both stacks of revision r chain to what an editor sees.
ChainedTo(r, view) ==
    /\ Chained(view, Compensable(r, FALSE), TouchedIn(r), FoundBy(r), LeftBy(r))
    /\ Chained(view, Compensable(r, TRUE), TouchedIn(r), LeftBy(r), FoundBy(r))

EditsAreChained ==
    \A b \in Branch, r \in Revision :
        head[b] = r => ChainedTo(r, VisibleModel(rows[b]))

UndoInvariant ==
    /\ RowsAreSound
    /\ KindsAreKept
    /\ StacksHoldEdits
    /\ EditsAreChained

-----------------------------------------------------------------------------
(* Rows and what an editor sees of them.                                   *)

LEMMA AbsentIsNotStored == Absent \notin StoredRow
  BY NullsAreNotValues DEF Absent, StoredRow

\* What is gone has no kind.
LEMMA VisibleKinds ==
    ASSUME NEW row \in Row
    PROVE  /\ row.deleted => Visible(row).kind = NoKind
           /\ ~row.deleted => /\ row.kind \in Kind
                              /\ Visible(row).kind = row.kind
                              /\ Visible(row).content = row.content
  BY DEF Visible, Gone, Row, StoredRow, Absent

LEMMA VisibleEquals ==
    ASSUME NEW left \in Row, NEW right \in Row, Visible(left) = Visible(right)
    PROVE  SameObject(left, right)
  <1>1. \A row \in Row : row.deleted \in BOOLEAN
    <2>1. \A row \in StoredRow : row.deleted \in BOOLEAN
      BY DEF StoredRow
    <2>2. Absent.deleted = TRUE
      BY DEF Absent
    <2> QED BY <2>1, <2>2 DEF Row
  <1>2. left.deleted <=> right.deleted
    <2>1. /\ left.deleted => Visible(left).kind = NoKind
          /\ ~left.deleted => Visible(left).kind \in Kind
      BY VisibleKinds
    <2>2. /\ right.deleted => Visible(right).kind = NoKind
          /\ ~right.deleted => Visible(right).kind \in Kind
      BY VisibleKinds
    <2>3. NoKind \notin Kind
      BY NullsAreNotValues
    <2> QED BY <2>1, <2>2, <2>3
  <1>3. left.deleted = right.deleted
    BY <1>1, <1>2
  <1> QED BY <1>3, VisibleKinds DEF SameObject

\* An accepted edit leaves a sound row and a visible change.
LEMMA WrittenIsSoundAndNew ==
    ASSUME NEW row \in Row, NEW edit \in TypedEdit, Accepts(row, edit),
           SoundRow(row)
    PROVE  /\ SoundRow(Written(row, edit))
           /\ Written(row, edit) # Absent
           /\ row # Absent => Written(row, edit).kind = row.kind
           /\ Visible(Written(row, edit)) # Visible(row)
  <1>1. SoundRow(Written(row, edit))
    BY DEF Written, SoundRow
  <1>2. Written(row, edit) \in StoredRow
    BY WrittenType
  <1>3. Written(row, edit) # Absent
    BY <1>2, AbsentIsNotStored
  <1>4. row # Absent => Written(row, edit).kind = row.kind
    BY DEF Written
  <1>5. Written(row, edit) \in Row
    BY <1>2 DEF Row
  <1>7. CASE edit.content = NoContent
    <2>1. ~row.deleted /\ Written(row, edit).deleted
      BY <1>7 DEF Accepts, Written
    <2>2. Visible(row).kind \in Kind /\ Visible(Written(row, edit)).kind = NoKind
      BY <1>5, <2>1, VisibleKinds
    <2> QED BY <1>1, <1>3, <1>4, <2>2, NullsAreNotValues
  <1>8. CASE edit.content # NoContent
    <2>1. ~Written(row, edit).deleted /\ Written(row, edit).content = edit.content
      BY <1>8 DEF Written
    <2>2. row.deleted \/ row.content # edit.content
      BY <1>8 DEF Accepts
    <2>3. /\ Visible(Written(row, edit)).kind \in Kind
          /\ Visible(Written(row, edit)).content = edit.content
      BY <1>5, <2>1, VisibleKinds
    <2>4. /\ row.deleted => Visible(row).kind = NoKind
          /\ ~row.deleted => Visible(row).content = row.content
      BY VisibleKinds
    <2>5. Visible(Written(row, edit)) # Visible(row)
      BY <2>2, <2>3, <2>4, NullsAreNotValues
    <2> QED BY <1>1, <1>3, <1>4, <2>5
  <1> QED BY <1>1, <1>3, <1>4, <1>7, <1>8

\* A compensating edit shows again what its event had found, or left.
LEMMA CompensationRestores ==
    ASSUME NEW row \in Row, row # Absent, NEW event \in Event,
           NEW redo \in BOOLEAN,
           SoundRow(event.before), SoundRow(event.after),
           row.kind = event.after.kind,
           event.before # Absent => event.before.kind = event.after.kind
    PROVE  Visible(Written(row, CompensatingEdit(row, event, redo)))
              = Visible(IF redo THEN event.after ELSE event.before)
  <1> DEFINE wanted == IF redo THEN event.after ELSE event.before
             edit   == CompensatingEdit(row, event, redo)
  <1>1. /\ edit.content = IF wanted.deleted THEN NoContent ELSE wanted.content
        /\ Written(row, edit).kind = row.kind
        /\ Written(row, edit).deleted = (edit.content = NoContent)
        /\ Written(row, edit).content = edit.content
    BY DEF CompensatingEdit, Written
  <1>2. SoundRow(wanted)
    OBVIOUS
  <1>3. ~wanted.deleted => wanted.kind = row.kind
    BY DEF Absent
  <1> HIDE DEF wanted, edit
  <1>4. CASE wanted.deleted
    BY <1>1, <1>4 DEF Visible, wanted, edit
  <1>5. CASE ~wanted.deleted
    <2>1. wanted.content # NoContent
      BY <1>2, <1>5 DEF SoundRow
    <2>2. ~Written(row, edit).deleted
      BY <1>1, <1>5, <2>1
    <2>3. Visible(Written(row, edit)) = Visible(wanted)
      BY <1>1, <1>3, <1>5, <2>2 DEF Visible
    <2> QED BY <2>3 DEF wanted, edit
  <1> QED BY <1>4, <1>5

\* What chains to the top of a stack is still in the rows, so compensating it
\* meets no conflict.
LEMMA TopMatches ==
    ASSUME ReplayInvariant, UndoInvariant, NEW b \in Branch,
           head[b] # NoRevision, NEW redo \in BOOLEAN,
           Compensable(head[b], redo) # <<>>
    PROVE  LET g      == Top(Compensable(head[b], redo))
               events == CompensatedEvents(head[b], g, redo)
           IN  /\ g \in EditPositions(head[b])
               /\ events # <<>>
               /\ \A i \in DOMAIN events :
                     Matches(rows[b][events[i].object], events[i], redo)
  <1> DEFINE r      == head[b]
             stack  == Compensable(r, redo)
             g      == Top(stack)
             events == CompensatedEvents(r, g, redo)
             group  == GroupEvents(r, g)
             n      == Len(group)
             view   == VisibleModel(rows[b])
  <1>1. r \in Revision /\ rows[b] \in Model
    BY DEF ReplayInvariant, Bookkeeping, TypeOK
  <1>2. stack \in Seq(EditPositions(r))
    BY <1>1 DEF UndoInvariant, StacksHoldEdits, ValidStacks, Compensable
  <1>3. g \in EditPositions(r)
    BY <1>2 DEF Top
  <1>4. g \in DOMAIN groups[r]
    BY <1>3 DEF EditPositions
  <1>5. /\ group \in Seq(Event)
        /\ n \in Nat /\ n > 0
    <2>1. /\ groups[r][g].first \in Nat /\ groups[r][g].last \in Nat
          /\ groups[r][g].first <= groups[r][g].last
          /\ group \in Seq(Event)
          /\ n = groups[r][g].last - groups[r][g].first + 1
      BY <1>1, <1>4, GroupEventsShape DEF ReplayInvariant
    <2> HIDE DEF n, group
    <2> QED BY <2>1
  <1>6. events = [i \in 1..n |-> IF redo THEN group[i] ELSE group[n + 1 - i]]
    BY DEF CompensatedEvents
  <1>7. events # <<>>
    <2>1. 1 \in DOMAIN events
      BY <1>5, <1>6
    <2> QED BY <2>1
  <1>8. ASSUME NEW i \in DOMAIN events
        PROVE  Matches(rows[b][events[i].object], events[i], redo)
    <2>1. PICK j \in DOMAIN group : events[i] = group[j]
      <3> HIDE DEF events, group, n
      <3>1. i \in 1..n /\ n + 1 - i \in 1..n
        BY <1>5, <1>6
      <3>2. DOMAIN group = 1..n
        BY <1>5 DEF n
      <3> QED BY <1>6, <3>1, <3>2
    <2> DEFINE event == group[j]
               o     == event.object
               seen  == IF redo THEN event.before ELSE event.after
    <2>2. event \in Event
      BY <1>5
    <2>3. EventOn(r, g, o) = event /\ o \in TouchedIn(r)[g]
      BY <1>1, <1>4, OneEventPerObject DEF ReplayInvariant
    <2>4. o \in Object /\ seen \in Row
      BY <2>2 DEF Event, Row
    <2>5. view = [x \in Object |-> view[x]] /\ view[o] = Visible(rows[b][o])
      BY <2>4 DEF VisibleModel
    <2>6. \A x \in TouchedIn(r)[g] :
             (IF redo THEN FoundBy(r) ELSE LeftBy(r))[g][x] = view[x]
      <3> DEFINE left  == IF redo THEN LeftBy(r) ELSE FoundBy(r)
                 found == IF redo THEN FoundBy(r) ELSE LeftBy(r)
      <3>1. ChainedTo(r, view)
        BY <1>1 DEF UndoInvariant, EditsAreChained
      <3>2. Chained(view, stack, TouchedIn(r), left, found)
        BY <3>1 DEF ChainedTo
      <3>3. stack # <<>>
        OBVIOUS
      <3> HIDE DEF view, stack, left, found
      <3>4. \A x \in TouchedIn(r)[Top(stack)] : found[Top(stack)][x] = view[x]
        BY <1>2, <2>5, <3>2, <3>3, ChainTop
      <3> QED BY <3>4 DEF found
    <2>7. (IF redo THEN FoundBy(r) ELSE LeftBy(r))[g][o] = Visible(seen)
      BY <1>4, <2>3, <2>4 DEF FoundBy, LeftBy
    <2>8. Visible(rows[b][o]) = Visible(seen)
      BY <2>3, <2>5, <2>6, <2>7
    <2>9. rows[b][o] \in Row
      BY <1>1, <2>4 DEF Model
    <2>10. SameObject(rows[b][o], seen)
      BY <2>4, <2>8, <2>9, VisibleEquals
    <2>11. rows[b][o] # Absent
      <3>1. PICK k \in DOMAIN journal[r] : event = journal[r][k]
        BY <1>1, <1>4, <2>3, EventOnTouched DEF ReplayInvariant
      <3> QED BY <3>1 DEF UndoInvariant, KindsAreKept
    <2> QED BY <2>1, <2>10, <2>11 DEF Matches
  <1> QED BY <1>3, <1>7, <1>8

-----------------------------------------------------------------------------
(* A transaction of edits and the group that records it.                   *)

LEMMA PartsOfConcatenation ==
    ASSUME NEW S, NEW left \in Seq(S), NEW right \in Seq(S)
    PROVE  /\ \A i, k \in Nat : 1 <= i /\ k <= Len(left) =>
                 SubSeq(left \o right, i, k) = SubSeq(left, i, k)
           /\ SubSeq(left \o right, Len(left) + 1, Len(left) + Len(right)) = right
  OBVIOUS

NamedBy(edits) == {o \in Object : \E i \in 1..Len(edits) : edits[i].object = o}

\* The groups before stay as they were, with what they name and hold.
GroupsKept(r) ==
    \A g \in DOMAIN groups[r] :
        /\ g \in DOMAIN groups'[r]
        /\ groups'[r][g] = groups[r][g]
        /\ TouchedIn(r)'[g] = TouchedIn(r)[g]
        /\ FoundBy(r)'[g] = FoundBy(r)[g]
        /\ LeftBy(r)'[g] = LeftBy(r)[g]

\* The new group n names the edited objects and holds their rows before and
\* after.
GroupAdded(b, r, edits, action, n) ==
    /\ n \in DOMAIN groups'[r]
    /\ groups'[r][n].action = action
    /\ TouchedIn(r)'[n] = NamedBy(edits)
    /\ \A i \in 1..Len(edits) :
          LET o == edits[i].object IN
          /\ rows'[b][o] = Written(rows[b][o], edits[i])
          /\ FoundBy(r)'[n][o] = Visible(rows[b][o])
          /\ LeftBy(r)'[n][o] = Visible(rows'[b][o])
    /\ \A o \in Object \ NamedBy(edits) : rows'[b][o] = rows[b][o]

LEMMA GroupIsRecorded ==
    ASSUME ReplayInvariant, NEW b \in Branch, NEW r \in Revision, head[b] = r,
           NEW edits \in Seq(TypedEdit), DistinctObjects(edits),
           NEW action, NEW target, EditEffect(b, edits, action, target),
           NEW n, n = Len(groups[r]) + 1
    PROVE  GroupsKept(r) /\ GroupAdded(b, r, edits, action, n)
  <1> DEFINE old    == groups[r]
             past   == journal[r]
             m      == Len(past)
             events == EditEvents(rows[b], edits)
             size   == Len(edits)
             entry  == [action |-> action, target |-> target,
                        first |-> m + 1, last |-> m + size]
  <1>1. /\ old \in Seq(Group) /\ past \in Seq(Event) /\ rows[b] \in Model
        /\ DOMAIN groups = Revision /\ DOMAIN journal = Revision
        /\ DOMAIN rows = Branch
    BY DEF ReplayInvariant, Bookkeeping, TypeOK
  <1>2. /\ events \in Seq(Event) /\ Len(events) = size /\ size > 0
        /\ groups'[r] = Append(old, entry)
        /\ journal'[r] = past \o events
        /\ rows'[b] = AfterEvents(rows[b], events)
    BY <1>1, EditEventsType DEF EditEffect
  <1>3. \A i \in 1..size :
           /\ edits[i] \in TypedEdit
           /\ events[i] = EventOf(rows[b], edits[i])
    BY <1>1, EditEventsType
  <1> HIDE DEF events, size
  <1>4. \A i \in 1..size :
           /\ edits[i].object \in Object
           /\ events[i].object = edits[i].object
           /\ events[i].before = rows[b][edits[i].object]
           /\ events[i].after = Written(rows[b][edits[i].object], edits[i])
    <2> SUFFICES ASSUME NEW i \in 1..size
                 PROVE  /\ edits[i].object \in Object
                        /\ events[i].object = edits[i].object
                        /\ events[i].before = rows[b][edits[i].object]
                        /\ events[i].after =
                              Written(rows[b][edits[i].object], edits[i])
      OBVIOUS
    <2>1. edits[i].object \in Object
      BY <1>3 DEF TypedEdit
    <2>2. events[i] = EventOf(rows[b], edits[i])
      BY <1>3
    <2> QED BY <2>1, <2>2 DEF EventOf
  <1>5. m \in Nat /\ size \in Nat /\ Len(old) \in Nat /\ n = Len(old) + 1
    BY <1>1 DEF size
  <1>6. \A i, k \in 1..size : edits[i].object = edits[k].object => i = k
    BY DEF DistinctObjects, size
  <1>7. \A g \in DOMAIN old : GroupEvents(r, g)' = GroupEvents(r, g)
                              /\ g \in DOMAIN groups'[r]
                              /\ groups'[r][g] = old[g]
    <2> SUFFICES ASSUME NEW g \in DOMAIN old
                 PROVE  /\ GroupEvents(r, g)' = GroupEvents(r, g)
                        /\ g \in DOMAIN groups'[r]
                        /\ groups'[r][g] = old[g]
      OBVIOUS
    <2> DEFINE first == old[g].first
               last  == old[g].last
    <2>1. first \in Nat /\ last \in Nat /\ 1 <= first /\ last <= m
      BY GroupEventsShape DEF ReplayInvariant
    <2>2. groups'[r][g] = old[g] /\ g \in DOMAIN groups'[r]
      BY <1>1, <1>2
    <2>3. GroupEvents(r, g)' = SubSeq(past \o events, first, last)
      BY <1>2, <2>2 DEF GroupEvents
    <2>4. GroupEvents(r, g) = SubSeq(past, first, last)
      BY DEF GroupEvents
    <2> HIDE DEF first, last, past, m
    <2>5. SubSeq(past \o events, first, last) = SubSeq(past, first, last)
      BY <1>1, <1>2, <2>1, PartsOfConcatenation DEF m
    <2> QED BY <2>2, <2>3, <2>4, <2>5
  <1>8. n \in DOMAIN groups'[r] /\ n \notin DOMAIN old /\ groups'[r][n] = entry
    BY <1>1, <1>2, <1>5
  <1>9. GroupEvents(r, n)' = events
    <2>1. GroupEvents(r, n)' = SubSeq(past \o events, m + 1, m + size)
      <3>1. groups'[r][n].first = m + 1 /\ groups'[r][n].last = m + size
        BY <1>8
      <3>2. GroupEvents(r, n)'
               = SubSeq(journal'[r], groups'[r][n].first, groups'[r][n].last)
        BY DEF GroupEvents
      <3> QED BY <1>2, <3>1, <3>2
    <2> HIDE DEF past, m
    <2>2. SubSeq(past \o events, m + 1, m + size) = events
      BY <1>1, <1>2, PartsOfConcatenation DEF m
    <2> QED BY <2>1, <2>2
  <1>10. \A g \in DOMAIN old :
            /\ TouchedIn(r)'[g] = TouchedIn(r)[g]
            /\ FoundBy(r)'[g] = FoundBy(r)[g]
            /\ LeftBy(r)'[g] = LeftBy(r)[g]
    <2> SUFFICES ASSUME NEW g \in DOMAIN old
                 PROVE  /\ TouchedIn(r)'[g] = TouchedIn(r)[g]
                        /\ FoundBy(r)'[g] = FoundBy(r)[g]
                        /\ LeftBy(r)'[g] = LeftBy(r)[g]
      OBVIOUS
    <2>1. GroupEvents(r, g)' = GroupEvents(r, g) /\ g \in DOMAIN groups'[r]
      BY <1>7
    <2>2. \A o : EventOn(r, g, o)' = EventOn(r, g, o)
      BY <2>1 DEF EventOn
    <2>3. TouchedIn(r)'[g] = TouchedIn(r)[g]
      BY <2>1 DEF TouchedIn, IsTouched
    <2> QED BY <2>1, <2>2, <2>3 DEF FoundBy, LeftBy
  <1>11. TouchedIn(r)'[n] = {o \in Object : IsTouched(events, o)}
    BY <1>8, <1>9 DEF TouchedIn
  <1>12. \A o : IsTouched(events, o) <=>
                   \E i \in 1..size : edits[i].object = o
    <2>1. DOMAIN events = 1..size
      BY <1>2
    <2> QED BY <1>4, <2>1 DEF IsTouched
  <1>13. \A i \in 1..size :
            LET o == edits[i].object IN
            /\ rows'[b][o] = Written(rows[b][o], edits[i])
            /\ FoundBy(r)'[n][o] = Visible(rows[b][o])
            /\ LeftBy(r)'[n][o] = Visible(rows'[b][o])
    <2> SUFFICES ASSUME NEW i \in 1..size, NEW o, o = edits[i].object
                 PROVE  /\ rows'[b][o] = Written(rows[b][o], edits[i])
                        /\ FoundBy(r)'[n][o] = Visible(rows[b][o])
                        /\ LeftBy(r)'[n][o] = Visible(rows'[b][o])
      OBVIOUS
    <2>1. \A k \in DOMAIN events : events[k].object = o => k = i
      <3>1. DOMAIN events = 1..size
        BY <1>2
      <3>2. ASSUME NEW k \in 1..size, events[k].object = o
            PROVE  k = i
        <4>1. edits[k].object = edits[i].object
          BY <1>4, <3>2
        <4> QED BY <1>6, <4>1
      <3> QED BY <3>1, <3>2
    <2>2. i \in DOMAIN events /\ events[i].object = o /\ o \in Object
      BY <1>2, <1>4
    <2>3. (CHOOSE k \in DOMAIN events : events[k].object = o) = i
      BY <2>1, <2>2
    <2>4. rows'[b][o] = events[i].after
      BY <1>2, <2>2, <2>3 DEF AfterEvents, IsTouched
    <2>5. EventOn(r, n, o)' = events[i]
      BY <1>9, <2>3 DEF EventOn
    <2>6. /\ FoundBy(r)'[n][o] = Visible(events[i].before)
          /\ LeftBy(r)'[n][o] = Visible(events[i].after)
      BY <1>8, <2>2, <2>5 DEF FoundBy, LeftBy
    <2> QED BY <1>4, <2>4, <2>6
  <1>14. \A o \in Object \ NamedBy(edits) : rows'[b][o] = rows[b][o]
    BY <1>2, <1>12 DEF AfterEvents, NamedBy, size
  <1>15. TouchedIn(r)'[n] = NamedBy(edits)
    BY <1>11, <1>12 DEF size, NamedBy
  <1>16. groups'[r][n].action = action
    BY <1>8
  <1>17. GroupsKept(r)
    BY <1>7, <1>10 DEF GroupsKept
  <1> QED BY <1>8, <1>13, <1>14, <1>15, <1>16, <1>17 DEF GroupAdded, size

\* A transaction keeps rows sound and their kinds.
LEMMA EditsKeepRows ==
    ASSUME ReplayInvariant, RowsAreSound, KindsAreKept,
           NEW b \in Branch, NEW r \in Revision, head[b] = r,
           NEW edits \in Seq(TypedEdit), DistinctObjects(edits),
           \A i \in 1..Len(edits) : Accepts(rows[b][edits[i].object], edits[i]),
           NEW action, NEW target, EditEffect(b, edits, action, target)
    PROVE  RowsAreSound' /\ KindsAreKept'
  <1> DEFINE size == Len(edits)
             touched == NamedBy(edits)
             events == EditEvents(rows[b], edits)
             past == journal[r]
  <1>1. /\ rows[b] \in Model /\ rows \in [Branch -> Model]
        /\ past \in Seq(Event) /\ journal \in [Revision -> Seq(Event)]
        /\ head[b] # NoRevision
    BY NullsAreNotValues DEF ReplayInvariant, Bookkeeping, TypeOK
  <1>2. /\ \A i \in 1..size :
              LET o == edits[i].object IN
              rows'[b][o] = Written(rows[b][o], edits[i])
        /\ \A o \in Object : o \notin touched => rows'[b][o] = rows[b][o]
    <2>1. PICK n : n = Len(groups[r]) + 1
      OBVIOUS
    <2>2. GroupAdded(b, r, edits, action, n)
      BY <2>1, GroupIsRecorded
    <2> QED BY <2>2 DEF GroupAdded
  <1>3. /\ events \in Seq(Event) /\ Len(events) = size
        /\ journal'[r] = past \o events
        /\ \A i \in 1..size : /\ edits[i] \in TypedEdit
                              /\ events[i] = EventOf(rows[b], edits[i])
    BY <1>1, EditEventsType DEF EditEffect
  <1>4. /\ \A s \in Revision : s # r => journal'[s] = journal[s]
        /\ \A c \in Branch : c # b => rows'[c] = rows[c]
        /\ head' = head /\ root' = root
    BY <1>1 DEF EditEffect
  <1> HIDE DEF events, size
  <1>5. \A i \in DOMAIN journal'[r] :
           \/ i \in DOMAIN past /\ journal'[r][i] = past[i]
           \/ \E k \in 1..size : journal'[r][i] = events[k]
    <2> SUFFICES ASSUME NEW i \in DOMAIN (past \o events),
                        i \notin DOMAIN past
                 PROVE  \E k \in 1..size : (past \o events)[i] = events[k]
      BY <1>1, <1>3
    <2> DEFINE m == Len(past)
    <2>1. /\ m \in Nat /\ size \in Nat
          /\ DOMAIN past = 1..m /\ DOMAIN (past \o events) = 1..(m + size)
      BY <1>1, <1>3
    <2> HIDE DEF m
    <2>2. i - m \in 1..size
      BY <2>1
    <2>3. (past \o events)[i] = events[i - m]
      BY <1>1, <1>3, <2>1, <2>2 DEF m
    <2> QED BY <2>2, <2>3
  <1>6. \A i \in 1..size :
           LET o == edits[i].object IN
           /\ o \in touched
           /\ rows[b][o] \in Row
           /\ SoundRow(rows[b][o])
           /\ Accepts(rows[b][o], edits[i])
           /\ rows'[b][o] = Written(rows[b][o], edits[i])
    BY <1>1, <1>2, <1>3 DEF TypedEdit, Model, RowsAreSound, NamedBy, size
  <1>7. \A i \in 1..size :
           LET o == edits[i].object IN
           /\ SoundRow(rows'[b][o])
           /\ rows'[b][o] # Absent
           /\ rows[b][o] # Absent => rows'[b][o].kind = rows[b][o].kind
    BY <1>3, <1>6, WrittenIsSoundAndNew
  <1>8. \A i \in 1..size :
           LET o == edits[i].object IN
           /\ events[i].object = o
           /\ events[i].before = rows[b][o]
           /\ events[i].after = rows'[b][o]
    BY <1>3, <1>6 DEF EventOf
  <1>9. \A o \in Object :
           /\ SoundRow(rows'[b][o])
           /\ rows[b][o] # Absent => /\ rows'[b][o] # Absent
                                     /\ rows'[b][o].kind = rows[b][o].kind
    <2> SUFFICES ASSUME NEW o \in Object
                 PROVE  /\ SoundRow(rows'[b][o])
                        /\ rows[b][o] # Absent =>
                              /\ rows'[b][o] # Absent
                              /\ rows'[b][o].kind = rows[b][o].kind
      OBVIOUS
    <2>1. CASE o \in touched
      <3>1. PICK i \in 1..size : edits[i].object = o
        BY <2>1 DEF NamedBy, size
      <3> QED BY <1>7, <3>1
    <2>2. CASE o \notin touched
      BY <1>2, <2>2 DEF RowsAreSound
    <2> QED BY <2>1, <2>2
  <1>10. RowsAreSound'
    <2>1. \A c \in Branch : \A o \in Object : SoundRow(rows'[c][o])
      BY <1>4, <1>9 DEF RowsAreSound
    <2>2. \A i \in DOMAIN journal'[r] :
             SoundRow(journal'[r][i].before) /\ SoundRow(journal'[r][i].after)
      BY <1>5, <1>6, <1>7, <1>8 DEF RowsAreSound
    <2>3. \A s \in Revision : \A i \in DOMAIN journal'[s] :
             SoundRow(journal'[s][i].before) /\ SoundRow(journal'[s][i].after)
      BY <1>4, <2>2 DEF RowsAreSound
    <2>4. \A s \in Revision : root'[s] # NoRoot =>
             \A o \in Object : SoundRow(root'[s][o])
      BY <1>4 DEF RowsAreSound
    <2> QED BY <2>1, <2>3, <2>4 DEF RowsAreSound, SoundRow
  <1>11. ASSUME NEW i \in DOMAIN journal'[r]
         PROVE  LET event == journal'[r][i]
                    row   == rows'[b][event.object]
                IN  /\ row # Absent
                    /\ row.kind = event.after.kind
                    /\ event.before # Absent =>
                          event.before.kind = event.after.kind
    <2>1. CASE i \in DOMAIN past /\ journal'[r][i] = past[i]
      <3>1. past[i].object \in Object
        <4>1. past[i] \in Event
          BY <1>1, <2>1
        <4> QED BY <4>1 DEF Event
      <3> QED BY <1>1, <1>9, <2>1, <3>1 DEF KindsAreKept
    <2>2. CASE \E k \in 1..size : journal'[r][i] = events[k]
      BY <1>7, <1>8, <2>2
    <2> QED BY <1>5, <2>1, <2>2
  <1>12. KindsAreKept'
    <2> SUFFICES ASSUME NEW c \in Branch, head[c] # NoRevision,
                        NEW i \in DOMAIN journal'[head[c]]
                 PROVE  LET event == journal'[head[c]][i]
                            row   == rows'[c][event.object]
                        IN  /\ row # Absent
                            /\ row.kind = event.after.kind
                            /\ event.before # Absent =>
                                  event.before.kind = event.after.kind
      BY <1>4 DEF KindsAreKept
    <2>1. CASE c = b
      BY <1>11, <2>1
    <2>2. CASE c # b
      <3>1. head[c] # r /\ head[c] \in Revision
        BY <1>1, <2>2, HeadsAreApart
           DEF ReplayInvariant, Lineage, Bookkeeping, TypeOK
      <3>2. journal'[head[c]] = journal[head[c]] /\ rows'[c] = rows[c]
        BY <1>4, <2>2, <3>1
      <3> QED BY <3>2 DEF KindsAreKept
    <2> QED BY <2>1, <2>2
  <1> QED BY <1>10, <1>12

-----------------------------------------------------------------------------
(* The invariant across a transaction of edits.                            *)

LEMMA SameRecordsSameStacks ==
    ASSUME NEW s \in Revision, groups'[s] = groups[s], journal'[s] = journal[s]
    PROVE  /\ EditPositions(s)' = EditPositions(s)
           /\ TouchedIn(s)' = TouchedIn(s)
           /\ FoundBy(s)' = FoundBy(s)
           /\ LeftBy(s)' = LeftBy(s)
           /\ Compensable(s, FALSE)' = Compensable(s, FALSE)
           /\ Compensable(s, TRUE)' = Compensable(s, TRUE)
  <1>1. \A g : GroupEvents(s, g)' = GroupEvents(s, g)
    BY DEF GroupEvents
  <1>2. ASSUME NEW g, NEW o
        PROVE  EventOn(s, g, o)' = EventOn(s, g, o)
    <2>1. GroupEvents(s, g)' = GroupEvents(s, g)
      BY <1>1
    <2> QED BY <2>1 DEF EventOn
  <1>3. TouchedIn(s)' = TouchedIn(s)
    BY <1>1 DEF TouchedIn, IsTouched
  <1>4. FoundBy(s)' = FoundBy(s) /\ LeftBy(s)' = LeftBy(s)
    BY <1>2 DEF FoundBy, LeftBy
  <1> QED BY <1>3, <1>4 DEF EditPositions, Compensable

\* It is enough to look at the revision and the branch that are edited.
LEMMA OthersStayChained ==
    ASSUME ReplayInvariant, UndoInvariant, RowsAreSound', KindsAreKept',
           NEW b \in Branch, NEW r \in Revision, head[b] = r,
           NEW edits, NEW action, NEW target, EditEffect(b, edits, action, target),
           Stacks(groups'[r]) \in ValidStacks(EditPositions(r)'),
           ChainedTo(r, VisibleModel(rows[b]))'
    PROVE  UndoInvariant'
  <1>1. /\ \A s \in Revision : s # r => /\ journal'[s] = journal[s]
                                        /\ groups'[s] = groups[s]
        /\ \A c \in Branch : c # b => rows'[c] = rows[c]
        /\ head' = head
    BY DEF EditEffect, ReplayInvariant, Bookkeeping, TypeOK
  <1>2. StacksHoldEdits'
    <2> SUFFICES ASSUME NEW s \in Revision
                 PROVE  Stacks(groups'[s]) \in ValidStacks(EditPositions(s)')
      BY DEF StacksHoldEdits, ValidStacks
    <2>1. CASE s = r
      BY <2>1
    <2>2. CASE s # r
      <3>1. groups'[s] = groups[s] /\ journal'[s] = journal[s]
        BY <1>1, <2>2
      <3>2. EditPositions(s)' = EditPositions(s)
        BY <3>1, SameRecordsSameStacks
      <3> QED BY <3>1, <3>2 DEF UndoInvariant, StacksHoldEdits
    <2> QED BY <2>1, <2>2
  <1>3. EditsAreChained'
    <2> SUFFICES ASSUME NEW c \in Branch, NEW s \in Revision, head[c] = s
                 PROVE  ChainedTo(s, VisibleModel(rows[c]))'
      BY <1>1 DEF EditsAreChained
    <2>1. CASE c = b
      BY <2>1
    <2>2. CASE c # b
      <3>1. s # r
        <4>1. r # NoRevision
          BY NullsAreNotValues
        <4> QED BY <2>2, <4>1, HeadsAreApart DEF ReplayInvariant, Lineage
      <3>2. /\ groups'[s] = groups[s] /\ journal'[s] = journal[s]
            /\ rows'[c] = rows[c]
        BY <1>1, <2>2, <3>1
      <3>3. ChainedTo(s, VisibleModel(rows[c]))
        BY DEF UndoInvariant, EditsAreChained
      <3>4. VisibleModel(rows[c])' = VisibleModel(rows[c])
        BY <3>2 DEF VisibleModel
      <3> QED BY <3>2, <3>3, <3>4, SameRecordsSameStacks DEF ChainedTo
    <2> QED BY <2>1, <2>2
  <1> QED BY <1>2, <1>3 DEF UndoInvariant

LEMMA StacksAfterGroup ==
    ASSUME Bookkeeping, NEW b \in Branch, NEW r \in Revision, head[b] = r,
           NEW edits \in Seq(TypedEdit), NEW action \in {"edit", "undo", "redo"},
           NEW target \in Nat, EditEffect(b, edits, action, target)
    PROVE  \E entry \in Group :
              /\ entry.action = action /\ entry.target = target
              /\ Stacks(groups'[r]) =
                    Replayed(Stacks(groups[r]), entry, Len(groups[r]) + 1)
  <1> DEFINE entry == [action |-> action, target |-> target,
                       first |-> generation[r] + 1,
                       last |-> generation[r] + Len(edits)]
  <1>1. groups[r] \in Seq(Group) /\ generation[r] \in Nat
        /\ groups \in [Revision -> Seq(Group)]
    BY DEF Bookkeeping, TypeOK
  <1>2. entry \in Group
    BY <1>1 DEF Group
  <1>3. groups'[r] = Append(groups[r], entry)
    BY <1>1 DEF EditEffect
  <1> HIDE DEF entry
  <1>4. Stacks(groups'[r])
           = Replayed(Stacks(groups[r]), entry, Len(groups[r]) + 1)
    BY <1>1, <1>2, <1>3, StacksAppend
  <1> QED BY <1>2, <1>4 DEF entry

LEMMA ReplayedUndo ==
    ASSUME NEW G, NEW stacks \in ValidStacks(G), NEW entry, NEW n,
           entry.action = "undo", stacks.applied # <<>>,
           Top(stacks.applied) = entry.target
    PROVE  Replayed(stacks, entry, n) =
              [applied |-> Pop(stacks.applied),
               undone |-> Append(stacks.undone, entry.target), valid |-> TRUE]
  <1>1. Replayed(stacks, entry, n) =
           [stacks EXCEPT !.applied = Pop(@), !.undone = Append(@, entry.target)]
    BY DEF Replayed
  <1> QED BY <1>1 DEF ValidStacks

LEMMA ReplayedRedo ==
    ASSUME NEW G, NEW stacks \in ValidStacks(G), NEW entry, NEW n,
           entry.action = "redo", stacks.undone # <<>>,
           Top(stacks.undone) = entry.target
    PROVE  Replayed(stacks, entry, n) =
              [applied |-> Append(stacks.applied, entry.target),
               undone |-> Pop(stacks.undone), valid |-> TRUE]
  <1>1. Replayed(stacks, entry, n) =
           [stacks EXCEPT !.undone = Pop(@), !.applied = Append(@, entry.target)]
    BY DEF Replayed
  <1> QED BY <1>1 DEF ValidStacks

\* A new edit goes on top of those in effect and leaves nothing to redo.
LEMMA StacksAfterEdit ==
    ASSUME ReplayInvariant, StacksHoldEdits, NEW b \in Branch,
           NEW r \in Revision, head[b] = r, NEW edits \in Seq(TypedEdit),
           EditEffect(b, edits, "edit", 0)
    PROVE  Stacks(groups'[r]) =
              [applied |-> Append(Stacks(groups[r]).applied, Len(groups[r]) + 1),
               undone |-> <<>>, valid |-> TRUE]
  <1>1. PICK stacks, n : stacks = Stacks(groups[r]) /\ n = Len(groups[r]) + 1
    OBVIOUS
  <1>2. PICK entry \in Group : /\ entry.action = "edit"
                               /\ Stacks(groups'[r]) = Replayed(stacks, entry, n)
    BY <1>1, StacksAfterGroup DEF ReplayInvariant
  <1>3. Stacks(groups'[r])
           = [stacks EXCEPT !.applied = Append(@, n), !.undone = <<>>]
    BY <1>2 DEF Replayed
  <1>4. stacks \in ValidStacks(EditPositions(r))
    BY <1>1 DEF StacksHoldEdits
  <1> QED BY <1>1, <1>3, <1>4 DEF ValidStacks

\* The stacks when the top of one has gone to the other.
TopMoved(stack, other, redo) ==
    IF redo
    THEN [applied |-> Append(other, Top(stack)), undone |-> Pop(stack),
          valid |-> TRUE]
    ELSE [applied |-> Pop(stack), undone |-> Append(other, Top(stack)),
          valid |-> TRUE]

\* An undo (redo) takes its target from one stack to the other.
LEMMA StacksAfterCompensation ==
    ASSUME ReplayInvariant, StacksHoldEdits, NEW b \in Branch,
           NEW r \in Revision, head[b] = r, NEW redo \in BOOLEAN,
           NEW stack, stack = Compensable(r, redo), stack # <<>>,
           NEW other, other = Compensable(r, ~redo),
           NEW g \in Nat, g = Top(stack), NEW edits \in Seq(TypedEdit),
           NEW action, action = (IF redo THEN "redo" ELSE "undo"),
           EditEffect(b, edits, action, g)
    PROVE  Stacks(groups'[r]) = TopMoved(stack, other, redo)
  <1>1. PICK stacks : stacks = Stacks(groups[r])
    OBVIOUS
  <1>2. /\ stacks \in ValidStacks(EditPositions(r))
        /\ stack = IF redo THEN stacks.undone ELSE stacks.applied
        /\ other = IF redo THEN stacks.applied ELSE stacks.undone
    BY <1>1 DEF Compensable, StacksHoldEdits
  <1>3. PICK entry \in Group :
           /\ entry.action = action /\ entry.target = g
           /\ Stacks(groups'[r]) = Replayed(stacks, entry, Len(groups[r]) + 1)
    <2>1. action \in {"edit", "undo", "redo"} /\ EditEffect(b, edits, action, g)
      BY <1>1
    <2> QED BY <1>1, <2>1, StacksAfterGroup DEF ReplayInvariant
  <1>4. CASE redo
    <2>1. /\ entry.action = "redo" /\ entry.target = g
          /\ stacks.undone = stack /\ stack # <<>> /\ Top(stack) = g
      BY <1>1, <1>2, <1>3, <1>4
    <2> QED BY <1>2, <1>3, <1>4, <2>1, ReplayedRedo DEF TopMoved
  <1>5. CASE ~redo
    <2>1. /\ entry.action = "undo" /\ entry.target = g
          /\ stacks.applied = stack /\ stack # <<>> /\ Top(stack) = g
      BY <1>1, <1>2, <1>3, <1>5
    <2> QED BY <1>2, <1>3, <1>5, <2>1, ReplayedUndo DEF TopMoved
  <1> QED BY <1>4, <1>5

\* What the chains need of the recorded group: its names, and its rows before
\* and after as the two views.
ViewsRecorded(r, n, above, below) ==
    /\ Separates(above, below, TouchedIn(r)', FoundBy(r)', n)
    /\ \A o \in TouchedIn(r)'[n] : LeftBy(r)'[n][o] = above[o]
    /\ above = [o \in Object |-> above[o]]
    /\ below = [o \in Object |-> below[o]]

LEMMA RecordedViews ==
    ASSUME ReplayInvariant, NEW b \in Branch, NEW r \in Revision, head[b] = r,
           NEW edits \in Seq(TypedEdit), DistinctObjects(edits),
           NEW action, NEW target, EditEffect(b, edits, action, target),
           NEW n, n = Len(groups[r]) + 1,
           NEW below, below = VisibleModel(rows[b]),
           NEW above, above = VisibleModel(rows[b])'
    PROVE  ViewsRecorded(r, n, above, below)
  <1>0. GroupAdded(b, r, edits, action, n)
    BY GroupIsRecorded
  <1>1. /\ \A o \in Object : below[o] = Visible(rows[b][o])
        /\ \A o \in Object : above[o] = Visible(rows'[b][o])
        /\ above = [o \in Object |-> above[o]]
        /\ below = [o \in Object |-> below[o]]
    BY DEF VisibleModel
  <1>2. /\ TouchedIn(r)'[n] = NamedBy(edits)
        /\ \A i \in 1..Len(edits) :
              LET o == edits[i].object IN
              /\ FoundBy(r)'[n][o] = Visible(rows[b][o])
              /\ LeftBy(r)'[n][o] = Visible(rows'[b][o])
    BY <1>0 DEF GroupAdded
  <1>3. \A o \in Object \ NamedBy(edits) : rows'[b][o] = rows[b][o]
    BY <1>0 DEF GroupAdded
  <1>4. \A o \in NamedBy(edits) :
           /\ o \in Object
           /\ FoundBy(r)'[n][o] = Visible(rows[b][o])
           /\ LeftBy(r)'[n][o] = Visible(rows'[b][o])
    BY <1>2 DEF NamedBy
  <1>5. Separates(above, below, TouchedIn(r)', FoundBy(r)', n)
    BY <1>1, <1>2, <1>3, <1>4 DEF Separates
  <1>6. \A o \in TouchedIn(r)'[n] : LeftBy(r)'[n][o] = above[o]
    BY <1>1, <1>2, <1>4
  <1> QED BY <1>1, <1>5, <1>6 DEF ViewsRecorded

\* The groups before stay edits with the same names and rows.
LEMMA OldGroupsStay ==
    ASSUME ReplayInvariant, NEW b \in Branch, NEW r \in Revision, head[b] = r,
           NEW edits \in Seq(TypedEdit), DistinctObjects(edits),
           NEW action, NEW target, EditEffect(b, edits, action, target)
    PROVE  /\ EditPositions(r) \subseteq EditPositions(r)'
           /\ action = "edit" => Len(groups[r]) + 1 \in EditPositions(r)'
           /\ \A g \in EditPositions(r) :
                 /\ TouchedIn(r)'[g] = TouchedIn(r)[g]
                 /\ FoundBy(r)'[g] = FoundBy(r)[g]
                 /\ LeftBy(r)'[g] = LeftBy(r)[g]
           /\ \A g \in EditPositions(r)' : TouchedIn(r)'[g] \subseteq Object
  <1>1. PICK n : n = Len(groups[r]) + 1
    OBVIOUS
  <1>2. GroupsKept(r) /\ GroupAdded(b, r, edits, action, n)
    BY <1>1, GroupIsRecorded
  <1>3. n \in DOMAIN groups'[r] /\ groups'[r][n].action = action
    BY <1>2 DEF GroupAdded
  <1>4. \A g \in EditPositions(r)' : TouchedIn(r)'[g] \subseteq Object
    BY DEF TouchedIn, EditPositions
  <1> QED BY <1>1, <1>2, <1>3, <1>4 DEF EditPositions, GroupsKept

\* A new edit is chained on top of those in effect; nothing is left to redo.
LEMMA EditKeepsUndoInvariant ==
    ASSUME ReplayInvariant, UndoInvariant, NEW b \in Branch, HasWorkingHead(b),
           NEW edits \in Seq(TypedEdit), DistinctObjects(edits),
           ApplyEdits(b, edits, "edit", 0)
    PROVE  UndoInvariant'
  <1>1. EditEffect(b, edits, "edit", 0)
    BY ApplyEditsEffect DEF ReplayInvariant
  <1>2. PICK r \in Revision : head[b] = r
    BY DEF HasWorkingHead, ReplayInvariant, Bookkeeping, TypeOK
  <1>3. RowsAreSound' /\ KindsAreKept'
    BY <1>1, <1>2, EditsKeepRows DEF ApplyEdits, UndoInvariant
  <1> DEFINE stacks == Stacks(groups[r])
             stack  == stacks.applied
             after  == Stacks(groups'[r])
  <1>4. PICK n : n = Len(groups[r]) + 1
    OBVIOUS
  <1>5. after = [applied |-> Append(stack, n), undone |-> <<>>, valid |-> TRUE]
    BY <1>1, <1>2, <1>4, StacksAfterEdit DEF UndoInvariant
  <1>6. stack \in Seq(EditPositions(r))
    BY <1>2 DEF UndoInvariant, StacksHoldEdits, ValidStacks
  <1> HIDE DEF stacks, after
  <1>7. PICK G : G = EditPositions(r)'
    OBVIOUS
  <1>8. /\ EditPositions(r) \subseteq G /\ n \in G
        /\ \A g \in EditPositions(r) :
              /\ TouchedIn(r)'[g] = TouchedIn(r)[g]
              /\ FoundBy(r)'[g] = FoundBy(r)[g]
              /\ LeftBy(r)'[g] = LeftBy(r)[g]
        /\ \A g \in G : TouchedIn(r)'[g] \subseteq Object
    BY <1>1, <1>2, <1>4, <1>7, OldGroupsStay
  <1>9. stack \in Seq(G) /\ after \in ValidStacks(G)
    BY <1>5, <1>6, <1>8 DEF ValidStacks
  <1>10. PICK below, above : below = VisibleModel(rows[b])
                             /\ above = VisibleModel(rows[b])'
    OBVIOUS
  <1>11. /\ Separates(above, below, TouchedIn(r)', FoundBy(r)', n)
         /\ \A o \in TouchedIn(r)'[n] : LeftBy(r)'[n][o] = above[o]
         /\ above = [o \in Object |-> above[o]]
    <2>1. ViewsRecorded(r, n, above, below)
      BY <1>1, <1>2, <1>4, <1>10, RecordedViews
    <2> QED BY <2>1 DEF ViewsRecorded
  <1>12. Chained(above, Append(stack, n), TouchedIn(r)', FoundBy(r)', LeftBy(r)')
    <2>1. Chained(below, stack, TouchedIn(r), FoundBy(r), LeftBy(r))
      BY <1>2, <1>10 DEF UndoInvariant, EditsAreChained, ChainedTo,
                         Compensable, stacks
    <2>2. Chained(below, stack, TouchedIn(r)', FoundBy(r)', LeftBy(r)')
      BY <1>6, <1>8, <2>1, ChainedSame
    <2> QED BY <1>8, <1>9, <1>11, <2>2, ChainPush
  <1>13. Chained(above, <<>>, TouchedIn(r)', LeftBy(r)', FoundBy(r)')
    BY DEF Chained
  <1>14. ChainedTo(r, VisibleModel(rows[b]))'
    <2>1. Compensable(r, FALSE)' = after.applied /\ Compensable(r, TRUE)' = after.undone
      BY DEF Compensable, after
    <2> QED BY <1>5, <1>10, <1>12, <1>13, <2>1 DEF ChainedTo
  <1> QED BY <1>1, <1>2, <1>3, <1>7, <1>9, <1>14, OthersStayChained
             DEF after

\* Compensating a group goes through each of its events once.
LEMMA CompensatedShape ==
    ASSUME Bookkeeping, NEW r \in Revision, NEW g \in DOMAIN groups[r],
           NEW redo \in BOOLEAN
    PROVE  /\ \A i \in DOMAIN CompensatedEvents(r, g, redo) :
                 \E j \in DOMAIN GroupEvents(r, g) :
                    CompensatedEvents(r, g, redo)[i] = GroupEvents(r, g)[j]
           /\ \A j \in DOMAIN GroupEvents(r, g) :
                 \E i \in DOMAIN CompensatedEvents(r, g, redo) :
                    CompensatedEvents(r, g, redo)[i] = GroupEvents(r, g)[j]
  <1> DEFINE group == GroupEvents(r, g)
             n     == Len(group)
             back  == CompensatedEvents(r, g, redo)
  <1>1. group \in Seq(Event)
    BY GroupEventsShape
  <1>2. n \in Nat /\ DOMAIN group = 1..n
    BY <1>1
  <1>3. back = [i \in 1..n |-> IF redo THEN group[i] ELSE group[n + 1 - i]]
    BY DEF CompensatedEvents
  <1> HIDE DEF group, n, back
  <1>4. \A i \in 1..n : n + 1 - i \in 1..n /\ n + 1 - (n + 1 - i) = i
    BY <1>2
  <1> QED BY <1>2, <1>3, <1>4 DEF group, back

\* An undo (redo) shows the objects of its group as the group had found (left)
\* them and the others as before.
LEMMA CompensationMovesView ==
    ASSUME ReplayInvariant, UndoInvariant, NEW b \in Branch, NEW r \in Revision,
           head[b] = r, NEW redo \in BOOLEAN, NEW g \in DOMAIN groups[r],
           NEW action, NEW target,
           EditEffect(b, CompensatingEdits(b, g, redo), action, target),
           NEW view, view = VisibleModel(rows[b]),
           NEW next, next = VisibleModel(rows[b])',
           NEW from, from = IF redo THEN LeftBy(r) ELSE FoundBy(r)
    PROVE  Separates(view, next, TouchedIn(r), from, g)
  <1> DEFINE edits == CompensatingEdits(b, g, redo)
             back  == CompensatedEvents(r, g, redo)
             group == GroupEvents(r, g)
  <1>1. edits \in Seq(TypedEdit) /\ DistinctObjects(edits)
    BY CompensatingEditsType, CompensatingEditsAreDistinct DEF ReplayInvariant
  <1>2. PICK n : n = Len(groups[r]) + 1
    OBVIOUS
  <1>3. GroupAdded(b, r, edits, action, n)
    BY <1>1, <1>2, GroupIsRecorded
  <1>4. edits = [i \in DOMAIN back |->
                    CompensatingEdit(rows[b][back[i].object], back[i], redo)]
    BY DEF CompensatingEdits
  <1>5. DOMAIN edits = 1..Len(edits)
    BY <1>1
  <1>6. \A i \in 1..Len(edits) :
           /\ i \in DOMAIN back
           /\ edits[i] = CompensatingEdit(rows[b][back[i].object], back[i], redo)
           /\ edits[i].object = back[i].object
    <2> HIDE DEF edits, back
    <2>1. \A i \in DOMAIN back :
             edits[i] = CompensatingEdit(rows[b][back[i].object], back[i], redo)
      BY <1>4
    <2> QED BY <1>4, <1>5, <2>1 DEF CompensatingEdit
  <1>7. /\ \A i \in DOMAIN back : \E j \in DOMAIN group : back[i] = group[j]
        /\ \A j \in DOMAIN group : \E i \in DOMAIN back : back[i] = group[j]
        /\ DOMAIN back = 1..Len(edits)
    <2>1. DOMAIN back = 1..Len(edits)
      <3> HIDE DEF edits, back
      <3> QED BY <1>4, <1>5
    <2>2. /\ \A i \in DOMAIN back : \E j \in DOMAIN group : back[i] = group[j]
          /\ \A j \in DOMAIN group : \E i \in DOMAIN back : back[i] = group[j]
      BY CompensatedShape DEF ReplayInvariant
    <2> QED BY <2>1, <2>2
  <1> HIDE DEF edits, back, group
  <1>8. TouchedIn(r)[g] = NamedBy(edits)
    <2>1. TouchedIn(r)[g] = {o \in Object : \E j \in DOMAIN group : group[j].object = o}
      BY DEF TouchedIn, IsTouched, group
    <2> QED BY <1>6, <1>7, <2>1 DEF NamedBy
  <1>9. ASSUME NEW o \in TouchedIn(r)[g]
        PROVE  next[o] = from[g][o]
    <2>1. PICK i \in 1..Len(edits) : edits[i].object = o
      BY <1>8, <1>9 DEF NamedBy
    <2>2. o \in Object
      BY <1>8, <1>9 DEF NamedBy
    <2> DEFINE event == back[i]
               row   == rows[b][o]
    <2>3. event.object = o /\ edits[i] = CompensatingEdit(row, event, redo)
      BY <1>6, <2>1
    <2>4. rows'[b][o] = Written(row, CompensatingEdit(row, event, redo))
      BY <1>3, <2>1, <2>3 DEF GroupAdded
    <2>5. EventOn(r, g, o) = event
      <3>1. PICK j \in DOMAIN group : event = group[j]
        BY <1>6, <1>7, <2>1
      <3>2. EventOn(r, g, group[j].object) = group[j]
        BY OneEventPerObject DEF ReplayInvariant, group
      <3> QED BY <2>3, <3>1, <3>2
    <2>6. event \in Event /\ \E k \in DOMAIN journal[r] : event = journal[r][k]
      BY <2>5, EventOnTouched DEF ReplayInvariant
    <2>7. head[b] # NoRevision
      BY NullsAreNotValues
    <2>8. /\ SoundRow(event.before) /\ SoundRow(event.after)
          /\ row # Absent
          /\ row.kind = event.after.kind
          /\ event.before # Absent => event.before.kind = event.after.kind
      BY <2>3, <2>6, <2>7 DEF UndoInvariant, RowsAreSound, KindsAreKept
    <2>9. row \in Row
      BY <2>2 DEF ReplayInvariant, Bookkeeping, TypeOK, Model
    <2> HIDE DEF event, row
    <2>10. Visible(rows'[b][o])
              = Visible(IF redo THEN event.after ELSE event.before)
      BY <2>4, <2>6, <2>8, <2>9, CompensationRestores
    <2>11. from[g][o] = Visible(IF redo THEN event.after ELSE event.before)
      BY <2>2, <2>5 DEF FoundBy, LeftBy
    <2>12. next[o] = Visible(rows'[b][o])
      BY <2>2 DEF VisibleModel
    <2> QED BY <2>10, <2>11, <2>12
  <1>10. ASSUME NEW o \in Object, o \notin TouchedIn(r)[g]
         PROVE  next[o] = view[o]
    <2>1. rows'[b][o] = rows[b][o]
      BY <1>3, <1>8, <1>10 DEF GroupAdded
    <2> QED BY <2>1 DEF VisibleModel
  <1> QED BY <1>9, <1>10 DEF Separates

\* An undo or a redo moves one position to the other stack, and both chain to
\* the view it leads to.
LEMMA CompensationKeepsUndoInvariant ==
    ASSUME ReplayInvariant, UndoInvariant, NEW b \in Branch, NEW expected,
           NEW redo \in BOOLEAN, CompensateObjectGroup(b, expected, redo)
    PROVE  UndoInvariant'
  <1>0. PICK action : action = (IF redo THEN "redo" ELSE "undo")
    OBVIOUS
  <1>1. PICK r \in Revision : head[b] = r
    BY DEF CompensateObjectGroup, HasWorkingHead, ReplayInvariant, Bookkeeping,
           TypeOK
  <1>2. PICK stack, other : /\ stack = Compensable(r, redo)
                            /\ other = Compensable(r, ~redo)
    OBVIOUS
  <1>3. PICK g : g = Top(stack)
    OBVIOUS
  <1> DEFINE edits == CompensatingEdits(b, g, redo)
  <1>4. /\ HasWorkingHead(b)
        /\ stack # <<>>
        /\ g \in DOMAIN groups[r]
        /\ ApplyEdits(b, edits, action, g)
    BY <1>0, <1>1, <1>2, <1>3 DEF CompensateObjectGroup, CompensatingEdits
  <1>5. edits \in Seq(TypedEdit) /\ DistinctObjects(edits)
    BY <1>1, <1>4, CompensatingEditsType, CompensatingEditsAreDistinct
       DEF ReplayInvariant
  <1> HIDE DEF edits
  <1>6. EditEffect(b, edits, action, g)
    BY <1>4, <1>5, ApplyEditsEffect DEF ReplayInvariant
  <1>7. RowsAreSound' /\ KindsAreKept'
    BY <1>1, <1>4, <1>5, <1>6, EditsKeepRows DEF ApplyEdits, UndoInvariant
  <1>8. PICK stacks, after : stacks = Stacks(groups[r]) /\ after = Stacks(groups'[r])
    OBVIOUS
  <1>9. /\ stacks \in ValidStacks(EditPositions(r))
        /\ stack = IF redo THEN stacks.undone ELSE stacks.applied
        /\ other = IF redo THEN stacks.applied ELSE stacks.undone
    BY <1>2, <1>8 DEF Compensable, UndoInvariant, StacksHoldEdits
  <1>10. stack \in Seq(EditPositions(r)) /\ other \in Seq(EditPositions(r))
    BY <1>9 DEF ValidStacks
  <1>11. g \in Nat /\ action \in {"edit", "undo", "redo"}
    <2>1. groups[r] \in Seq(Group)
      BY DEF ReplayInvariant, Bookkeeping, TypeOK
    <2> QED BY <1>0, <1>4, <2>1
  <1>12. after = TopMoved(stack, other, redo)
    <2>1. StacksHoldEdits /\ stack # <<>> /\ g \in Nat
      BY <1>4, <1>11 DEF UndoInvariant
    <2>2. Stacks(groups'[r]) = TopMoved(stack, other, redo)
      BY <1>0, <1>1, <1>2, <1>3, <1>5, <1>6, <2>1, StacksAfterCompensation
    <2> QED BY <1>8, <2>2
  <1>13. PICK G : G = EditPositions(r)'
    OBVIOUS
  <1>14. /\ EditPositions(r) \subseteq G
         /\ \A h \in EditPositions(r) :
               /\ TouchedIn(r)'[h] = TouchedIn(r)[h]
               /\ FoundBy(r)'[h] = FoundBy(r)[h]
               /\ LeftBy(r)'[h] = LeftBy(r)[h]
    BY <1>1, <1>5, <1>6, <1>13, OldGroupsStay
  <1>15. g \in EditPositions(r)
    BY <1>3, <1>4, <1>10 DEF Top
  <1>16. /\ Pop(stack) \in Seq(EditPositions(r))
         /\ Append(other, g) \in Seq(EditPositions(r))
    BY <1>4, <1>10, <1>15 DEF Pop
  <1>17. after \in ValidStacks(G)
    <2>1. Pop(stack) \in Seq(G) /\ Append(other, g) \in Seq(G)
      BY <1>14, <1>16
    <2> QED BY <1>3, <1>12, <2>1 DEF ValidStacks, TopMoved
  <1>18. PICK view, next, left, found :
            /\ view = VisibleModel(rows[b])
            /\ next = VisibleModel(rows[b])'
            /\ left = (IF redo THEN LeftBy(r) ELSE FoundBy(r))
            /\ found = (IF redo THEN FoundBy(r) ELSE LeftBy(r))
    OBVIOUS
  <1>19. Separates(view, next, TouchedIn(r), left, g)
    BY <1>1, <1>4, <1>6, <1>18, CompensationMovesView DEF edits
  <1>20. /\ view = [o \in Object |-> view[o]]
         /\ next = [o \in Object |-> next[o]]
    BY <1>18 DEF VisibleModel
  <1>21. /\ Chained(view, stack, TouchedIn(r), left, found)
         /\ Chained(view, other, TouchedIn(r), found, left)
    <2>1. ChainedTo(r, view)
      BY <1>1, <1>18 DEF UndoInvariant, EditsAreChained
    <2> QED BY <1>2, <1>18, <2>1 DEF ChainedTo
  <1>22. /\ Chained(next, Pop(stack), TouchedIn(r), left, found)
         /\ Chained(next, Append(other, g), TouchedIn(r), found, left)
    <2>1. \A h \in EditPositions(r) : TouchedIn(r)[h] \subseteq Object
      BY DEF TouchedIn, EditPositions
    <2> QED BY <1>3, <1>4, <1>10, <1>19, <1>20, <1>21, <2>1,
               CompensationKeepsChains
  <1>23. PICK left2, found2 :
            /\ left2 = (IF redo THEN LeftBy(r)' ELSE FoundBy(r)')
            /\ found2 = (IF redo THEN FoundBy(r)' ELSE LeftBy(r)')
    OBVIOUS
  <1>24. \A h \in EditPositions(r) : /\ TouchedIn(r)'[h] = TouchedIn(r)[h]
                                     /\ left2[h] = left[h]
                                     /\ found2[h] = found[h]
    BY <1>14, <1>18, <1>23
  <1>25. /\ Chained(next, Pop(stack), TouchedIn(r)', left2, found2)
         /\ Chained(next, Append(other, g), TouchedIn(r)', found2, left2)
    <2>1. Chained(next, Pop(stack), TouchedIn(r)', left2, found2)
      BY <1>16, <1>22, <1>24, ChainedSame
    <2>2. \A h \in EditPositions(r) : /\ TouchedIn(r)'[h] = TouchedIn(r)[h]
                                       /\ found2[h] = found[h]
                                       /\ left2[h] = left[h]
      BY <1>24
    <2>3. Chained(next, Append(other, g), TouchedIn(r)', found2, left2)
      <3> DEFINE long == Append(other, g)
      <3>1. /\ long \in Seq(EditPositions(r))
            /\ Chained(next, long, TouchedIn(r), found, left)
        BY <1>16, <1>22
      <3> HIDE DEF long
      <3>2. Chained(next, long, TouchedIn(r)', found2, left2)
        BY ONLY <2>2, <3>1, ChainedSame
      <3> QED BY <3>2 DEF long
    <2> QED BY <2>1, <2>3
  <1>26. ChainedTo(r, VisibleModel(rows[b]))'
    <2>1. /\ Compensable(r, FALSE)' = after.applied
          /\ Compensable(r, TRUE)' = after.undone
      BY <1>8 DEF Compensable
    <2>2. CASE redo
      BY <1>3, <1>12, <1>18, <1>23, <1>25, <2>1, <2>2 DEF ChainedTo, TopMoved
    <2>3. CASE ~redo
      BY <1>3, <1>12, <1>18, <1>23, <1>25, <2>1, <2>3 DEF ChainedTo, TopMoved
    <2> QED BY <2>2, <2>3
  <1> QED BY <1>1, <1>6, <1>7, <1>8, <1>13, <1>17, <1>26, OthersStayChained

-----------------------------------------------------------------------------
(* The invariant across the other steps.                                   *)

\* A revision that becomes a head has no groups, so nothing to undo or redo.
LEMMA NewHeadKeepsUndoInvariant ==
    ASSUME ReplayInvariant, UndoInvariant, RowsAreSound',
           groups' = groups, journal' = journal,
           NEW b \in Branch, NEW new \in Revision, state[new] = "unused",
           head' = [head EXCEPT ![b] = new],
           \A c \in Branch : c # b => rows'[c] = rows[c]
    PROVE  UndoInvariant'
  <1>1. groups[new] = <<>> /\ journal[new] = <<>>
    BY DEF ReplayInvariant, Bookkeeping, UnusedRevisionsAreBlank
  <1>2. head'[b] = new /\ \A c \in Branch : c # b => head'[c] = head[c]
    BY DEF ReplayInvariant, Bookkeeping, TypeOK
  <1>3. KindsAreKept'
    <2> SUFFICES ASSUME NEW c \in Branch, head'[c] # NoRevision,
                        NEW i \in DOMAIN journal[head'[c]]
                 PROVE  LET event == journal[head'[c]][i]
                            row   == rows'[c][event.object]
                        IN  /\ row # Absent
                            /\ row.kind = event.after.kind
                            /\ event.before # Absent =>
                                  event.before.kind = event.after.kind
      BY DEF KindsAreKept
    <2>1. c # b
      BY <1>1, <1>2
    <2> QED BY <1>2, <2>1 DEF UndoInvariant, KindsAreKept
  <1>4. StacksHoldEdits'
    <2> SUFFICES ASSUME NEW s \in Revision
                 PROVE  Stacks(groups[s]) \in ValidStacks(EditPositions(s)')
      BY DEF StacksHoldEdits, ValidStacks
    <2>1. EditPositions(s)' = EditPositions(s)
      BY SameRecordsSameStacks
    <2> QED BY <2>1 DEF UndoInvariant, StacksHoldEdits
  <1>5. EditsAreChained'
    <2> SUFFICES ASSUME NEW c \in Branch, NEW s \in Revision, head'[c] = s
                 PROVE  ChainedTo(s, VisibleModel(rows[c]))'
      BY DEF EditsAreChained
    <2>1. CASE c = b
      <3>1. s = new
        BY <1>2, <2>1
      <3>2. Compensable(s, FALSE)' = <<>> /\ Compensable(s, TRUE)' = <<>>
        BY <1>1, <3>1, StacksEmpty DEF Compensable, NoStacks
      <3>3. \A view, names, left, found : Chained(view, <<>>, names, left, found)
        BY DEF Chained
      <3> QED BY <3>2, <3>3 DEF ChainedTo
    <2>2. CASE c # b
      <3>1. VisibleModel(rows[c])' = VisibleModel(rows[c])
        BY <2>2 DEF VisibleModel
      <3>2. ChainedTo(s, VisibleModel(rows[c]))
        BY <1>2, <2>2 DEF UndoInvariant, EditsAreChained
      <3> QED BY <3>1, <3>2, SameRecordsSameStacks DEF ChainedTo
    <2> QED BY <2>1, <2>2
  <1> QED BY <1>3, <1>4, <1>5 DEF UndoInvariant

\* The same when no head, row, journal or group changes.
LEMMA IdleKeepsUndoInvariant ==
    ASSUME UndoInvariant, UNCHANGED <<head, rows, root, journal, groups>>
    PROVE  UndoInvariant'
  <1>1. RowsAreSound' /\ KindsAreKept'
    BY DEF UndoInvariant, RowsAreSound, KindsAreKept, SoundRow
  <1>2. StacksHoldEdits'
    <2> SUFFICES ASSUME NEW s \in Revision
                 PROVE  Stacks(groups[s]) \in ValidStacks(EditPositions(s)')
      BY DEF StacksHoldEdits, ValidStacks
    <2>1. EditPositions(s)' = EditPositions(s)
      BY SameRecordsSameStacks
    <2> QED BY <2>1 DEF UndoInvariant, StacksHoldEdits
  <1>3. EditsAreChained'
    <2> SUFFICES ASSUME NEW c \in Branch, NEW s \in Revision, head[c] = s
                 PROVE  ChainedTo(s, VisibleModel(rows[c]))'
      BY DEF EditsAreChained
    <2>1. VisibleModel(rows[c])' = VisibleModel(rows[c])
      BY DEF VisibleModel
    <2>2. ChainedTo(s, VisibleModel(rows[c]))
      BY DEF UndoInvariant, EditsAreChained
    <2> QED BY <2>1, <2>2, SameRecordsSameStacks DEF ChainedTo
  <1> QED BY <1>1, <1>2, <1>3 DEF UndoInvariant

LEMMA InitUndoInvariant == Init => UndoInvariant
  <1> SUFFICES ASSUME Init PROVE UndoInvariant
    OBVIOUS
  <1>1. RowsAreSound
    BY DEF Init, RowsAreSound, SoundRow, EmptyModel, Absent
  <1>2. KindsAreKept
    BY DEF Init, KindsAreKept
  <1>3. StacksHoldEdits
    <2> SUFFICES ASSUME NEW s \in Revision
                 PROVE  Stacks(groups[s]) \in ValidStacks(EditPositions(s))
      BY DEF StacksHoldEdits
    <2>1. Stacks(groups[s]) = NoStacks
      BY StacksEmpty DEF Init
    <2> QED BY <2>1 DEF NoStacks, ValidStacks
  <1>4. EditsAreChained
    BY NullsAreNotValues DEF Init, EditsAreChained
  <1> QED BY <1>1, <1>2, <1>3, <1>4 DEF UndoInvariant

LEMMA UndoInvariantStep ==
    ReplayInvariant /\ ReplayInvariant' /\ UndoInvariant /\ [Next]_tables
        => UndoInvariant'
  <1> SUFFICES ASSUME ReplayInvariant, ReplayInvariant', UndoInvariant,
                      [Next]_tables
               PROVE  UndoInvariant'
    OBVIOUS
  <1>1. CASE UNCHANGED tables
    BY <1>1, IdleKeepsUndoInvariant DEF tables
  <1>2. ASSUME NEW b \in Branch, NEW r \in Revision, CreateProject(b, r)
        PROVE  UndoInvariant'
    <2>1. RowsAreSound'
      BY <1>2 DEF CreateProject, UndoInvariant, RowsAreSound, SoundRow
    <2> QED BY <1>2, <2>1, NewHeadKeepsUndoInvariant DEF CreateProject
  <1>3. ASSUME NEW b \in Branch, NEW r, NEW base \in Revision,
               r \in Revision, CreateBranch(b, r, base)
        PROVE  UndoInvariant'
    <2>1. /\ rows' = [rows EXCEPT ![b] = IF objectMode[base] = 1 THEN root[base]
                                                                ELSE EmptyModel]
          /\ objectMode[base] = 1 => root[base] # NoRoot
          /\ root' = root /\ journal' = journal /\ groups' = groups
          /\ state[r] = "unused" /\ head' = [head EXCEPT ![b] = r]
          /\ rows \in [Branch -> Model]
      BY <1>3 DEF CreateBranch, ReplayInvariant, Bookkeeping, TypeOK
    <2>2. \A o \in Object : SoundRow(EmptyModel[o])
      BY DEF SoundRow, EmptyModel, Absent
    <2>3. \A o \in Object : SoundRow(rows'[b][o])
      BY <2>1, <2>2 DEF UndoInvariant, RowsAreSound
    <2>4. \A c \in Branch : c # b => rows'[c] = rows[c]
      BY <2>1
    <2>5. RowsAreSound'
      BY <2>1, <2>3, <2>4 DEF UndoInvariant, RowsAreSound, SoundRow
    <2> QED BY <1>3, <2>1, <2>4, <2>5, NewHeadKeepsUndoInvariant
  <1>4. ASSUME NEW b \in Branch, NEW new \in Revision,
               NEW expected \in Generations, Finalize(b, new, expected)
        PROVE  UndoInvariant'
    <2> DEFINE r == head[b]
    <2>1. /\ rows' = rows /\ journal' = journal /\ groups' = groups
          /\ state[new] = "unused" /\ head' = [head EXCEPT ![b] = new]
          /\ r \in Revision
          /\ \A s \in Revision : s # r => root'[s] = root[s]
          /\ objectMode[r] = 0 => root'[r] = NoRoot
          /\ objectMode[r] \in {0, 1}
      BY <1>4 DEF Finalize, SealAndAdvance, HasWorkingHead, ReplayInvariant,
                  Bookkeeping, TypeOK
    <2>2. objectMode[r] = 1 => root'[r] = rows[b]
      BY <1>4, SealEqualsRows
    <2>3. \A s \in Revision : root'[s] # NoRoot =>
             \A o \in Object : SoundRow(root'[s][o])
      BY <2>1, <2>2 DEF UndoInvariant, RowsAreSound
    <2>4. RowsAreSound'
      BY <2>1, <2>3 DEF UndoInvariant, RowsAreSound, SoundRow
    <2> QED BY <1>4, <2>1, <2>4, NewHeadKeepsUndoInvariant
  <1>5. ASSUME NEW b \in Branch, NEW edit \in Edit, ModifyObject(b, edit)
        PROVE  UndoInvariant'
    <2>1. <<edit>> \in Seq(TypedEdit) /\ DistinctObjects(<<edit>>)
      BY EditsAreTyped DEF DistinctObjects
    <2> QED BY <1>5, <2>1, EditKeepsUndoInvariant DEF ModifyObject
  <1>6. ASSUME NEW b \in Branch, NEW expected, NEW edits \in EditGroups,
               CommitObjectGroup(b, expected, edits)
        PROVE  UndoInvariant'
    <2>1. edits \in Seq(TypedEdit) /\ DistinctObjects(edits)
      BY EditsAreTyped DEF EditGroups
    <2> QED BY <1>6, <2>1, EditKeepsUndoInvariant DEF CommitObjectGroup
  <1>7. ASSUME NEW b \in Branch, NEW expected, NEW redo \in BOOLEAN,
               CompensateObjectGroup(b, expected, redo)
        PROVE  UndoInvariant'
    BY <1>7, CompensationKeepsUndoInvariant
  <1>8. ASSUME NEW r, NEW new, NEW action, NEW target,
               ApplySnapshotOperation(r, new, action, target)
        PROVE  UndoInvariant'
    BY <1>8, IdleKeepsUndoInvariant DEF ApplySnapshotOperation
  <1>9. ASSUME NEW b \in Branch, NEW expected
        PROVE  /\ \A bytes \in Bytes :
                     ReplaceWorkingSnapshot(b, expected, bytes) => UndoInvariant'
               /\ UndoLastChange(b, expected) => UndoInvariant'
               /\ RedoLastChange(b, expected) => UndoInvariant'
    BY <1>8 DEF ReplaceWorkingSnapshot, UndoLastChange, RedoLastChange
  <1> QED
    BY <1>1, <1>2, <1>3, <1>4, <1>5, <1>6, <1>7, <1>9 DEF Next

LEMMA UndoInvariantIsInvariant == Spec => [](ReplayInvariant /\ UndoInvariant)
  <1>1. Init => UndoInvariant
    BY InitUndoInvariant
  <1>2. ReplayInvariant /\ ReplayInvariant' /\ UndoInvariant /\ [Next]_tables
           => UndoInvariant'
    BY UndoInvariantStep
  <1> QED
    BY <1>1, <1>2, ReplayInvariantIsInvariant, PTL DEF Spec

LEMMA UndoInvariantSuffices ==
    ReplayInvariant /\ UndoInvariant => UndoRedoNeverConflicts
  <1> SUFFICES ASSUME ReplayInvariant, UndoInvariant, NEW b \in Branch,
                      HasWorkingHead(b)
               PROVE  /\ Stacks(groups[head[b]]).valid
                      /\ \A redo \in BOOLEAN :
                            LET stack  == Compensable(head[b], redo)
                                events == CompensatedEvents(head[b], Top(stack), redo)
                            IN  stack # <<>> =>
                                  /\ groups[head[b]][Top(stack)].action = "edit"
                                  /\ events # <<>>
                                  /\ \A i \in DOMAIN events :
                                        Matches(rows[b][events[i].object],
                                                events[i], redo)
    BY DEF UndoRedoNeverConflicts
  <1>1. head[b] \in Revision /\ head[b] # NoRevision
    BY DEF HasWorkingHead, ReplayInvariant, Bookkeeping, TypeOK
  <1>2. Stacks(groups[head[b]]).valid
    BY <1>1 DEF UndoInvariant, StacksHoldEdits, ValidStacks
  <1>3. ASSUME NEW redo \in BOOLEAN, Compensable(head[b], redo) # <<>>
        PROVE  LET g      == Top(Compensable(head[b], redo))
                   events == CompensatedEvents(head[b], g, redo)
               IN  /\ groups[head[b]][g].action = "edit"
                   /\ events # <<>>
                   /\ \A i \in DOMAIN events :
                         Matches(rows[b][events[i].object], events[i], redo)
    BY <1>1, <1>3, TopMatches DEF EditPositions
  <1> QED BY <1>2, <1>3

\* The replay of a working revision's groups never meets an invalid chain, and
\* every row that the next undo or redo compensates still is what the journal
\* says: compensateObjectGroup never refuses a caller that knows the generation
\* because of the state of the revision.
THEOREM UndoRedoNeverMeetConflicts == Spec => []UndoRedoNeverConflicts
  BY UndoInvariantIsInvariant, UndoInvariantSuffices, PTL

-----------------------------------------------------------------------------
(* Object edits refine EditHistory.                                        *)

\* What undoing the positions of a stack in turn leads to.
Rewinds(view, stack, names, left) ==
    [k \in 1..Len(stack) |-> Rewound(view, stack, names, left, k)]

\* What an appended sequence is, element by element.
LEMMA AppendedSequence ==
    ASSUME NEW S, NEW s \in Seq(S), NEW x \in S,
           NEW t \in [1..(Len(s) + 1) -> S],
           \A k \in 1..Len(s) : t[k] = s[k], t[Len(s) + 1] = x
    PROVE  t = Append(s, x)
  <1> DEFINE n == Len(s)
  <1>1. n \in Nat
    OBVIOUS
  <1>2. \A k \in 1..(n + 1) : k \in 1..n \/ k = n + 1
    BY <1>1
  <1>3. Append(s, x) \in Seq(S) /\ Len(Append(s, x)) = n + 1
    OBVIOUS
  <1>4. \A k \in 1..(n + 1) : t[k] = Append(s, x)[k]
    <2>1. (\A k \in 1..n : Append(s, x)[k] = s[k]) /\ Append(s, x)[n + 1] = x
      BY AppendProperties
    <2>2. (\A k \in 1..n : t[k] = s[k]) /\ t[n + 1] = x
      OBVIOUS
    <2> HIDE DEF n
    <2> QED BY <2>1, <2>2, <1>1, <1>2
  <1>5. t \in [1..(n + 1) -> S]
    OBVIOUS
  <1> HIDE DEF n
  <1>6. t \in Seq(S) /\ Len(t) = n + 1
    BY <1>1, <1>5
  <1> QED BY ONLY <1>1, <1>3, <1>4, <1>6, SeqEqual

OverObjects(view) == view = [o \in Object |-> view[o]]

LEMMA RewindsPush ==
    ASSUME NEW G, NEW stack \in Seq(G), NEW g \in G, NEW above, NEW below,
           OverObjects(below),
           NEW names, NEW left, Separates(above, below, names, left, g)
    PROVE  Rewinds(above, Append(stack, g), names, left)
              = Append(Rewinds(below, stack, names, left), below)
  <1> DEFINE n == Len(stack)
             long == Append(stack, g)
             old == Rewinds(below, stack, names, left)
  <1>1. n \in Nat /\ Len(long) = n + 1
    OBVIOUS
  <1>2. /\ DOMAIN old = 1..n
        /\ \A k \in 1..n : old[k] = Rewound(below, stack, names, left, k)
        /\ old = [k \in 1..n |-> old[k]]
    BY DEF Rewinds
  <1>3. \A k \in 1..(n + 1) : Rewound(above, long, names, left, k)
                                = Rewound(below, stack, names, left, k)
    BY RewoundPush
  <1>4. Rewound(below, stack, names, left, n + 1) = below
    BY RewoundTop DEF OverObjects
  <1>5. Rewinds(above, long, names, left)
           = [k \in 1..(n + 1) |-> Rewound(above, long, names, left, k)]
    BY <1>1 DEF Rewinds
  <1> DEFINE S == {old[k] : k \in 1..n} \cup {below}
             new == Rewinds(above, long, names, left)
  <1>6. old \in Seq(S) /\ Len(old) = n /\ below \in S
    <2> HIDE DEF n, old
    <2>1. old \in [1..n -> S]
      BY <1>2
    <2> QED BY <1>1, <2>1
  <1>7. /\ new = [k \in 1..(n + 1) |-> new[k]]
        /\ \A k \in 1..(n + 1) : new[k] = Rewound(above, long, names, left, k)
    <2> HIDE DEF n, long
    <2> QED BY <1>5
  <1>8. (\A k \in 1..n : new[k] = old[k]) /\ new[n + 1] = below
    <2> HIDE DEF n, long, old, new, S
    <2>1. \A k \in 1..n : k \in 1..(n + 1)
      BY <1>1
    <2>2. n + 1 \in 1..(n + 1)
      BY <1>1
    <2>3. \A k \in 1..n : new[k] = old[k]
      BY <1>2, <1>3, <1>7, <2>1
    <2>4. new[n + 1] = below
      BY <1>3, <1>4, <1>7, <2>2
    <2> QED BY <2>3, <2>4
  <1>9. new = Append(old, below)
    <2> HIDE DEF n, long, old, new, S
    <2>1. old \in Seq(S) /\ below \in S
      BY <1>6
    <2>2. /\ \A k \in 1..Len(old) : new[k] = old[k]
          /\ new[Len(old) + 1] = below
      BY <1>6, <1>8
    <2>3. \A k \in 1..(n + 1) : new[k] \in S
      <3>1. \A k \in 1..(n + 1) : k \in 1..n \/ k = n + 1
        BY <1>1
      <3>2. (\A k \in 1..n : old[k] \in S) /\ below \in S
        BY DEF S
      <3> QED BY <1>8, <3>1, <3>2
    <2>4. new \in [1..(Len(old) + 1) -> S]
      BY <1>6, <1>7, <2>3
    <2> QED BY ONLY <2>1, <2>2, <2>4, AppendedSequence
  <1> QED BY <1>9

LEMMA RewindsSame ==
    ASSUME NEW G, NEW stack \in Seq(G), NEW view,
           NEW names, NEW left, NEW names2, NEW left2,
           \A g \in G : names2[g] = names[g] /\ left2[g] = left[g]
    PROVE  Rewinds(view, stack, names2, left2) = Rewinds(view, stack, names, left)
  <1>1. \A k \in 1..Len(stack) : Rewound(view, stack, names2, left2, k)
                                    = Rewound(view, stack, names, left, k)
    BY RewoundSame
  <1> QED BY <1>1 DEF Rewinds

\* The mapping of HistoryRefinement, read off the stacks as such rewinds.
HistoryIsRewound ==
    \A b \in Branch :
        /\ head[b] = NoRevision => ObjectPast(b) = <<>> /\ ObjectFuture(b) = <<>>
        /\ \A r \in Revision : head[b] = r =>
              /\ ObjectPast(b) = Rewinds(VisibleModel(rows[b]),
                                         Compensable(r, FALSE),
                                         TouchedIn(r), FoundBy(r))
              /\ ObjectFuture(b) = Rewinds(VisibleModel(rows[b]),
                                           Compensable(r, TRUE),
                                           TouchedIn(r), LeftBy(r))

LEMMA MappingRewinds ==
    ASSUME Bookkeeping, NEW b \in Branch, NEW r \in Revision, head[b] = r,
           NEW stack \in Seq(EditPositions(r)), NEW k \in 1..Len(stack)
    PROVE  /\ BeforeApplied(b, stack, k)
                 = Rewound(VisibleModel(rows[b]), stack, TouchedIn(r), FoundBy(r), k)
           /\ AfterRedone(b, stack, k)
                 = Rewound(VisibleModel(rows[b]), stack, TouchedIn(r), LeftBy(r), k)
  <1> SUFFICES ASSUME NEW o \in Object
               PROVE  /\ BeforeApplied(b, stack, k)[o]
                            = Rewound(VisibleModel(rows[b]), stack,
                                      TouchedIn(r), FoundBy(r), k)[o]
                      /\ AfterRedone(b, stack, k)[o]
                            = Rewound(VisibleModel(rows[b]), stack,
                                      TouchedIn(r), LeftBy(r), k)[o]
    BY DEF BeforeApplied, AfterRedone, Rewound
  <1> DEFINE at == {j \in k..Len(stack) : o \in TouchedIn(r)[stack[j]]}
             first == stack[Smallest(at)]
  <1>1. \A j \in k..Len(stack) :
           /\ j \in Nat
           /\ stack[j] \in DOMAIN groups[r]
           /\ o \in TouchedIn(r)[stack[j]] <=> IsTouched(GroupEvents(r, stack[j]), o)
    <2> SUFFICES ASSUME NEW j \in k..Len(stack)
                 PROVE  /\ j \in Nat
                        /\ stack[j] \in DOMAIN groups[r]
                        /\ o \in TouchedIn(r)[stack[j]] <=>
                              IsTouched(GroupEvents(r, stack[j]), o)
      OBVIOUS
    <2>1. j \in Nat /\ j \in 1..Len(stack) /\ stack[j] \in EditPositions(r)
      OBVIOUS
    <2>2. stack[j] \in DOMAIN groups[r]
      BY <2>1 DEF EditPositions
    <2> QED BY <2>1, <2>2 DEF TouchedIn
  <1>2. Naming(head[b], stack, k, o) = at
    BY <1>1 DEF Naming
  <1>3. at \in SUBSET Nat
    BY <1>1
  <1>4. at # {} => first \in DOMAIN groups[r]
    <2> HIDE DEF at
    <2>1. at # {} => Smallest(at) \in at
      BY <1>3, SmallestIsLeast
    <2> QED BY <1>1, <2>1 DEF at
  <1>5. /\ BeforeApplied(b, stack, k)[o]
              = IF at = {} THEN Visible(rows[b][o])
                           ELSE Visible(EventOn(r, first, o).before)
        /\ AfterRedone(b, stack, k)[o]
              = IF at = {} THEN Visible(rows[b][o])
                           ELSE Visible(EventOn(r, first, o).after)
    BY <1>2 DEF BeforeApplied, AfterRedone
  <1>6. /\ Rewound(VisibleModel(rows[b]), stack, TouchedIn(r), FoundBy(r), k)[o]
              = IF at = {} THEN Visible(rows[b][o]) ELSE FoundBy(r)[first][o]
        /\ Rewound(VisibleModel(rows[b]), stack, TouchedIn(r), LeftBy(r), k)[o]
              = IF at = {} THEN Visible(rows[b][o]) ELSE LeftBy(r)[first][o]
    BY DEF Rewound, VisibleModel
  <1>7. at # {} => /\ FoundBy(r)[first][o] = Visible(EventOn(r, first, o).before)
                   /\ LeftBy(r)[first][o] = Visible(EventOn(r, first, o).after)
    <2> HIDE DEF at, first
    <2> QED BY <1>4 DEF FoundBy, LeftBy
  <1> HIDE DEF at, first
  <1> QED BY <1>5, <1>6, <1>7

LEMMA MappingIsRewound == ReplayInvariant /\ UndoInvariant => HistoryIsRewound
  <1> SUFFICES ASSUME ReplayInvariant, UndoInvariant, NEW b \in Branch
               PROVE  /\ head[b] = NoRevision =>
                            ObjectPast(b) = <<>> /\ ObjectFuture(b) = <<>>
                      /\ \A r \in Revision : head[b] = r =>
                            /\ ObjectPast(b) = Rewinds(VisibleModel(rows[b]),
                                                       Compensable(r, FALSE),
                                                       TouchedIn(r), FoundBy(r))
                            /\ ObjectFuture(b) = Rewinds(VisibleModel(rows[b]),
                                                         Compensable(r, TRUE),
                                                         TouchedIn(r), LeftBy(r))
    BY DEF HistoryIsRewound
  <1>1. head[b] = NoRevision => ObjectPast(b) = <<>> /\ ObjectFuture(b) = <<>>
    BY DEF ObjectPast, ObjectFuture, IsOpen
  <1>2. ASSUME NEW r \in Revision, head[b] = r
        PROVE  /\ ObjectPast(b) = Rewinds(VisibleModel(rows[b]),
                                          Compensable(r, FALSE),
                                          TouchedIn(r), FoundBy(r))
               /\ ObjectFuture(b) = Rewinds(VisibleModel(rows[b]),
                                            Compensable(r, TRUE),
                                            TouchedIn(r), LeftBy(r))
    <2>1. PICK applied, undone : /\ applied = Compensable(r, FALSE)
                                 /\ undone = Compensable(r, TRUE)
      OBVIOUS
    <2>2. applied \in Seq(EditPositions(r)) /\ undone \in Seq(EditPositions(r))
      BY <2>1 DEF UndoInvariant, StacksHoldEdits, ValidStacks, Compensable
    <2>3. IsOpen(b)
      BY <1>2, NullsAreNotValues DEF IsOpen
    <2>7. DOMAIN applied = 1..Len(applied) /\ DOMAIN undone = 1..Len(undone)
      BY <2>2
    <2>4. /\ ObjectPast(b) = [k \in 1..Len(applied) |-> BeforeApplied(b, applied, k)]
          /\ ObjectFuture(b) = [k \in 1..Len(undone) |-> AfterRedone(b, undone, k)]
      <3>1. /\ ObjectPast(b) = [k \in DOMAIN applied |-> BeforeApplied(b, applied, k)]
            /\ ObjectFuture(b) = [k \in DOMAIN undone |-> AfterRedone(b, undone, k)]
        BY <1>2, <2>1, <2>3 DEF ObjectPast, ObjectFuture
      <3> QED BY <2>7, <3>1
    <2>5. \A k \in 1..Len(applied) :
             BeforeApplied(b, applied, k)
                = Rewound(VisibleModel(rows[b]), applied, TouchedIn(r), FoundBy(r), k)
      BY <1>2, <2>2, MappingRewinds DEF ReplayInvariant
    <2>6. \A k \in 1..Len(undone) :
             AfterRedone(b, undone, k)
                = Rewound(VisibleModel(rows[b]), undone, TouchedIn(r), LeftBy(r), k)
      BY <1>2, <2>2, MappingRewinds DEF ReplayInvariant
    <2> QED BY <2>1, <2>4, <2>5, <2>6 DEF Rewinds
  <1> QED BY <1>1, <1>2

\* What ObjectHistory's State stands for.
EditorView == [Object -> [kind : Kind \cup {NoKind},
                          content : Content \cup {NoContent}]]

LEMMA ViewType ==
    ASSUME NEW model \in Model
    PROVE  VisibleModel(model) \in EditorView
  <1>1. \A o \in Object : model[o] \in Row
    BY DEF Model
  <1>2. ASSUME NEW row \in Row
        PROVE  Visible(row) \in [kind : Kind \cup {NoKind},
                                 content : Content \cup {NoContent}]
    <2>1. row.content \in Content \cup {NoContent}
      BY DEF Row, StoredRow, Absent
    <2>2. ~row.deleted => row.kind \in Kind
      BY VisibleKinds
    <2> QED BY <2>1, <2>2 DEF Visible, Gone
  <1> QED BY <1>1, <1>2 DEF VisibleModel, EditorView

LEMMA RewindsNothing ==
    ASSUME NEW view, NEW names, NEW left
    PROVE  Rewinds(view, <<>>, names, left) = <<>>
  BY DEF Rewinds

\* An edit or a group of edits is a Change.
LEMMA EditIsAChange ==
    ASSUME ReplayInvariant, UndoInvariant, HistoryIsRewound,
           TypeOK', HistoryIsRewound', NEW b \in Branch, HasWorkingHead(b),
           NEW edits \in Seq(TypedEdit), DistinctObjects(edits),
           ApplyEdits(b, edits, "edit", 0)
    PROVE  ObjectHistory(b)!HNext
  <1>1. EditEffect(b, edits, "edit", 0)
    BY ApplyEditsEffect DEF ReplayInvariant
  <1>2. PICK r \in Revision : head[b] = r
    BY DEF HasWorkingHead, ReplayInvariant, Bookkeeping, TypeOK
  <1>3. PICK view, next, n, stack : /\ view = VisibleModel(rows[b])
                                    /\ next = VisibleModel(rows[b])'
                                    /\ n = Len(groups[r]) + 1
                                    /\ stack = Compensable(r, FALSE)
    OBVIOUS
  <1>4. PICK names, found, left : /\ names = TouchedIn(r)'
                                  /\ found = FoundBy(r)'
                                  /\ left = LeftBy(r)'
    OBVIOUS
  <1>5. stack \in Seq(EditPositions(r))
    BY <1>3 DEF UndoInvariant, StacksHoldEdits, ValidStacks, Compensable
  <1>6. PICK G : G = EditPositions(r)'
    OBVIOUS
  <1>7. /\ EditPositions(r) \subseteq G /\ n \in G
        /\ \A g \in EditPositions(r) : names[g] = TouchedIn(r)[g]
                                       /\ found[g] = FoundBy(r)[g]
    BY <1>1, <1>2, <1>3, <1>4, <1>6, OldGroupsStay
  <1>8. stack \in Seq(G)
    BY <1>5, <1>7
  <1>9. Compensable(r, FALSE)' = Append(stack, n) /\ Compensable(r, TRUE)' = <<>>
    <2>1. Stacks(groups'[r]) = [applied |-> Append(Stacks(groups[r]).applied, n),
                                undone |-> <<>>, valid |-> TRUE]
      BY <1>1, <1>2, <1>3, StacksAfterEdit DEF UndoInvariant
    <2> QED BY <1>3, <2>1 DEF Compensable
  <1>10. /\ Separates(next, view, names, found, n)
         /\ OverObjects(view)
    <2>1. ViewsRecorded(r, n, next, view)
      BY <1>1, <1>2, <1>3, RecordedViews
    <2> QED BY <1>4, <2>1 DEF ViewsRecorded, OverObjects
  <1>17. /\ ObjectPast(b)' = Rewinds(next, Compensable(r, FALSE)', names, found)
         /\ ObjectFuture(b)' = Rewinds(next, Compensable(r, TRUE)', names, left)
    <2>1. head'[b] = r
      BY <1>1, <1>2 DEF EditEffect
    <2> QED BY <1>3, <1>4, <2>1 DEF HistoryIsRewound
  <1>11. ObjectPast(b)' = Append(ObjectPast(b), view)
    <2>1. ObjectPast(b) = Rewinds(view, stack, TouchedIn(r), FoundBy(r))
      BY <1>2, <1>3 DEF HistoryIsRewound
    <2>2. Rewinds(view, stack, names, found)
             = Rewinds(view, stack, TouchedIn(r), FoundBy(r))
      BY <1>5, <1>7, RewindsSame
    <2>3. ObjectPast(b)' = Rewinds(next, Append(stack, n), names, found)
      BY <1>9, <1>17
    <2>4. Rewinds(next, Append(stack, n), names, found)
             = Append(Rewinds(view, stack, names, found), view)
      <3>1. stack \in Seq(G) /\ n \in G
        BY <1>7, <1>8
      <3> QED BY ONLY <1>10, <3>1, RewindsPush
    <2> QED BY <2>1, <2>2, <2>3, <2>4
  <1>12. ObjectFuture(b)' = <<>>
    BY <1>9, <1>17, RewindsNothing
  <1>13. next \in EditorView
    <2>1. rows'[b] \in Model
      BY DEF TypeOK
    <2> QED BY <1>3, <2>1, ViewType DEF VisibleModel
  <1>14. next # view
    <2>1. 1 \in 1..Len(edits) /\ edits[1] \in TypedEdit
      BY <1>1 DEF EditEffect
    <2>2. PICK o \in Object : o = edits[1].object
      BY <2>1 DEF TypedEdit
    <2>3. rows'[b][o] = Written(rows[b][o], edits[1])
      BY <1>1, <1>2, <1>3, <2>1, <2>2, GroupIsRecorded DEF GroupAdded
    <2>4. rows[b][o] \in Row /\ SoundRow(rows[b][o])
      BY DEF ReplayInvariant, Bookkeeping, TypeOK, Model, UndoInvariant, RowsAreSound
    <2>5. Accepts(rows[b][o], edits[1])
      BY <2>1, <2>2 DEF ApplyEdits
    <2>6. Visible(rows'[b][o]) # Visible(rows[b][o])
      BY <2>1, <2>3, <2>4, <2>5, WrittenIsSoundAndNew
    <2>7. view[o] = Visible(rows[b][o]) /\ next[o] = Visible(rows'[b][o])
      BY <1>3 DEF VisibleModel
    <2> QED BY <2>6, <2>7
  <1>15. IsOpen(b) /\ IsOpen(b)'
    BY <1>1 DEF IsOpen, HasWorkingHead, EditEffect
  <1>16. ObjectHistory(b)!Change
    BY <1>3, <1>11, <1>12, <1>13, <1>14, <1>15
       DEF ObjectHistory!Change, EditorView
  <1> QED BY <1>16 DEF ObjectHistory!HNext

\* What moving the top of one stack to the other does to the models that both
\* lead to.
LEMMA CompensationRewinds ==
    ASSUME NEW G, NEW stack \in Seq(G), stack # <<>>, NEW other \in Seq(G),
           NEW view, OverObjects(view),
           NEW next, OverObjects(next),
           NEW names, NEW left, NEW found,
           \A h \in G : names[h] \subseteq Object,
           Separates(view, next, names, left, Top(stack)),
           Chained(view, stack, names, left, found)
    PROVE  /\ Rewinds(view, stack, names, left)
                 = Append(Rewinds(next, Pop(stack), names, left), next)
           /\ Rewinds(next, Append(other, Top(stack)), names, found)
                 = Append(Rewinds(view, other, names, found), view)
  <1>1. PICK g, rest : g = Top(stack) /\ rest = Pop(stack)
    OBVIOUS
  <1>2. g \in G /\ rest \in Seq(G)
    BY <1>1 DEF Top, Pop
  <1>7. stack = Append(rest, g)
    BY <1>1 DEF Top, Pop
  <1>3. Separates(view, next, names, left, g) /\ OverObjects(next)
    BY <1>1
  <1>4. Separates(next, view, names, found, g) /\ OverObjects(view)
    <2>1. \A o \in names[g] : found[g][o] = view[o]
      BY <1>1, ChainTop DEF OverObjects
    <2> QED BY <1>3, <2>1 DEF Separates
  <1>5. Rewinds(view, Append(rest, g), names, left)
           = Append(Rewinds(next, rest, names, left), next)
    <2>1. rest \in Seq(G)
      BY <1>2
    <2>2. g \in G
      BY <1>2
    <2> QED BY ONLY <2>1, <2>2, <1>3, RewindsPush
  <1>6. Rewinds(next, Append(other, g), names, found)
           = Append(Rewinds(view, other, names, found), view)
    BY ONLY other \in Seq(G), <1>2, <1>4, RewindsPush
  <1> QED BY <1>1, <1>5, <1>6, <1>7

\* A grouped undo is an Undo, a grouped redo a Redo.
LEMMA CompensationIsUndoOrRedo ==
    ASSUME ReplayInvariant, UndoInvariant, HistoryIsRewound,
           HistoryIsRewound', NEW b \in Branch, NEW expected,
           NEW redo \in BOOLEAN, CompensateObjectGroup(b, expected, redo)
    PROVE  ObjectHistory(b)!HNext
  <1>0. PICK action : action = (IF redo THEN "redo" ELSE "undo")
    OBVIOUS
  <1>1. PICK r \in Revision : head[b] = r
    BY DEF CompensateObjectGroup, HasWorkingHead, ReplayInvariant, Bookkeeping,
           TypeOK
  <1>2. PICK stack, other : /\ stack = Compensable(r, redo)
                            /\ other = Compensable(r, ~redo)
    OBVIOUS
  <1>3. PICK g : g = Top(stack)
    OBVIOUS
  <1> DEFINE edits == CompensatingEdits(b, g, redo)
  <1>4. /\ HasWorkingHead(b)
        /\ stack # <<>>
        /\ g \in DOMAIN groups[r]
        /\ ApplyEdits(b, edits, action, g)
    BY <1>0, <1>1, <1>2, <1>3 DEF CompensateObjectGroup, CompensatingEdits
  <1>5. edits \in Seq(TypedEdit) /\ DistinctObjects(edits)
    BY <1>1, <1>4, CompensatingEditsType, CompensatingEditsAreDistinct
       DEF ReplayInvariant
  <1> HIDE DEF edits
  <1>6. EditEffect(b, edits, action, g)
    BY <1>4, <1>5, ApplyEditsEffect DEF ReplayInvariant
  <1>7. stack \in Seq(EditPositions(r)) /\ other \in Seq(EditPositions(r))
    BY <1>2 DEF ValidStacks, Compensable, UndoInvariant, StacksHoldEdits
  <1>8. Stacks(groups'[r]) = TopMoved(stack, other, redo)
    <2>1. g \in Nat
      <3>1. groups[r] \in Seq(Group)
        BY DEF ReplayInvariant, Bookkeeping, TypeOK
      <3> QED BY <1>4, <3>1
    <2>2. StacksHoldEdits /\ stack # <<>>
      BY <1>4 DEF UndoInvariant
    <2> QED BY <1>0, <1>1, <1>2, <1>3, <1>5, <1>6, <2>1, <2>2,
               StacksAfterCompensation
  <1>9. \A h \in EditPositions(r) :
           /\ TouchedIn(r)'[h] = TouchedIn(r)[h]
           /\ FoundBy(r)'[h] = FoundBy(r)[h]
           /\ LeftBy(r)'[h] = LeftBy(r)[h]
    BY <1>1, <1>5, <1>6, OldGroupsStay
  <1>10. PICK view, next, names, left, found :
            /\ view = VisibleModel(rows[b])
            /\ next = VisibleModel(rows[b])'
            /\ names = TouchedIn(r)
            /\ left = (IF redo THEN LeftBy(r) ELSE FoundBy(r))
            /\ found = (IF redo THEN FoundBy(r) ELSE LeftBy(r))
    OBVIOUS
  <1>11. PICK names2, left2, found2 :
            /\ names2 = TouchedIn(r)'
            /\ left2 = (IF redo THEN LeftBy(r)' ELSE FoundBy(r)')
            /\ found2 = (IF redo THEN FoundBy(r)' ELSE LeftBy(r)')
    OBVIOUS
  <1>12. /\ Rewinds(view, stack, names, left)
               = Append(Rewinds(next, Pop(stack), names, left), next)
         /\ Rewinds(next, Append(other, g), names, found)
               = Append(Rewinds(view, other, names, found), view)
    <2>1. Separates(view, next, names, left, g)
      BY <1>1, <1>4, <1>6, <1>10, CompensationMovesView DEF edits
    <2>2. OverObjects(view) /\ OverObjects(next)
      BY <1>10 DEF VisibleModel, OverObjects
    <2>3. Chained(view, stack, names, left, found)
      <3>1. ChainedTo(r, view)
        BY <1>1, <1>10 DEF UndoInvariant, EditsAreChained
      <3> QED BY <1>2, <1>10, <3>1 DEF ChainedTo
    <2>4. \A h \in EditPositions(r) : names[h] \subseteq Object
      BY <1>10 DEF TouchedIn, EditPositions
    <2>5. stack # <<>> /\ Separates(view, next, names, left, Top(stack))
      BY <1>3, <1>4, <2>1
    <2>6. /\ Rewinds(view, stack, names, left)
                = Append(Rewinds(next, Pop(stack), names, left), next)
          /\ Rewinds(next, Append(other, Top(stack)), names, found)
                = Append(Rewinds(view, other, names, found), view)
      BY ONLY <1>7, <2>2, <2>3, <2>4, <2>5, CompensationRewinds
    <2> QED BY <1>3, <2>6
  <1>13. /\ \A h \in EditPositions(r) : names2[h] = names[h] /\ left2[h] = left[h]
         /\ \A h \in EditPositions(r) : names2[h] = names[h] /\ found2[h] = found[h]
    BY <1>9, <1>10, <1>11
  <1>14. /\ Pop(stack) \in Seq(EditPositions(r))
         /\ Append(other, g) \in Seq(EditPositions(r))
    BY <1>3, <1>4, <1>7 DEF Pop, Top
  <1>15. /\ Rewinds(next, Pop(stack), names2, left2)
               = Rewinds(next, Pop(stack), names, left)
         /\ Rewinds(next, Append(other, g), names2, found2)
               = Rewinds(next, Append(other, g), names, found)
    <2>1. PICK rest, long : rest = Pop(stack) /\ long = Append(other, g)
      OBVIOUS
    <2>2. rest \in Seq(EditPositions(r)) /\ long \in Seq(EditPositions(r))
      BY <1>14, <2>1
    <2>3. Rewinds(next, rest, names2, left2) = Rewinds(next, rest, names, left)
      BY ONLY <1>13, <2>2, RewindsSame
    <2>4. Rewinds(next, long, names2, found2) = Rewinds(next, long, names, found)
      BY ONLY <1>13, <2>2, RewindsSame
    <2> QED BY <2>1, <2>3, <2>4
  <1>16. PICK left1, right1 : /\ left1 = Rewinds(next, Pop(stack), names, left)
                              /\ right1 = Rewinds(view, other, names, found)
    OBVIOUS
  <1>17. head'[b] = r /\ IsOpen(b) /\ IsOpen(b)'
    BY <1>1, <1>4, <1>6 DEF EditEffect, IsOpen, HasWorkingHead
  <1>18. left1 \in Seq({next} \cup {left1[k] : k \in DOMAIN left1})
    <2>1. Len(Pop(stack)) \in Nat
      BY <1>14
    <2> QED BY <1>16, <2>1 DEF Rewinds
  <1>19. PICK long : long = Append(left1, next)
    OBVIOUS
  <1>20. /\ long # <<>>
         /\ long[Len(long)] = next
         /\ SubSeq(long, 1, Len(long) - 1) = left1
    BY <1>18, <1>19
  <1>21. CASE ~redo
    <2>1. ObjectPast(b) = long /\ ObjectFuture(b) = right1
      BY <1>1, <1>2, <1>10, <1>12, <1>16, <1>19, <1>21 DEF HistoryIsRewound
    <2>2. Compensable(r, FALSE)' = Pop(stack) /\ Compensable(r, TRUE)' = Append(other, g)
      BY <1>3, <1>8, <1>21 DEF Compensable, TopMoved
    <2>3. ObjectPast(b)' = left1 /\ ObjectFuture(b)' = Append(right1, view)
      BY <1>10, <1>11, <1>12, <1>15, <1>16, <1>17, <1>21, <2>2 DEF HistoryIsRewound
    <2>4. ObjectHistory(b)!Undo
      BY <1>10, <1>17, <1>20, <2>1, <2>3
         DEF ObjectHistory!Undo, ObjectHistory!Newest, ObjectHistory!Without
    <2> QED BY <2>4 DEF ObjectHistory!HNext
  <1>22. CASE redo
    <2>1. ObjectFuture(b) = long /\ ObjectPast(b) = right1
      BY <1>1, <1>2, <1>10, <1>12, <1>16, <1>19, <1>22 DEF HistoryIsRewound
    <2>2. Compensable(r, TRUE)' = Pop(stack) /\ Compensable(r, FALSE)' = Append(other, g)
      BY <1>3, <1>8, <1>22 DEF Compensable, TopMoved
    <2>3. ObjectFuture(b)' = left1 /\ ObjectPast(b)' = Append(right1, view)
      BY <1>10, <1>11, <1>12, <1>15, <1>16, <1>17, <1>22, <2>2 DEF HistoryIsRewound
    <2>4. ObjectHistory(b)!Redo
      BY <1>10, <1>17, <1>20, <2>1, <2>3
         DEF ObjectHistory!Redo, ObjectHistory!Newest, ObjectHistory!Without
    <2> QED BY <2>4 DEF ObjectHistory!HNext
  <1> QED BY <1>21, <1>22

LEMMA CompensationIsObjectStep ==
    ASSUME Bookkeeping, NEW b \in Branch, NEW expected, NEW redo \in BOOLEAN,
           CompensateObjectGroup(b, expected, redo)
    PROVE  ObjectStep(b)
  <1> DEFINE target == Top(Compensable(head[b], redo))
             action == IF redo THEN "redo" ELSE "undo"
  <1>1. /\ HasWorkingHead(b)
        /\ target \in DOMAIN groups[head[b]]
        /\ ApplyEdits(b, CompensatingEdits(b, target, redo), action, target)
    BY DEF CompensateObjectGroup, CompensatingEdits
  <1>2. head[b] \in Revision
    BY <1>1 DEF HasWorkingHead, Bookkeeping, TypeOK
  <1>3. target \in Nat
    <2>1. groups[head[b]] \in Seq(Group)
      BY <1>2 DEF Bookkeeping, TypeOK
    <2> QED BY <1>1, <2>1
  <1>4. action \in {"edit", "undo", "redo"}
    OBVIOUS
  <1> HIDE DEF target, action
  <1>5. CompensatingEdits(b, target, redo) \in Seq(TypedEdit)
    BY <1>1, <1>2, CompensatingEditsType
  <1> QED BY <1>1, <1>3, <1>4, <1>5 DEF ObjectStep

\* What stays the same on a branch that the step does not edit.
LEMMA UntouchedHistory ==
    ASSUME ReplayInvariant, HistoryIsRewound, HistoryIsRewound',
           NEW b \in Branch, head'[b] = head[b], rows'[b] = rows[b],
           head[b] # NoRevision =>
              groups'[head[b]] = groups[head[b]] /\ journal'[head[b]] = journal[head[b]]
    PROVE  UNCHANGED (ObjectHistory(b)!hvars)
  <1>1. IsOpen(b)' = IsOpen(b) /\ VisibleModel(rows[b])' = VisibleModel(rows[b])
    BY DEF IsOpen, VisibleModel
  <1>2. CASE head[b] = NoRevision
    <2>1. /\ ObjectPast(b) = <<>> /\ ObjectFuture(b) = <<>>
          /\ ObjectPast(b)' = <<>> /\ ObjectFuture(b)' = <<>>
      BY <1>2 DEF HistoryIsRewound
    <2> QED BY <1>1, <2>1 DEF ObjectHistory!hvars
  <1>3. CASE head[b] # NoRevision
    <2>1. PICK r \in Revision : head[b] = r
      BY <1>3 DEF ReplayInvariant, Bookkeeping, TypeOK
    <2>2. /\ TouchedIn(r)' = TouchedIn(r)
          /\ FoundBy(r)' = FoundBy(r)
          /\ LeftBy(r)' = LeftBy(r)
          /\ Compensable(r, FALSE)' = Compensable(r, FALSE)
          /\ Compensable(r, TRUE)' = Compensable(r, TRUE)
      BY <1>3, <2>1, SameRecordsSameStacks
    <2>3. PICK view, applied, undone, names, found, left :
             /\ view = VisibleModel(rows[b])
             /\ applied = Compensable(r, FALSE) /\ undone = Compensable(r, TRUE)
             /\ names = TouchedIn(r) /\ found = FoundBy(r) /\ left = LeftBy(r)
      OBVIOUS
    <2>4. /\ ObjectPast(b) = Rewinds(view, applied, names, found)
          /\ ObjectFuture(b) = Rewinds(view, undone, names, left)
      BY <2>1, <2>3 DEF HistoryIsRewound
    <2>5. /\ ObjectPast(b)' = Rewinds(view, applied, names, found)
          /\ ObjectFuture(b)' = Rewinds(view, undone, names, left)
      BY <1>1, <2>1, <2>2, <2>3 DEF HistoryIsRewound
    <2> QED BY <1>1, <2>4, <2>5 DEF ObjectHistory!hvars
  <1> QED BY <1>2, <1>3

\* A new head has nothing to undo or redo: the branch is opened, or its working
\* revision was sealed and its rows kept.
LEMMA NewHeadOpensOrSeals ==
    ASSUME ReplayInvariant, TypeOK', HistoryIsRewound, HistoryIsRewound',
           groups' = groups, NEW b \in Branch, NEW new \in Revision,
           state[new] = "unused", head'[b] = new,
           head[b] = NoRevision \/ rows'[b] = rows[b]
    PROVE  ObjectHistory(b)!HNext
  <1>1. groups'[new] = <<>> /\ IsOpen(b)'
    BY NullsAreNotValues DEF ReplayInvariant, Bookkeeping,
                             UnusedRevisionsAreBlank, IsOpen
  <1>2. ObjectPast(b)' = <<>> /\ ObjectFuture(b)' = <<>>
    <2>1. Compensable(new, FALSE)' = <<>> /\ Compensable(new, TRUE)' = <<>>
      BY <1>1, StacksEmpty DEF Compensable, NoStacks
    <2>2. PICK view, names, found, left :
             /\ view = VisibleModel(rows[b])' /\ names = TouchedIn(new)'
             /\ found = FoundBy(new)' /\ left = LeftBy(new)'
      OBVIOUS
    <2>3. /\ ObjectPast(b)' = Rewinds(view, <<>>, names, found)
          /\ ObjectFuture(b)' = Rewinds(view, <<>>, names, left)
      BY <2>1, <2>2 DEF HistoryIsRewound
    <2> QED BY <2>3, RewindsNothing
  <1>3. CASE head[b] = NoRevision
    <2>1. ~IsOpen(b) /\ ObjectPast(b) = <<>> /\ ObjectFuture(b) = <<>>
      BY <1>3 DEF HistoryIsRewound, IsOpen
    <2>2. PICK next : next = VisibleModel(rows[b])'
      OBVIOUS
    <2>3. next \in EditorView
      <3>1. rows'[b] \in Model
        BY DEF TypeOK
      <3> QED BY <2>2, <3>1, ViewType DEF VisibleModel
    <2>4. ObjectHistory(b)!Open
      BY <1>1, <1>2, <2>1, <2>2, <2>3 DEF ObjectHistory!Open, EditorView
    <2> QED BY <2>4 DEF ObjectHistory!HNext
  <1>4. CASE head[b] # NoRevision
    <2>1. IsOpen(b) /\ VisibleModel(rows[b])' = VisibleModel(rows[b])
      BY <1>4 DEF IsOpen, VisibleModel
    <2>2. ObjectHistory(b)!Seal
      BY <1>1, <1>2, <2>1 DEF ObjectHistory!Seal
    <2> QED BY <2>2 DEF ObjectHistory!HNext
  <1> QED BY <1>3, <1>4

\* The branches that a step of another one leaves alone.
LEMMA OtherBranches ==
    ASSUME ReplayInvariant, HistoryIsRewound, HistoryIsRewound',
           NEW b \in Branch, NEW c \in Branch, c # b,
           head'[c] = head[c], rows'[c] = rows[c],
           \A s \in Revision : s # head[b] =>
              groups'[s] = groups[s] /\ journal'[s] = journal[s]
    PROVE  UNCHANGED (ObjectHistory(c)!hvars)
  <1>1. head[c] # NoRevision => head[c] \in Revision /\ head[c] # head[b]
    BY HeadsAreApart DEF ReplayInvariant, Lineage, Bookkeeping, TypeOK
  <1>2. head[c] # NoRevision =>
           groups'[head[c]] = groups[head[c]] /\ journal'[head[c]] = journal[head[c]]
    BY <1>1
  <1> QED BY <1>2, UntouchedHistory

ObjectHistorySteps ==
    \A b \in Branch : [ObjectHistory(b)!HNext]_(ObjectHistory(b)!hvars)

\* A step whose effect is confined to branch b.
LEMMA StepOfOneBranch ==
    ASSUME ReplayInvariant, HistoryIsRewound, HistoryIsRewound',
           NEW b \in Branch, ObjectHistory(b)!HNext,
           \A c \in Branch : c # b => head'[c] = head[c] /\ rows'[c] = rows[c],
           \A s \in Revision : s # head[b] =>
              groups'[s] = groups[s] /\ journal'[s] = journal[s]
    PROVE  ObjectHistorySteps
  <1> SUFFICES ASSUME NEW c \in Branch
               PROVE  [ObjectHistory(c)!HNext]_(ObjectHistory(c)!hvars)
    BY DEF ObjectHistorySteps
  <1>1. CASE c = b
    BY <1>1
  <1>2. CASE c # b
    BY <1>2, OtherBranches
  <1> QED BY <1>1, <1>2

LEMMA ObjectStepOfOneBranch ==
    ASSUME ReplayInvariant, HistoryIsRewound, HistoryIsRewound',
           NEW b \in Branch, ObjectHistory(b)!HNext, ObjectStep(b)
    PROVE  ObjectHistorySteps
  <1>1. /\ \A c \in Branch : c # b => head'[c] = head[c] /\ rows'[c] = rows[c]
        /\ \A s \in Revision : s # head[b] =>
              groups'[s] = groups[s] /\ journal'[s] = journal[s]
    BY ObjectStepFrame
  <1> QED BY <1>1, StepOfOneBranch

LEMMA EveryStepIsAHistoryStep ==
    ASSUME ReplayInvariant, UndoInvariant, HistoryIsRewound,
           ReplayInvariant', HistoryIsRewound', [Next]_tables
    PROVE  ObjectHistorySteps
  <1>0. TypeOK' /\ HeadsAreWorking
    BY DEF ReplayInvariant, Bookkeeping, Lineage
  <1>1. ASSUME UNCHANGED <<head, rows, journal, groups>>
        PROVE  ObjectHistorySteps
    BY <1>1, UntouchedHistory DEF ObjectHistorySteps
  <1>2. ASSUME NEW b \in Branch, NEW r \in Revision, state[r] = "unused",
               head' = [head EXCEPT ![b] = r],
               head[b] = NoRevision \/ rows'[b] = rows[b],
               \A c \in Branch : c # b => rows'[c] = rows[c],
               UNCHANGED <<journal, groups>>
        PROVE  ObjectHistorySteps
    <2>1. head'[b] = r /\ \A c \in Branch : c # b => head'[c] = head[c]
      BY <1>2 DEF ReplayInvariant, Bookkeeping, TypeOK
    <2>2. ObjectHistory(b)!HNext
      BY <1>0, <1>2, <2>1, NewHeadOpensOrSeals
    <2> QED BY <1>2, <2>1, <2>2, StepOfOneBranch
  <1>3. ASSUME NEW b \in Branch, NEW r \in Revision, CreateProject(b, r)
        PROVE  ObjectHistorySteps
    BY <1>2, <1>3 DEF CreateProject
  <1>4. ASSUME NEW b \in Branch, NEW r \in Revision, NEW base \in Revision,
               CreateBranch(b, r, base)
        PROVE  ObjectHistorySteps
    <2>1. \A c \in Branch : c # b => rows'[c] = rows[c]
      BY <1>4 DEF CreateBranch, ReplayInvariant, Bookkeeping, TypeOK
    <2> QED BY <1>2, <1>4, <2>1 DEF CreateBranch
  <1>5. ASSUME NEW b \in Branch, NEW new \in Revision, NEW expected,
               Finalize(b, new, expected)
        PROVE  ObjectHistorySteps
    BY <1>2, <1>5 DEF Finalize, SealAndAdvance
  <1>6. ASSUME NEW b \in Branch, NEW edits \in Seq(TypedEdit),
               DistinctObjects(edits), HasWorkingHead(b),
               ApplyEdits(b, edits, "edit", 0)
        PROVE  ObjectHistorySteps
    <2>1. ObjectStep(b)
      BY <1>6 DEF ObjectStep
    <2>2. ObjectHistory(b)!HNext
      BY <1>0, <1>6, EditIsAChange
    <2> QED BY <2>1, <2>2, ObjectStepOfOneBranch
  <1>7. ASSUME NEW b \in Branch, NEW edit \in Edit, ModifyObject(b, edit)
        PROVE  ObjectHistorySteps
    <2>1. <<edit>> \in Seq(TypedEdit) /\ DistinctObjects(<<edit>>)
      BY EditsAreTyped DEF DistinctObjects
    <2> QED BY <1>6, <1>7, <2>1 DEF ModifyObject
  <1>8. ASSUME NEW b \in Branch, NEW expected, NEW edits \in EditGroups,
               CommitObjectGroup(b, expected, edits)
        PROVE  ObjectHistorySteps
    <2>1. edits \in Seq(TypedEdit) /\ DistinctObjects(edits)
      BY EditsAreTyped DEF EditGroups
    <2> QED BY <1>6, <1>8, <2>1 DEF CommitObjectGroup
  <1>9. ASSUME NEW b \in Branch, NEW expected, NEW redo \in BOOLEAN,
               CompensateObjectGroup(b, expected, redo)
        PROVE  ObjectHistorySteps
    <2>1. ObjectStep(b)
      BY <1>9, CompensationIsObjectStep DEF ReplayInvariant
    <2>2. ObjectHistory(b)!HNext
      BY <1>9, CompensationIsUndoOrRedo
    <2> QED BY <2>1, <2>2, ObjectStepOfOneBranch
  <1>10. ASSUME NEW b \in Branch, NEW expected
         PROVE  /\ \A bytes \in Bytes :
                      ReplaceWorkingSnapshot(b, expected, bytes) => ObjectHistorySteps
                /\ UndoLastChange(b, expected) => ObjectHistorySteps
                /\ RedoLastChange(b, expected) => ObjectHistorySteps
    BY <1>1 DEF ReplaceWorkingSnapshot, UndoLastChange, RedoLastChange,
                ApplySnapshotOperation
  <1>11. CASE UNCHANGED tables
    BY <1>1, <1>11 DEF tables
  <1> QED
    BY <1>3, <1>4, <1>5, <1>7, <1>8, <1>9, <1>10, <1>11 DEF Next

LEMMA InitialHistories == Init => \A b \in Branch : ObjectHistory(b)!HInit
  <1> SUFFICES ASSUME Init, NEW b \in Branch
               PROVE  ObjectHistory(b)!HInit
    OBVIOUS
  <1>1. head[b] = NoRevision /\ rows[b] = EmptyModel
    BY DEF Init
  <1>2. ~IsOpen(b) /\ ObjectPast(b) = <<>> /\ ObjectFuture(b) = <<>>
    BY <1>1 DEF IsOpen, ObjectPast, ObjectFuture
  <1>3. VisibleModel(rows[b]) \in EditorView
    BY <1>1, EmptyModelType, ViewType
  <1> QED BY <1>2, <1>3 DEF ObjectHistory!HInit, EditorView

\* Grouped undo and redo of object edits behave as a linear edit history on
\* every branch, for any number of branches, objects and edits: an undo shows
\* exactly the model before the latest edit in effect, a redo the one undone
\* (compensateObjectGroup, modifyObjectInTransaction, finalize, createBranch).
THEOREM ObjectEditsRefineEditHistory == Spec => ObjectEditsAreAHistory
  <1>1. Init => \A b \in Branch : ObjectHistory(b)!HInit
    BY InitialHistories
  <1>2. ReplayInvariant /\ UndoInvariant => HistoryIsRewound
    BY MappingIsRewound
  <1>3. /\ ReplayInvariant /\ UndoInvariant /\ HistoryIsRewound
        /\ ReplayInvariant' /\ HistoryIsRewound' /\ [Next]_tables
        => ObjectHistorySteps
    BY EveryStepIsAHistoryStep
  <1>4. Spec => [](ReplayInvariant /\ UndoInvariant)
    BY UndoInvariantIsInvariant
  <1>5. Spec => [][ObjectHistorySteps]_tables
    BY <1>2, <1>3, <1>4, PTL DEF Spec
  <1> QED BY <1>1, <1>5, PTL DEF Spec, ObjectEditsAreAHistory, ObjectHistorySteps

=============================================================================
