----------------------- MODULE WriteTransactionProofs -----------------------
(***************************************************************************)
(* The write transactions of WriteTransactions implement AtomicStore for   *)
(* any number of callers and revisions, and their answers are true.        *)
(*                                                                         *)
(* The argument: one caller at a time is between beginWrite and commit, or *)
(* has left its transaction to the database; what that transaction sees is *)
(* the committed state with the statements executed so far, and what the   *)
(* caller expected is still so, for nobody else may commit.                *)
(***************************************************************************)
EXTENDS WriteTransactions, TLAPS

Revisions == 1 .. MaxRevisions

State == {"none", "working", "sealing", "finalized"}

StoredEvent == [revision : Revisions, sequence : Nat, editor : Editor]

Tables ==
    [state      : [Revisions -> State],
     root       : [Revisions -> Nat \cup {NoRoot}],
     parent     : [Revisions -> Revisions \cup {NoRevision}],
     generation : [Revisions -> Nat],
     head       : Revisions,
     version    : Nat,
     events     : Seq(StoredEvent),
     grouped    : Nat]

\* The committed tables: the head is the working revision, those before it are
\* finalized, every version has its event and every event is in a group.
TablesOK(t) ==
    /\ t \in Tables
    /\ \A r \in Revisions :
          t.state[r] = IF r < t.head THEN "finalized"
                       ELSE IF r = t.head THEN "working" ELSE "none"
    /\ t.grouped = Len(t.events)
    /\ t.version = Len(t.events)

\* The tables after the first statements of a transaction.
Done1(c, t) == Execute(Statements(c)[1], t, c)
Done2(c, t) == Execute(Statements(c)[2], Done1(c, t), c)
Done3(c, t) == Execute(Statements(c)[3], Done2(c, t), c)
Done4(c, t) == Execute(Statements(c)[4], Done3(c, t), c)
Done5(c, t) == Execute(Statements(c)[5], Done4(c, t), c)
Done6(c, t) == Execute(Statements(c)[6], Done5(c, t), c)

After(c, t, k, seen) ==
    /\ k = 0 => seen = t
    /\ k = 1 => seen = Done1(c, t)
    /\ k = 2 => seen = Done2(c, t)
    /\ k = 3 => seen = Done3(c, t)
    /\ k = 4 => seen = Done4(c, t)
    /\ k = 5 => seen = Done5(c, t)
    /\ k = 6 => seen = Done6(c, t)

-----------------------------------------------------------------------------
(* What the statements do.                                                 *)

\* The statements of an edit are allowed one after the other and make an Edited.
LEMMA EditStatements ==
    ASSUME NEW t, TablesOK(t), NEW c \in Editor
    PROVE  /\ Len(Statements(c)) = 4
           /\ Allowed(Statements(c)[1], t)
           /\ Allowed(Statements(c)[2], Done1(c, t))
           /\ Allowed(Statements(c)[3], Done2(c, t))
           /\ Allowed(Statements(c)[4], Done3(c, t))
           /\ Done4(c, t) = Store!Edited(t, c)
<1>1. /\ Len(Statements(c)) = 4
      /\ Statements(c)[1] = "row" /\ Statements(c)[2] = "generation"
      /\ Statements(c)[3] = "event" /\ Statements(c)[4] = "group"
  BY DEF Statements
<1>2. /\ t \in Tables
      /\ t.head \in Revisions /\ t.state \in [Revisions -> State]
      /\ t.generation \in [Revisions -> Nat] /\ t.version \in Nat
      /\ t.events \in Seq(StoredEvent) /\ t.grouped = Len(t.events)
      /\ t.state[t.head] = "working"
  BY DEF TablesOK, Tables, Revisions
<1> DEFINE t1 == [t EXCEPT !.version = @ + 1]
           t2 == [t1 EXCEPT !.generation[t1.head] = @ + 1]
           e == [revision |-> t2.head, sequence |-> t2.generation[t2.head], editor |-> c]
           t3 == [t2 EXCEPT !.events = Append(@, e)]
           t4 == [t3 EXCEPT !.grouped = @ + 1]
<1>3. Done1(c, t) = t1
  BY <1>1 DEF Done1, Execute
<1>4. Done2(c, t) = t2
  BY <1>1, <1>3 DEF Done2, Execute
<1>5. Done3(c, t) = t3
  BY <1>1, <1>4 DEF Done3, Execute
<1>6. Done4(c, t) = t4
  BY <1>1, <1>5 DEF Done4, Execute
<1>7. t1 \in Tables /\ t1.state = t.state /\ t1.head = t.head
      /\ t1.generation = t.generation /\ t1.events = t.events /\ t1.grouped = t.grouped
  <2>1. t.version + 1 \in Nat
    BY <1>2
  <2> QED BY <1>2, <2>1 DEF Tables
<1>8. t2 \in Tables /\ t2.state = t.state /\ t2.head = t.head
      /\ t2.generation[t.head] = t.generation[t.head] + 1
      /\ t2.events = t.events /\ t2.grouped = t.grouped
  <2>1. [t1.generation EXCEPT ![t1.head] = @ + 1] \in [Revisions -> Nat]
    BY <1>2, <1>7
  <2>2. t2 = [t1 EXCEPT !.generation = [t1.generation EXCEPT ![t1.head] = @ + 1]]
    OBVIOUS
  <2>3. t2.generation = [t1.generation EXCEPT ![t1.head] = @ + 1]
    BY <1>7, <2>2 DEF Tables
  <2> HIDE DEF t1
  <2>4. t2 \in Tables
    BY <1>7, <2>1, <2>2 DEF Tables
  <2>5. t2.state = t.state /\ t2.head = t.head /\ t2.events = t.events /\ t2.grouped = t.grouped
    BY <1>7, <2>2 DEF Tables
  <2>6. t2.generation[t.head] = t.generation[t.head] + 1
    BY <1>2, <1>7, <2>3
  <2> QED BY <2>4, <2>5, <2>6
<1>9. e \in StoredEvent /\ e.sequence = t2.generation[t.head]
  BY <1>2, <1>8 DEF StoredEvent
<1>10. t3.state = t.state /\ t3.head = t.head /\ t3.generation = t2.generation
       /\ t3.events = Append(t.events, e) /\ t3.grouped = t.grouped
  BY <1>8 DEF Tables
<1>11. t3.events[Len(t3.events)] = e /\ Len(t3.events) = Len(t.events) + 1
  BY <1>2, <1>9, <1>10
<1>12. Allowed("row", t)
  BY <1>2 DEF Allowed
<1>13. Allowed("generation", t1)
  BY <1>2, <1>7 DEF Allowed
<1>14. Allowed("event", t2)
  BY <1>2, <1>8 DEF Allowed
<1>15. Allowed("group", t3)
  <2>1. Len(t3.events) > t3.grouped
    BY <1>2, <1>10, <1>11
  <2>2. t3.events[Len(t3.events)].sequence = t3.generation[t3.head]
    BY <1>9, <1>10, <1>11
  <2> HIDE DEF t3
  <2>3. t3.state[t3.head] = "working"
    BY <1>2, <1>10
  <2> QED BY <2>1, <2>2, <2>3 DEF Allowed
<1>16. t4 = Store!Edited(t, c)
  BY <1>2, <1>7, <1>8 DEF Store!Edited, Tables
<1> QED
  BY <1>1, <1>3, <1>4, <1>5, <1>6, <1>12, <1>13, <1>14, <1>15, <1>16

\* The statements of a finalization are allowed one after the other and make a
\* Finalized.
LEMMA FinalizeStatements ==
    ASSUME NEW t, TablesOK(t), t.head < MaxRevisions, NEW c \in Finalizer
    PROVE  /\ Len(Statements(c)) = 6
           /\ Allowed(Statements(c)[1], t)
           /\ Allowed(Statements(c)[2], Done1(c, t))
           /\ Allowed(Statements(c)[3], Done2(c, t))
           /\ Allowed(Statements(c)[4], Done3(c, t))
           /\ Allowed(Statements(c)[5], Done4(c, t))
           /\ Allowed(Statements(c)[6], Done5(c, t))
           /\ Done6(c, t) = Store!Finalized(t)
<1>1. /\ Len(Statements(c)) = 6
      /\ Statements(c)[1] = "snapshot" /\ Statements(c)[2] = "sealing"
      /\ Statements(c)[3] = "successor" /\ Statements(c)[4] = "finalized"
      /\ Statements(c)[5] = "parent" /\ Statements(c)[6] = "head"
  BY CallersAssumption DEF Statements
<1> DEFINE h == t.head
<1>2. /\ h \in Revisions /\ h + 1 \in Revisions /\ h # h + 1
      /\ t \in Tables
      /\ t.state \in [Revisions -> State]
      /\ t.root \in [Revisions -> Nat \cup {NoRoot}]
      /\ t.parent \in [Revisions -> Revisions \cup {NoRevision}]
      /\ t.version \in Nat
      /\ \A r \in Revisions : t.state[r] = IF r < h THEN "finalized"
                                           ELSE IF r = h THEN "working" ELSE "none"
  <2>1. t \in Tables /\ h \in Revisions
    BY DEF TablesOK, Tables
  <2>2. h + 1 \in Revisions /\ h # h + 1
    BY <2>1, MaxRevisionsAssumption DEF Revisions
  <2> QED BY <2>1, <2>2 DEF TablesOK, Tables
<1>3. t.state[h] = "working" /\ t.state[h + 1] = "none"
      /\ \A r \in Revisions \ {h} : t.state[r] # "working"
  BY <1>2 DEF Revisions
<1> DEFINE root == [t.root EXCEPT ![h] = t.version]
           sealing == [t.state EXCEPT ![h] = "sealing"]
           successor == [sealing EXCEPT ![h + 1] = "working"]
           finalized == [successor EXCEPT ![h] = "finalized"]
           parent == [t.parent EXCEPT ![h + 1] = h]
           t1 == [t EXCEPT !.root = root]
           t2 == [t1 EXCEPT !.state = sealing]
           t3 == [t2 EXCEPT !.state = successor]
           t4 == [t3 EXCEPT !.state = finalized]
           t5 == [t4 EXCEPT !.parent = parent]
           t6 == [t5 EXCEPT !.head = h + 1]
<1>4. /\ root \in [Revisions -> Nat \cup {NoRoot}] /\ root[h] = t.version
      /\ sealing \in [Revisions -> State] /\ sealing[h] = "sealing"
      /\ sealing[h + 1] = "none" /\ \A r \in Revisions : sealing[r] # "working"
  BY <1>2, <1>3 DEF State
<1>5. /\ successor \in [Revisions -> State]
      /\ successor[h] = "sealing" /\ successor[h + 1] = "working"
  BY <1>2, <1>4 DEF State
<1>6. /\ finalized \in [Revisions -> State]
      /\ finalized[h] = "finalized" /\ finalized[h + 1] = "working"
      /\ finalized = [[t.state EXCEPT ![h] = "finalized"] EXCEPT ![h + 1] = "working"]
  BY <1>2, <1>3, <1>4, <1>5 DEF State
<1>7. parent \in [Revisions -> Revisions \cup {NoRevision}]
  BY <1>2
<1> HIDE DEF root, sealing, successor, finalized, parent
<1>8. /\ t1 \in Tables /\ t1.head = h /\ t1.state = t.state /\ t1.root = root
      /\ t1.parent = t.parent /\ t1.version = t.version
  BY <1>2, <1>4 DEF Tables
<1> HIDE DEF t1
<1>9. /\ t2 \in Tables /\ t2.head = h /\ t2.state = sealing /\ t2.root = root
      /\ t2.parent = t.parent
  BY <1>8, <1>4 DEF Tables
<1> HIDE DEF t2
<1>10. /\ t3 \in Tables /\ t3.head = h /\ t3.state = successor /\ t3.root = root
       /\ t3.parent = t.parent
  BY <1>9, <1>5 DEF Tables
<1> HIDE DEF t3
<1>11. /\ t4 \in Tables /\ t4.head = h /\ t4.state = finalized /\ t4.parent = t.parent
  BY <1>10, <1>6 DEF Tables
<1> HIDE DEF t4
<1>12. /\ t5 \in Tables /\ t5.head = h /\ t5.state = finalized
  BY <1>11, <1>7 DEF Tables
<1> HIDE DEF t5
<1>13. Done1(c, t) = t1
  <2>1. t1 = [t EXCEPT !.root[t.head] = t.version]
    BY DEF t1, root
  <2> QED BY <1>1, <2>1 DEF Done1, Execute
<1>14. Done2(c, t) = t2
  <2>1. t2 = [t1 EXCEPT !.state[t1.head] = "sealing"]
    BY <1>8 DEF t2, sealing
  <2> QED BY <1>1, <1>13, <2>1 DEF Done2, Execute
<1>15. Done3(c, t) = t3
  <2>1. t3 = [t2 EXCEPT !.state[t2.head + 1] = "working"]
    BY <1>9 DEF t3, successor
  <2> QED BY <1>1, <1>14, <2>1 DEF Done3, Execute
<1>16. Done4(c, t) = t4
  <2>1. t4 = [t3 EXCEPT !.state[t3.head] = "finalized"]
    BY <1>10 DEF t4, finalized
  <2> QED BY <1>1, <1>15, <2>1 DEF Done4, Execute
<1>17. Done5(c, t) = t5
  <2>1. t5 = [t4 EXCEPT !.parent[t4.head + 1] = t4.head]
    BY <1>11 DEF t5, parent
  <2> QED BY <1>1, <1>16, <2>1 DEF Done5, Execute
<1>18. Done6(c, t) = t6
  <2>1. t6 = [t5 EXCEPT !.head = t5.head + 1]
    BY <1>12
  <2> QED BY <1>1, <1>17, <2>1 DEF Done6, Execute
<1>19. Allowed("snapshot", t) /\ Allowed("sealing", t1)
  BY <1>3, <1>8 DEF Allowed
<1>20. Allowed("successor", t2)
  BY <1>4, <1>9 DEF Allowed
<1>21. Allowed("finalized", t3)
  BY <1>2, <1>4, <1>5, <1>10, CallersAssumption DEF Allowed
<1>22. Allowed("parent", t4) /\ Allowed("head", t5)
  BY <1>6, <1>11, <1>12 DEF Allowed
<1>23. t6 = Store!Finalized(t)
  <2>1. t4 = [t1 EXCEPT !.state = finalized]
    BY <1>8, <1>9, <1>10 DEF t2, t3, t4, Tables
  <2>2. t6 = [t EXCEPT !.root = root, !.state = finalized, !.parent = parent, !.head = h + 1]
    BY <2>1 DEF t1, t5
  <2> QED BY <1>6, <2>2 DEF Store!Finalized, root, parent
<1> QED
  BY <1>1, <1>13, <1>14, <1>15, <1>16, <1>17, <1>18, <1>19, <1>20, <1>21, <1>22, <1>23

\* An edit leaves the tables as TablesOK says.
LEMMA EditKeepsTables ==
    ASSUME NEW t, TablesOK(t), NEW c \in Editor
    PROVE  /\ TablesOK(Store!Edited(t, c))
           /\ Store!Edited(t, c).version = t.version + 1
           /\ \A d : Store!HasEdited(Store!Edited(t, c), d)
                        <=> d = c \/ Store!HasEdited(t, d)
           /\ Store!Edited(t, c).events[t.version + 1].editor = c
           /\ \A i \in 1 .. t.version : Store!Edited(t, c).events[i] = t.events[i]
<1> DEFINE e == [revision |-> t.head, sequence |-> t.generation[t.head] + 1, editor |-> c]
           generation == [t.generation EXCEPT ![t.head] = @ + 1]
           u == [t EXCEPT !.version = t.version + 1, !.generation = generation,
                          !.events = Append(t.events, e), !.grouped = t.grouped + 1]
<1>1. /\ t \in Tables /\ t.head \in Revisions /\ t.version \in Nat
      /\ t.generation \in [Revisions -> Nat]
      /\ t.events \in Seq(StoredEvent) /\ t.grouped = Len(t.events)
      /\ t.version = Len(t.events)
  BY DEF TablesOK, Tables
<1>2. e \in StoredEvent /\ generation \in [Revisions -> Nat] /\ e.editor = c
  BY <1>1 DEF StoredEvent
<1>3. Store!Edited(t, c) = u
  BY <1>1 DEF Store!Edited, Tables
<1> HIDE DEF e, generation
<1>4. /\ t.version + 1 \in Nat /\ t.grouped + 1 \in Nat
      /\ Append(t.events, e) \in Seq(StoredEvent)
      /\ Len(Append(t.events, e)) = t.grouped + 1
  BY <1>1, <1>2
<1> DEFINE events == Append(t.events, e)
<1> HIDE DEF events
<1>5. /\ u \in Tables /\ u.state = t.state /\ u.head = t.head /\ u.events = Append(t.events, e)
      /\ u.grouped = t.grouped + 1 /\ u.version = t.version + 1
  BY <1>1, <1>2, <1>4 DEF Tables
<1> HIDE DEF u
<1>6. TablesOK(u)
  BY <1>1, <1>4, <1>5 DEF TablesOK
<1>7. ASSUME NEW d
      PROVE  Store!HasEdited(u, d) <=> d = c \/ Store!HasEdited(t, d)
  <2>1. /\ DOMAIN u.events = DOMAIN t.events \cup {Len(t.events) + 1}
        /\ u.events[Len(t.events) + 1] = e
        /\ \A i \in DOMAIN t.events : u.events[i] = t.events[i]
    BY <1>1, <1>2, <1>5
  <2> QED BY <2>1, <1>2 DEF Store!HasEdited
<1>8. /\ u.events[t.version + 1].editor = c
      /\ \A i \in 1 .. t.version : u.events[i] = t.events[i]
  BY <1>1, <1>2, <1>5
<1> QED
  BY <1>3, <1>5, <1>6, <1>7, <1>8

\* A finalization leaves the tables as TablesOK says.
LEMMA FinalizeKeepsTables ==
    ASSUME NEW t, TablesOK(t), t.head < MaxRevisions
    PROVE  /\ TablesOK(Store!Finalized(t))
           /\ Store!Finalized(t).version = t.version
           /\ Store!Finalized(t).events = t.events
<1> DEFINE h == t.head
           root == [t.root EXCEPT ![h] = t.version]
           state == [t.state EXCEPT ![h] = "finalized", ![h + 1] = "working"]
           parent == [t.parent EXCEPT ![h + 1] = h]
           u == [t EXCEPT !.root = root, !.state = state, !.parent = parent, !.head = h + 1]
<1>1. /\ t \in Tables /\ h \in Revisions /\ h + 1 \in Revisions
      /\ t.version \in Nat /\ t.root \in [Revisions -> Nat \cup {NoRoot}]
      /\ t.parent \in [Revisions -> Revisions \cup {NoRevision}]
      /\ t.state \in [Revisions -> State]
      /\ t.grouped = Len(t.events) /\ t.version = Len(t.events)
      /\ \A r \in Revisions : t.state[r] = IF r < h THEN "finalized"
                                           ELSE IF r = h THEN "working" ELSE "none"
  <2>1. t \in Tables /\ h \in Revisions
    BY DEF TablesOK, Tables
  <2>2. h + 1 \in Revisions /\ h # h + 1
    BY <2>1, MaxRevisionsAssumption DEF Revisions
  <2> QED BY <2>1, <2>2 DEF TablesOK, Tables
<1>2. root \in [Revisions -> Nat \cup {NoRoot}]
  BY <1>1
<1>3. parent \in [Revisions -> Revisions \cup {NoRevision}]
  BY <1>1
<1>4. state \in [Revisions -> State]
  BY <1>1 DEF State
<1>5. \A r \in Revisions : state[r] = IF r < h + 1 THEN "finalized"
                                      ELSE IF r = h + 1 THEN "working" ELSE "none"
  <2> SUFFICES ASSUME NEW r \in Revisions
               PROVE  state[r] = IF r < h + 1 THEN "finalized"
                                 ELSE IF r = h + 1 THEN "working" ELSE "none"
    OBVIOUS
  <2>1. h \in Nat /\ r \in Nat
    BY <1>1 DEF Revisions
  <2>2. state[r] = IF r = h + 1 THEN "working"
                   ELSE IF r = h THEN "finalized" ELSE t.state[r]
    BY <1>1, <2>1
  <2> HIDE DEF state, h
  <2> QED BY <1>1, <2>1, <2>2
<1>6. Store!Finalized(t) = u
  BY DEF Store!Finalized
<1> HIDE DEF root, state, parent
<1>7. /\ u \in Tables /\ u.state = state /\ u.head = h + 1
      /\ u.events = t.events /\ u.grouped = t.grouped /\ u.version = t.version
  BY <1>1, <1>2, <1>3, <1>4 DEF Tables
<1> HIDE DEF u
<1> QED
  BY <1>1, <1>5, <1>6, <1>7 DEF TablesOK

\* One more statement after the first k.
LEMMA AfterStatement ==
    ASSUME NEW c, NEW t, NEW k \in 0..5, NEW seen, After(c, t, k, seen)
    PROVE  After(c, t, k + 1, Execute(Statements(c)[k + 1], seen, c))
  <1>0. k = 0 \/ k = 1 \/ k = 2 \/ k = 3 \/ k = 4 \/ k = 5
    OBVIOUS
  <1>1. CASE k = 0
    BY <1>1 DEF After, Done1
  <1>2. CASE k = 1
    BY <1>2 DEF After, Done2
  <1>3. CASE k = 2
    BY <1>3 DEF After, Done3
  <1>4. CASE k = 3
    BY <1>4 DEF After, Done4
  <1>5. CASE k = 4
    BY <1>5 DEF After, Done5
  <1>6. CASE k = 5
    BY <1>6 DEF After, Done6
  <1> QED
    BY <1>0, <1>1, <1>2, <1>3, <1>4, <1>5, <1>6

-----------------------------------------------------------------------------
(* The inductive invariant.  What StoreIsAtomic needs is that the holder of *)
(* the lock sees the committed tables and its own statements, and that its  *)
(* check still holds when it commits, or when the database commits in its   *)
(* place; that no edit is made twice rests on the versions: an edit that    *)
(* took effect left a version above the one its caller expects, so a caller *)
(* that asks again is refused.                                              *)

CallsTyped ==
    /\ lock \in Caller \cup {NoLock}
    /\ session \in {"attended", "abandoned", "committing"}
    /\ lock = NoLock => session = "attended"
    /\ phase \in [Caller -> {"idle", "waiting", "checking", "writing", "committed"}]
    /\ step \in [Caller -> Nat]
    /\ request \in [Caller -> Nat \cup {NoRequest}]
    /\ answer \in [Caller -> {"none", "done", "failed", "refused"}]
    /\ past \in [Caller -> {"none", "failed", "lost"}]

\* A transaction that may be committed: all statements are executed, for a request
\* that still is what the committed tables say.
Complete(c) ==
    /\ request[c] \in Nat
    /\ AsExpected(c, tables)
    /\ After(c, tables, Len(Statements(c)), pending)

CallIsExclusive(c) ==
    /\ lock = c /\ session = "attended" <=> phase[c] \in {"checking", "writing"}
    /\ lock = c /\ session = "committing" =>
          /\ Complete(c)
          /\ c \in Editor => past[c] = "lost"
    /\ phase[c] = "committed" => lock # c
    /\ phase[c] = "checking" => pending = tables
    /\ phase[c] = "writing" =>
          /\ AsExpected(c, tables)
          /\ step[c] <= Len(Statements(c))
          /\ After(c, tables, step[c], pending)
    /\ phase[c] \notin {"writing", "committed"} => step[c] = 0
    /\ phase[c] # "idle" => request[c] \in Nat /\ answer[c] = "none"

\* What the last request of an editor has to do with its edit.
AskedOnce(c) ==
    /\ request[c] \in Nat => request[c] <= tables.version
    /\ request[c] \in Nat /\ answer[c] = "refused" => request[c] < tables.version
    /\ Store!HasEdited(tables, c) =>
          IF request[c] = NoRequest
          THEN answer[c] = "done"
          ELSE /\ request[c] < tables.version
               /\ tables.events[request[c] + 1].editor = c
               /\ past[c] = "lost" \/ phase[c] = "committed"
    /\ phase[c] = "committed" \/ answer[c] = "done" => Store!HasEdited(tables, c)

CallsOK ==
    /\ TablesOK(tables)
    /\ CallsTyped
    /\ \A c \in Caller : CallIsExclusive(c)
    /\ \A c \in Editor : AskedOnce(c)

\* A transaction stays complete while nothing it rests on changes.
LEMMA CompleteStays ==
    ASSUME NEW c, Complete(c), tables' = tables, pending' = pending,
           request'[c] = request[c]
    PROVE  Complete(c)'
  BY DEF Complete, AsExpected

\* A step that leaves the tables and what a caller does alone, and lets it see
\* what it saw, leaves that caller's part of the invariant.
LEMMA OtherCallers ==
    ASSUME NEW d \in Caller, CallIsExclusive(d),
           tables' = tables, (lock' = d) <=> (lock = d),
           lock = d => pending' = pending /\ session' = session,
           phase'[d] = phase[d], step'[d] = step[d], request'[d] = request[d],
           answer'[d] = answer[d], past'[d] = past[d]
    PROVE  /\ CallIsExclusive(d)'
           /\ AskedOnce(d) => AskedOnce(d)'
  <1>1. AskedOnce(d) => AskedOnce(d)'
    BY DEF AskedOnce
  <1>2. AsExpected(d, tables) => AsExpected(d, tables)'
    BY DEF AsExpected
  <1>3. Complete(d) /\ lock = d => Complete(d)'
    BY CompleteStays
  <1> QED
    BY <1>1, <1>2, <1>3 DEF CallIsExclusive

LEMMA StatementCount ==
    ASSUME NEW c \in Caller
    PROVE  Len(Statements(c)) \in {4, 6}
  BY DEF Statements

\* The statement that comes next is allowed on what its caller sees.
LEMMA NextStatementAllowed ==
    ASSUME CallsOK, NEW c \in Caller, phase[c] = "writing",
           step[c] < Len(Statements(c))
    PROVE  Allowed(Statements(c)[step[c] + 1], pending)
  <1> DEFINE k == step[c]
  <1>1. k \in Nat /\ AsExpected(c, tables) /\ After(c, tables, k, pending) /\ TablesOK(tables)
    BY DEF CallsOK, CallsTyped, CallIsExclusive
  <1> HIDE DEF k
  <1>2. CASE c \in Editor
    <2>1. Len(Statements(c)) = 4
      BY <1>1, <1>2, EditStatements
    <2>2. k = 0 \/ k = 1 \/ k = 2 \/ k = 3
      BY <1>1, <2>1 DEF k
    <2>3. /\ Allowed(Statements(c)[1], tables)
          /\ Allowed(Statements(c)[2], Done1(c, tables))
          /\ Allowed(Statements(c)[3], Done2(c, tables))
          /\ Allowed(Statements(c)[4], Done3(c, tables))
      BY <1>1, <1>2, EditStatements
    <2>4. Allowed(Statements(c)[k + 1], pending)
      BY <1>1, <2>2, <2>3 DEF After
    <2> QED BY <2>4 DEF k
  <1>3. CASE c \in Finalizer
    <2>0. tables.head < MaxRevisions
      BY <1>1, <1>3, CallersAssumption DEF AsExpected
    <2>1. Len(Statements(c)) = 6
      BY <1>1, <1>3, <2>0, FinalizeStatements
    <2>2. k = 0 \/ k = 1 \/ k = 2 \/ k = 3 \/ k = 4 \/ k = 5
      BY <1>1, <2>1 DEF k
    <2>3. /\ Allowed(Statements(c)[1], tables)
          /\ Allowed(Statements(c)[2], Done1(c, tables))
          /\ Allowed(Statements(c)[3], Done2(c, tables))
          /\ Allowed(Statements(c)[4], Done3(c, tables))
          /\ Allowed(Statements(c)[5], Done4(c, tables))
          /\ Allowed(Statements(c)[6], Done5(c, tables))
      BY <1>1, <1>3, <2>0, FinalizeStatements
    <2>4. Allowed(Statements(c)[k + 1], pending)
      BY <1>1, <2>2, <2>3 DEF After
    <2> QED BY <2>4 DEF k
  <1> QED
    BY <1>2, <1>3 DEF Caller

\* What is published with a complete transaction: a whole edit of a caller that has
\* none yet, or a whole finalization.
LEMMA CompletePublishes ==
    ASSUME CallsOK, NEW c \in Caller, Complete(c), tables' = pending
    PROVE  /\ TablesOK(tables')
           /\ c \in Editor => /\ tables' = Store!Edited(tables, c)
                              /\ ~Store!HasEdited(tables, c)
                              /\ request[c] = tables.version
           /\ c \in Finalizer => /\ tables' = Store!Finalized(tables)
                                 /\ tables.head < MaxRevisions
  <1>1. /\ AsExpected(c, tables) /\ After(c, tables, Len(Statements(c)), pending)
        /\ request[c] \in Nat /\ TablesOK(tables)
    BY DEF CallsOK, Complete
  <1>2. CASE c \in Editor
    <2>1. tables' = Store!Edited(tables, c)
      BY <1>1, <1>2, EditStatements DEF After
    <2>2. request[c] = tables.version
      BY <1>1, <1>2 DEF AsExpected
    <2>3. AskedOnce(c)
      BY <1>2 DEF CallsOK
    <2>4. ~Store!HasEdited(tables, c)
      <3>1. tables.version \in Nat
        BY <1>1 DEF TablesOK, Tables
      <3> QED BY <1>1, <2>2, <2>3, <3>1, CallersAssumption DEF AskedOnce
    <2> QED BY <1>1, <1>2, <2>1, <2>2, <2>4, EditKeepsTables, CallersAssumption
  <1>3. CASE c \in Finalizer
    <2>1. tables.head < MaxRevisions
      BY <1>1, <1>3, CallersAssumption DEF AsExpected
    <2>2. tables' = Store!Finalized(tables)
      BY <1>1, <1>3, <2>1, FinalizeStatements DEF After
    <2> QED BY <1>1, <1>3, <2>1, <2>2, FinalizeKeepsTables, CallersAssumption
  <1> QED
    BY <1>2, <1>3 DEF Caller

\* What the editors' part of the invariant is after such a publication: an edit is
\* its caller's at the version it expected, and the others' edits are as they were.
LEMMA CompleteIsSettled ==
    ASSUME CallsOK, NEW c \in Caller, Complete(c), tables' = pending,
           NEW d \in Editor, request'[d] = request[d], answer'[d] = answer[d],
           past'[d] = past[d],
           IF d = c THEN past[d] = "lost" \/ phase'[d] = "committed"
           ELSE phase'[d] = phase[d]
    PROVE  AskedOnce(d)'
  <1>1. /\ AskedOnce(d) /\ d \in Caller /\ request[d] \in Nat \cup {NoRequest}
        /\ TablesOK(tables) /\ tables.version \in Nat
    BY DEF CallsOK, CallsTyped, Caller, TablesOK, Tables
  <1>2. CASE c \in Editor
    <2>1. /\ tables'.version = tables.version + 1
          /\ Store!HasEdited(tables', d) <=> d = c \/ Store!HasEdited(tables, d)
          /\ tables'.events[tables.version + 1].editor = c
          /\ \A i \in 1 .. tables.version : tables'.events[i] = tables.events[i]
          /\ request[c] = tables.version
      BY <1>1, <1>2, CompletePublishes, EditKeepsTables
    <2>2. CASE d = c
      BY <1>1, <2>1, <2>2, CallersAssumption DEF AskedOnce
    <2>3. CASE d # c
      <3>1. ASSUME request[d] \in Nat, request[d] < tables.version
            PROVE  tables'.events[request[d] + 1] = tables.events[request[d] + 1]
        <4>1. request[d] + 1 \in 1 .. tables.version
          BY <1>1, <3>1
        <4> QED BY <2>1, <4>1
      <3>2. Store!HasEdited(tables', d) <=> Store!HasEdited(tables, d)
        BY <2>1, <2>3
      <3>3. request'[d] \in Nat => request'[d] <= tables'.version
        BY <1>1, <2>1 DEF AskedOnce
      <3>4. request'[d] \in Nat /\ answer'[d] = "refused" => request'[d] < tables'.version
        BY <1>1, <2>1 DEF AskedOnce
      <3>5. ASSUME Store!HasEdited(tables, d), request[d] # NoRequest
            PROVE  /\ request[d] < tables'.version
                   /\ tables'.events[request[d] + 1].editor = d
                   /\ past[d] = "lost" \/ phase[d] = "committed"
        BY <1>1, <2>1, <3>1, <3>5 DEF AskedOnce
      <3> QED BY <1>1, <2>3, <3>2, <3>3, <3>4, <3>5 DEF AskedOnce
    <2> QED BY <2>2, <2>3
  <1>3. CASE c \in Finalizer
    <2>1. tables'.version = tables.version /\ tables'.events = tables.events
      BY <1>1, <1>3, CompletePublishes, FinalizeKeepsTables
    <2>2. Store!HasEdited(tables', d) <=> Store!HasEdited(tables, d)
      BY <2>1 DEF Store!HasEdited
    <2>3. d # c
      BY <1>3, CallersAssumption
    <2> QED BY <1>1, <2>1, <2>2, <2>3 DEF AskedOnce
  <1> QED
    BY <1>2, <1>3 DEF Caller

-----------------------------------------------------------------------------
(* The invariant holds initially and every step preserves it.              *)

LEMMA InitCallsOK == Init => CallsOK
  <1> SUFFICES ASSUME Init PROVE CallsOK
    OBVIOUS
  <1> DEFINE state == [r \in Revisions |-> IF r = 1 THEN "working" ELSE "none"]
             root == [r \in Revisions |-> NoRoot]
             parent == [r \in Revisions |-> NoRevision]
             generation == [r \in Revisions |-> 0]
  <1>1. tables = [state |-> state, root |-> root, parent |-> parent,
                  generation |-> generation, head |-> 1, version |-> 0,
                  events |-> <<>>, grouped |-> 0]
    BY DEF Init, Store!Empty, Store!Revisions, Revisions
  <1>2. /\ state \in [Revisions -> State] /\ root \in [Revisions -> Nat \cup {NoRoot}]
        /\ parent \in [Revisions -> Revisions \cup {NoRevision}]
        /\ generation \in [Revisions -> Nat] /\ 1 \in Revisions
    BY MaxRevisionsAssumption DEF State, Revisions
  <1>3. \A r \in Revisions : state[r] = IF r < 1 THEN "finalized"
                                        ELSE IF r = 1 THEN "working" ELSE "none"
    BY DEF Revisions
  <1> HIDE DEF state, root, parent, generation
  <1>4. /\ tables \in Tables /\ tables.state = state /\ tables.head = 1
        /\ tables.events = <<>> /\ tables.grouped = 0 /\ tables.version = 0
    BY <1>1, <1>2 DEF Tables
  <1>5. TablesOK(tables)
    BY <1>3, <1>4 DEF TablesOK
  <1>6. CallsTyped
    BY DEF Init, CallsTyped
  <1>7. \A c \in Caller : CallIsExclusive(c)
    BY CallersAssumption DEF Init, CallIsExclusive
  <1>8. \A c \in Editor : AskedOnce(c)
    BY <1>4, CallersAssumption DEF Init, AskedOnce, Store!HasEdited, Caller
  <1> QED
    BY <1>5, <1>6, <1>7, <1>8 DEF CallsOK

\* A step of one caller that commits nothing and writes nothing that others see
\* preserves the invariant if it preserves that caller's part.
LEMMA OneCallerSteps ==
    ASSUME CallsOK, NEW c \in Caller, tables' = tables, CallsTyped',
           \A d \in Caller \ {c} :
               /\ (lock' = d) <=> (lock = d)
               /\ lock = d => pending' = pending /\ session' = session
               /\ phase'[d] = phase[d] /\ step'[d] = step[d]
               /\ request'[d] = request[d] /\ answer'[d] = answer[d]
               /\ past'[d] = past[d],
           CallIsExclusive(c)',
           c \in Editor => AskedOnce(c)'
    PROVE  CallsOK'
  <1>1. TablesOK(tables)'
    BY DEF CallsOK, TablesOK
  <1>2. ASSUME NEW d \in Caller, d # c
        PROVE  /\ CallIsExclusive(d)'
               /\ AskedOnce(d) => AskedOnce(d)'
    BY <1>2, OtherCallers DEF CallsOK
  <1>3. \A d \in Caller : CallIsExclusive(d)'
    BY <1>2
  <1>4. \A d \in Editor : AskedOnce(d)'
    BY <1>2 DEF CallsOK, Caller
  <1> QED
    BY <1>1, <1>3, <1>4 DEF CallsOK

LEMMA ReadHeadCallsOK ==
    ASSUME CallsOK, NEW c \in Caller, ReadHead(c)
    PROVE  CallsOK'
  <1>1. /\ tables.version \in Nat /\ tables.generation[tables.head] \in Nat
    BY DEF CallsOK, TablesOK, Tables
  <1>2. CallsTyped'
    BY <1>1 DEF ReadHead, CallsOK, CallsTyped
  <1>3. CallIsExclusive(c)'
    <2>1. CallIsExclusive(c) /\ ~Complete(c)
      BY CallersAssumption DEF ReadHead, CallsOK, Complete
    <2>2. /\ lock' = lock /\ session' = session /\ phase'[c] = "idle" /\ phase[c] = "idle"
          /\ step'[c] = step[c]
      BY DEF ReadHead, CallsOK, CallsTyped
    <2> QED BY <2>1, <2>2 DEF CallIsExclusive
  <1>4. ASSUME c \in Editor PROVE AskedOnce(c)'
    <2>1. ~Store!HasEdited(tables, c)
      BY <1>4 DEF ReadHead, CallsOK, AskedOnce
    <2>2. tables' = tables /\ request'[c] = tables.version /\ answer'[c] = "none"
          /\ phase'[c] = "idle"
      BY <1>4 DEF ReadHead, CallsOK, CallsTyped
    <2> QED BY <1>1, <2>1, <2>2 DEF AskedOnce
  <1> QED
    BY <1>2, <1>3, <1>4, OneCallerSteps DEF ReadHead, CallsOK, CallsTyped

LEMMA CallCallsOK ==
    ASSUME CallsOK, NEW c \in Caller, Call(c)
    PROVE  CallsOK'
  <1>1. CallsTyped'
    BY DEF Call, CallsOK, CallsTyped
  <1>2. CallIsExclusive(c)'
    <2>1. CallIsExclusive(c) /\ request[c] \in Nat
      BY DEF Call, CallsOK, CallsTyped
    <2>2. /\ lock' = lock /\ session' = session /\ phase'[c] = "waiting" /\ phase[c] = "idle"
          /\ step'[c] = step[c] /\ request'[c] = request[c] /\ past'[c] = past[c]
          /\ answer'[c] = "none" /\ tables' = tables /\ pending' = pending
      BY DEF Call, CallsOK, CallsTyped
    <2> QED BY <2>1, <2>2, CompleteStays DEF CallIsExclusive
  <1>3. ASSUME c \in Editor PROVE AskedOnce(c)'
    <2>1. AskedOnce(c) /\ request[c] \in Nat /\ request[c] # NoRequest
      BY <1>3 DEF Call, CallsOK, CallsTyped
    <2>2. /\ phase'[c] = "waiting" /\ phase[c] = "idle" /\ request'[c] = request[c]
          /\ past'[c] = past[c] /\ answer'[c] = "none" /\ tables' = tables
      BY DEF Call, CallsOK, CallsTyped
    <2> QED BY <2>1, <2>2 DEF AskedOnce
  <1> QED
    BY <1>1, <1>2, <1>3, OneCallerSteps DEF Call, CallsOK, CallsTyped

LEMMA BeginWriteCallsOK ==
    ASSUME CallsOK, NEW c \in Caller, BeginWrite(c)
    PROVE  CallsOK'
  <1>1. CallsTyped'
    BY DEF BeginWrite, CallsOK, CallsTyped
  <1>2. CallIsExclusive(c)'
    BY DEF BeginWrite, CallsOK, CallsTyped, CallIsExclusive
  <1>3. ASSUME c \in Editor PROVE AskedOnce(c)'
    <2>1. AskedOnce(c) /\ phase[c] = "waiting" /\ phase'[c] = "checking"
      BY <1>3 DEF BeginWrite, CallsOK, CallsTyped
    <2> QED BY <2>1 DEF BeginWrite, AskedOnce
  <1> QED
    BY <1>1, <1>2, <1>3, CallersAssumption, OneCallerSteps
       DEF BeginWrite, CallsOK, CallsTyped

LEMMA TimeOutCallsOK ==
    ASSUME CallsOK, NEW c \in Caller, TimeOut(c)
    PROVE  CallsOK'
  <1>1. CallsTyped'
    BY DEF TimeOut, Remember, CallsOK, CallsTyped
  <1>2. /\ CallIsExclusive(c) /\ request[c] \in Nat /\ phase[c] = "waiting"
        /\ phase'[c] = "idle" /\ answer'[c] = "failed"
        /\ tables' = tables /\ pending' = pending /\ lock' = lock /\ session' = session
        /\ step'[c] = step[c] /\ request'[c] = request[c]
        /\ past[c] = "lost" => past'[c] = "lost"
    BY DEF TimeOut, Remember, CallsOK, CallsTyped, CallIsExclusive
  <1>3. CallIsExclusive(c)'
    BY <1>2, CompleteStays DEF CallIsExclusive
  <1>4. ASSUME c \in Editor PROVE AskedOnce(c)'
    <2>1. AskedOnce(c) /\ request[c] # NoRequest
      BY <1>2, <1>4, CallersAssumption DEF CallsOK
    <2> QED BY <1>2, <2>1 DEF AskedOnce
  <1> QED
    BY <1>1, <1>3, <1>4, OneCallerSteps DEF TimeOut, Remember, CallsOK, CallsTyped

LEMMA CheckCallsOK ==
    ASSUME CallsOK, NEW c \in Caller, Check(c)
    PROVE  CallsOK'
  <1>1. CallsTyped'
    BY DEF Check, CallsOK, CallsTyped
  <1>2. CallIsExclusive(c)'
    <2>1. /\ pending = tables /\ lock = c /\ session = "attended" /\ step[c] = 0
          /\ request[c] \in Nat /\ answer[c] = "none"
      BY DEF Check, CallsOK, CallIsExclusive
    <2>2. /\ AsExpected(c, tables)' /\ phase'[c] = "writing"
          /\ tables' = tables /\ pending' = pending /\ lock' = lock /\ step' = step
          /\ session' = session /\ request' = request /\ answer' = answer
      BY <2>1 DEF Check, AsExpected, CallsOK, CallsTyped
    <2>3. After(c, tables, 0, pending)
      BY <2>1 DEF After
    <2> QED BY <2>1, <2>2, <2>3, StatementCount DEF CallIsExclusive
  <1>3. ASSUME c \in Editor PROVE AskedOnce(c)'
    <2>1. /\ AskedOnce(c) /\ phase[c] # "committed" /\ phase'[c] # "committed"
          /\ tables' = tables /\ request'[c] = request[c] /\ answer'[c] = answer[c]
          /\ past'[c] = past[c]
      BY <1>3 DEF Check, CallsOK, CallsTyped
    <2> QED BY <2>1 DEF AskedOnce
  <1> QED
    BY <1>1, <1>2, <1>3, OneCallerSteps DEF Check, CallsOK, CallsTyped

\* A rollback, for whatever reason, preserves what it does not answer.
LEMMA RollbackCallsOK ==
    ASSUME CallsOK, NEW c \in Caller, phase[c] \in {"checking", "writing"},
           NEW told \in {"failed", "refused"}, NEW kept \in {request[c], NoRequest},
           Rollback(c, told, kept),
           past' \in [Caller -> {"none", "failed", "lost"}],
           \A d \in Caller \ {c} : past'[d] = past[d],
           c \in Editor => AskedOnce(c)'
    PROVE  CallsOK'
  <1>1. lock = c /\ session = "attended" /\ c # NoLock
    BY CallersAssumption DEF CallsOK, CallIsExclusive
  <1>2. CallsTyped'
    BY <1>1 DEF Rollback, Returns, CallsOK, CallsTyped
  <1>3. CallIsExclusive(c)'
    BY <1>1 DEF Rollback, Returns, CallsOK, CallsTyped, CallIsExclusive
  <1>4. ASSUME NEW d \in Caller \ {c}
        PROVE  /\ lock' # d /\ lock # d /\ phase'[d] = phase[d] /\ step'[d] = step[d]
               /\ request'[d] = request[d] /\ answer'[d] = answer[d] /\ past'[d] = past[d]
    BY <1>1, CallersAssumption DEF Rollback, Returns, CallsOK, CallsTyped
  <1>5. tables' = tables
    BY DEF Rollback
  <1> QED
    BY <1>2, <1>3, <1>4, <1>5, OneCallerSteps

LEMMA RefuseCallsOK ==
    ASSUME CallsOK, NEW c \in Caller, Refuse(c)
    PROVE  CallsOK'
  <1> DEFINE kept == IF past[c] = "none" THEN NoRequest ELSE request[c]
  <1>1. /\ phase[c] = "checking" /\ Rollback(c, "refused", kept) /\ past' = past
        /\ ~AsExpected(c, pending) /\ pending = tables
        /\ request[c] \in Nat /\ answer[c] = "none"
        /\ past \in [Caller -> {"none", "failed", "lost"}]
    BY DEF Refuse, CallsOK, CallsTyped, CallIsExclusive
  <1>2. ASSUME c \in Editor PROVE AskedOnce(c)'
    <2>1. AskedOnce(c) /\ request[c] # tables.version /\ tables.version \in Nat
      BY <1>1, <1>2 DEF CallsOK, AsExpected, TablesOK, Tables
    <2>2. request[c] < tables.version
      BY <1>1, <2>1 DEF AskedOnce
    <2>3. /\ request'[c] = kept /\ answer'[c] = "refused" /\ phase'[c] = "idle"
          /\ tables' = tables
      BY <1>1 DEF Rollback, Returns, CallsOK, CallsTyped
    <2>4. Store!HasEdited(tables, c) =>
             past[c] = "lost" /\ tables.events[request[c] + 1].editor = c
      BY <1>1, <2>1, CallersAssumption DEF AskedOnce
    <2> QED BY <1>1, <2>1, <2>2, <2>3, <2>4, CallersAssumption DEF AskedOnce
  <1>3. kept \in {request[c], NoRequest}
    OBVIOUS
  <1> HIDE DEF kept
  <1> QED
    BY <1>1, <1>2, <1>3, RollbackCallsOK

LEMMA StatementCallsOK ==
    ASSUME CallsOK, NEW c \in Caller, Statement(c)
    PROVE  CallsOK'
  <1>1. CallsTyped'
    BY DEF Statement, CallsOK, CallsTyped
  <1>2. CallIsExclusive(c)'
    <2>1. /\ lock = c /\ step[c] \in Nat /\ step[c] < Len(Statements(c))
          /\ AsExpected(c, tables) /\ After(c, tables, step[c], pending)
          /\ request[c] \in Nat /\ answer[c] = "none"
      BY DEF Statement, CallsOK, CallsTyped, CallIsExclusive
    <2>2. step[c] \in 0..5 /\ step[c] + 1 <= Len(Statements(c))
      <3> DEFINE n == Len(Statements(c))
      <3>1. n = 4 \/ n = 6
        BY StatementCount
      <3>2. step[c] \in Nat /\ step[c] < n
        BY <2>1
      <3> HIDE DEF n
      <3>3. step[c] \in 0..5 /\ step[c] + 1 <= n
        BY <3>1, <3>2
      <3> QED BY <3>3 DEF n
    <2>3. After(c, tables, step[c] + 1, pending')
      BY <2>1, <2>2, AfterStatement DEF Statement
    <2>4. /\ phase'[c] = "writing" /\ step'[c] = step[c] + 1
          /\ tables' = tables /\ lock' = lock /\ session' = "attended"
          /\ request' = request /\ answer' = answer
      BY DEF Statement, CallsOK, CallsTyped, CallIsExclusive
    <2>5. AsExpected(c, tables)'
      BY <2>1, <2>4 DEF AsExpected
    <2> QED BY <2>1, <2>2, <2>3, <2>4, <2>5 DEF CallIsExclusive
  <1>3. ASSUME c \in Editor PROVE AskedOnce(c)'
    <2>1. /\ AskedOnce(c) /\ phase[c] # "committed" /\ phase'[c] # "committed"
          /\ tables' = tables /\ request'[c] = request[c] /\ answer'[c] = answer[c]
          /\ past'[c] = past[c]
      BY <1>3 DEF Statement, CallsOK, CallsTyped
    <2> QED BY <2>1 DEF AskedOnce
  <1>4. lock = c
    BY DEF Statement, CallsOK, CallIsExclusive
  <1> QED
    BY <1>1, <1>2, <1>3, <1>4, OneCallerSteps DEF Statement, CallsOK, CallsTyped

LEMMA StatementFailsCallsOK ==
    ASSUME CallsOK, NEW c \in Caller, StatementFails(c)
    PROVE  CallsOK'
  <1>1. /\ phase[c] \in {"checking", "writing"} /\ Rollback(c, "failed", request[c])
        /\ request[c] \in Nat /\ answer[c] = "none"
    BY DEF StatementFails, CallsOK, CallIsExclusive
  <1>2. /\ past' \in [Caller -> {"none", "failed", "lost"}]
        /\ \A d \in Caller \ {c} : past'[d] = past[d]
        /\ past[c] = "lost" => past'[c] = "lost"
    BY DEF StatementFails, Remember, CallsOK, CallsTyped
  <1>3. ASSUME c \in Editor PROVE AskedOnce(c)'
    <2>1. AskedOnce(c)
      BY <1>3 DEF CallsOK
    <2>2. /\ request'[c] = request[c] /\ answer'[c] = "failed" /\ phase'[c] = "idle"
          /\ tables' = tables
      BY <1>1 DEF Rollback, Returns, CallsOK, CallsTyped
    <2> QED BY <1>1, <1>2, <2>1, <2>2, CallersAssumption DEF AskedOnce
  <1> QED
    BY <1>1, <1>2, <1>3, RollbackCallsOK

LEMMA CommitCallsOK ==
    ASSUME CallsOK, NEW c \in Caller, Commit(c)
    PROVE  CallsOK'
  <1>1. /\ lock = c /\ session = "attended" /\ phase[c] = "writing" /\ request[c] \in Nat
        /\ answer[c] = "none" /\ TablesOK(tables) /\ Complete(c) /\ tables' = pending
    BY DEF Commit, Complete, CallsOK, CallIsExclusive
  <1>2. TablesOK(tables')
    BY <1>1, CompletePublishes
  <1>3. CallsTyped'
    BY <1>1 DEF Commit, CallsOK, CallsTyped
  <1>4. ASSUME NEW d \in Caller PROVE CallIsExclusive(d)'
    <2>1. CASE d = c
      BY <1>1, <2>1, CallersAssumption DEF Commit, CallsOK, CallsTyped, CallIsExclusive
    <2>2. CASE d # c
      <3>1. lock # d /\ CallIsExclusive(d) /\ phase'[d] = phase[d] /\ lock' # d
            /\ UNCHANGED <<step, request, answer>>
        BY <1>1, <2>2, CallersAssumption DEF Commit, CallsOK, CallsTyped
      <3> QED BY <3>1 DEF CallIsExclusive
    <2> QED BY <2>1, <2>2
  <1>5. ASSUME NEW d \in Editor PROVE AskedOnce(d)'
    <2>1. /\ d \in Caller /\ request' = request /\ answer' = answer /\ past' = past
          /\ IF d = c THEN phase'[d] = "committed" ELSE phase'[d] = phase[d]
      BY DEF Commit, CallsOK, CallsTyped, Caller
    <2> QED BY <1>1, <2>1, CompleteIsSettled
  <1> QED
    BY <1>2, <1>3, <1>4, <1>5 DEF CallsOK

LEMMA ReturnCallsOK ==
    ASSUME CallsOK, NEW c \in Caller, Return(c)
    PROVE  CallsOK'
  <1>1. CallsTyped'
    BY DEF Return, Returns, CallsOK, CallsTyped
  <1>2. CallIsExclusive(c)'
    <2>1. lock # c
      BY DEF Return, CallsOK, CallIsExclusive
    <2>2. lock' = lock /\ phase'[c] = "idle" /\ step'[c] = 0
      BY DEF Return, Returns, CallsOK, CallsTyped
    <2> QED BY <2>1, <2>2 DEF CallIsExclusive
  <1>3. ASSUME c \in Editor PROVE AskedOnce(c)'
    BY <1>3, CallersAssumption DEF Return, Returns, CallsOK, CallsTyped, AskedOnce
  <1> QED
    BY <1>1, <1>2, <1>3, OneCallerSteps DEF Return, Returns, CallsOK, CallsTyped

\* A caller that is gone leaves its transaction, complete or not, to the database.
LEMMA LeavesCallsOK ==
    ASSUME CallsOK, NEW c \in Caller, phase[c] # "idle", NEW told \in {"none", "failed"},
           Returns(c, told, request[c]), Leaves(c)
    PROVE  CallsOK'
  <1>1. /\ CallIsExclusive(c) /\ request[c] \in Nat /\ CallsTyped
        /\ step[c] \in Nat /\ Len(Statements(c)) \in {4, 6}
    BY StatementCount DEF CallsOK, CallIsExclusive, CallsTyped
  <1>2. /\ tables' = tables /\ lock' = lock /\ pending' = pending
        /\ phase'[c] = "idle" /\ step'[c] = 0 /\ request'[c] = request[c]
        /\ answer'[c] = told
        /\ c \in Editor => past'[c] = "lost"
    BY <1>1 DEF Returns, Leaves, Remember, CallsTyped
  <1>3. \A d \in Caller \ {c} :
           /\ phase'[d] = phase[d] /\ step'[d] = step[d] /\ request'[d] = request[d]
           /\ answer'[d] = answer[d] /\ past'[d] = past[d]
    BY <1>1 DEF Returns, Leaves, Remember, CallsTyped
  <1>4. CASE phase[c] \in {"checking", "writing"}
    <2>1. lock = c /\ c # NoLock /\ session' \in {"abandoned", "committing"}
      BY <1>1, <1>4, CallersAssumption DEF Leaves, CallIsExclusive
    <2>2. ASSUME session' = "committing" PROVE Complete(c)'
      <3>1. ~(step[c] < Len(Statements(c)))
        BY <1>4, <2>2 DEF Leaves
      <3> DEFINE n == Len(Statements(c))
      <3>2. (n = 4 \/ n = 6) /\ step[c] \in Nat /\ ~(step[c] < n)
        BY <1>1, <3>1
      <3>3. phase[c] = "checking" => step[c] = 0
        BY <1>1 DEF CallIsExclusive
      <3>4. phase[c] = "writing" => step[c] <= n
        BY <1>1 DEF CallIsExclusive
      <3> HIDE DEF n
      <3>5. phase[c] = "writing" /\ step[c] = n
        BY <1>4, <3>2, <3>3, <3>4
      <3>6. Complete(c)
        BY <1>1, <3>5 DEF Complete, CallIsExclusive, n
      <3> QED BY <1>2, <3>6, CompleteStays
    <2>3. CallsTyped'
      BY <1>1, <2>1 DEF Returns, Leaves, Remember, CallsTyped
    <2>4. CallIsExclusive(c)'
      BY <1>2, <2>1, <2>2 DEF CallIsExclusive
    <2>5. c \in Editor => AskedOnce(c)'
      BY <1>1, <1>2, CallersAssumption DEF CallsOK, AskedOnce
    <2>6. \A d \in Caller \ {c} : lock # d
      BY <2>1
    <2> QED BY <1>2, <1>3, <2>3, <2>4, <2>5, <2>6, OneCallerSteps
  <1>5. CASE phase[c] \notin {"checking", "writing"}
    <2>1. session' = session
      BY <1>5 DEF Leaves
    <2>2. CallsTyped'
      BY <1>1, <1>2, <2>1 DEF Returns, Leaves, Remember, CallsTyped
    <2>3. Complete(c) => Complete(c)'
      BY <1>2, CompleteStays
    <2>4. CallIsExclusive(c)'
      BY <1>1, <1>2, <1>5, <2>1, <2>3 DEF CallIsExclusive
    <2>5. c \in Editor => AskedOnce(c)'
      BY <1>1, <1>2, CallersAssumption DEF CallsOK, AskedOnce
    <2> QED BY <1>2, <1>3, <2>1, <2>2, <2>4, <2>5, OneCallerSteps
  <1> QED
    BY <1>4, <1>5

LEMMA SessionEndsCallsOK ==
    ASSUME CallsOK, SessionEnds
    PROVE  CallsOK'
  <1>1. lock \in Caller /\ lock # NoLock /\ session \in {"abandoned", "committing"}
    BY CallersAssumption DEF SessionEnds, CallsOK, CallsTyped
  <1>2. /\ lock' = NoLock /\ session' = "attended"
        /\ UNCHANGED <<phase, step, request, answer, past>>
    BY DEF SessionEnds
  <1>3. CallsTyped'
    BY <1>2 DEF CallsOK, CallsTyped
  <1>4. ASSUME NEW d \in Caller PROVE CallIsExclusive(d)'
    <2>1. phase[d] \notin {"checking", "writing"}
      BY <1>1 DEF CallsOK, CallIsExclusive
    <2>2. d # NoLock
      BY CallersAssumption
    <2> QED BY <1>2, <2>1, <2>2 DEF CallsOK, CallIsExclusive
  <1>5. CASE tables' = tables
    <2>1. TablesOK(tables)'
      BY <1>5 DEF CallsOK, TablesOK
    <2>2. \A d \in Editor : AskedOnce(d)'
      BY <1>2, <1>5 DEF CallsOK, AskedOnce
    <2> QED BY <1>3, <1>4, <2>1, <2>2 DEF CallsOK
  <1>6. CASE tables' # tables
    <2>1. session = "committing" /\ tables' = pending
      BY <1>6 DEF SessionEnds
    <2>2. Complete(lock) /\ (lock \in Editor => past[lock] = "lost")
      BY <1>1, <2>1 DEF CallsOK, CallIsExclusive
    <2>3. TablesOK(tables')
      BY <1>1, <2>1, <2>2, CompletePublishes
    <2>4. ASSUME NEW d \in Editor PROVE AskedOnce(d)'
      BY <1>1, <1>2, <2>1, <2>2, CompleteIsSettled
    <2> QED BY <1>3, <1>4, <2>3, <2>4 DEF CallsOK
  <1> QED
    BY <1>5, <1>6

\* Every step preserves the invariant.
LEMMA NextCallsOK ==
    ASSUME CallsOK, [Next]_transactionVars
    PROVE  CallsOK'
  <1>1. CASE UNCHANGED transactionVars
    <2>1. TablesOK(tables)' /\ CallsTyped'
      BY <1>1 DEF transactionVars, CallsOK, TablesOK, CallsTyped
    <2>2. \A d \in Caller : CallIsExclusive(d)' /\ (AskedOnce(d) => AskedOnce(d)')
      BY <1>1, OtherCallers DEF transactionVars, CallsOK
    <2> QED BY <2>1, <2>2 DEF CallsOK, Caller
  <1>2. CASE Next
    <2>1. CASE SessionEnds
      BY <2>1, SessionEndsCallsOK
    <2>2. CASE ~SessionEnds
      <3>1. PICK c \in Caller :
               ReadHead(c) \/ Call(c) \/ Proceeds(c) \/ Disconnect(c) \/ Crash(c)
        BY <1>2, <2>2 DEF Next
      <3>2. Disconnect(c) \/ Crash(c) => CallsOK'
        BY LeavesCallsOK DEF Disconnect, Crash
      <3> QED
        BY <3>1, <3>2, ReadHeadCallsOK, CallCallsOK, BeginWriteCallsOK, TimeOutCallsOK,
           CheckCallsOK, RefuseCallsOK, StatementCallsOK, StatementFailsCallsOK,
           CommitCallsOK, ReturnCallsOK
           DEF Proceeds
    <2> QED BY <2>1, <2>2
  <1> QED
    BY <1>1, <1>2

-----------------------------------------------------------------------------
(* The theorems.                                                           *)

LEMMA CallsAreOK == Spec => []CallsOK
  BY InitCallsOK, NextCallsOK, PTL DEF Spec

\* No statement is refused by the schema that guards the history, in whatever
\* order the calls of any number of callers interleave, fail and are repeated.
THEOREM StatementsAreAllowed == Spec => []EveryStatementIsAllowed
  <1>1. CallsOK => EveryStatementIsAllowed
    BY NextStatementAllowed DEF EveryStatementIsAllowed
  <1> QED
    BY <1>1, CallsAreOK, PTL

\* A reported success took effect, a reported failure did not unless a connection or
\* process was lost, and then the version the caller expects tells whether it did.
THEOREM AnswersTrue == Spec => []AnswersAreTrue
  <1>1. CallsOK => AnswersAreTrue
    <2> SUFFICES ASSUME CallsOK, NEW c \in Editor
                 PROVE  /\ answer[c] = "done" => Store!HasEdited(tables, c)
                        /\ answer[c] \in {"failed", "refused"} /\ Store!HasEdited(tables, c)
                              => past[c] = "lost"
                        /\ request[c] \in Nat /\ Store!HasEdited(tables, c) =>
                              /\ request[c] < Len(tables.events)
                              /\ tables.events[request[c] + 1].editor = c
                        /\ request[c] \in Nat /\ answer[c] = "refused" =>
                              request[c] < Len(tables.events)
      BY DEF AnswersAreTrue
    <2>1. AskedOnce(c) /\ CallIsExclusive(c) /\ tables.version = Len(tables.events)
      BY DEF CallsOK, Caller, TablesOK
    <2> QED BY <2>1, CallersAssumption DEF AskedOnce, CallIsExclusive
  <1> QED
    BY <1>1, CallsAreOK, PTL

\* The transactions implement AtomicStore: what is published, by a commit or by the
\* database for a caller that is gone, is one whole edit, and the first of its caller,
\* or one whole finalization; no other step changes the tables.
THEOREM TransactionsAreAtomic == Spec => StoreIsAtomic
  <1>1. Init => Store!Init
    BY DEF Init, Store!Init
  <1>2. CallsOK /\ [Next]_transactionVars => [Store!Next]_tables
    <2> SUFFICES ASSUME CallsOK, [Next]_transactionVars, tables' # tables
                 PROVE  Store!Next
      OBVIOUS
    <2>1. SessionEnds \/ \E c \in Caller : Commit(c)
      BY DEF transactionVars, Next, Proceeds, ReadHead, Call, BeginWrite, TimeOut,
             Check, Refuse, Rollback, Returns, Statement, StatementFails, Return,
             Disconnect, Leaves, Crash
    <2>2. PICK c \in Caller : Complete(c) /\ tables' = pending
      <3>1. ASSUME NEW c \in Caller, Commit(c) PROVE Complete(c) /\ tables' = pending
        BY <3>1 DEF Commit, Complete, CallsOK, CallIsExclusive
      <3>2. ASSUME SessionEnds PROVE lock \in Caller /\ Complete(lock) /\ tables' = pending
        BY <3>2 DEF SessionEnds, CallsOK, CallsTyped, CallIsExclusive
      <3> QED BY <2>1, <3>1, <3>2
    <2>3. CASE c \in Editor
      BY <2>2, <2>3, CompletePublishes DEF Store!Next, Store!Edit
    <2>4. CASE c \in Finalizer
      BY <2>2, <2>4, CompletePublishes DEF Store!Next, Store!Finalize
    <2> QED BY <2>3, <2>4 DEF Caller
  <1> QED
    BY <1>1, <1>2, CallsAreOK, PTL DEF Spec, StoreIsAtomic, Store!Spec

=============================================================================
