------------------------- MODULE WriteTransactions -------------------------
(***************************************************************************)
(* The write transactions of Database, statement by statement, on SQLite   *)
(* and PostgreSQL (sqlite_backend.cpp, postgres_backend.cpp, database.cpp, *)
(* objects.cpp, object_groups.cpp, and the triggers of sqlite_schema.cpp). *)
(*                                                                         *)
(* Callers read without a lock, wait at most five seconds for the single   *)
(* write lock, check again what they read, execute their statements and    *)
(* commit.  A statement may fail, and a caller may crash or lose its       *)
(* connection between any two: during COMMIT the server may still complete *)
(* the transaction of a call that reports failure.  A caller whose answer  *)
(* was lost or negative may ask for the same again.                        *)
(***************************************************************************)
EXTENDS Naturals, Sequences

CONSTANTS Editor, Finalizer, MaxRevisions, NoRevision, NoRoot,
          NoLock,      \* nobody holds the write lock
          NoRequest    \* a caller that has not asked for anything

Caller == Editor \cup Finalizer

ASSUME CallersAssumption ==
    /\ Editor \cap Finalizer = {}
    /\ NoLock \notin Caller
    /\ NoRequest \notin Nat
    /\ NoRoot \notin Nat

ASSUME MaxRevisionsAssumption == MaxRevisions \in Nat \ {0}

VARIABLES
    tables,    \* what is committed
    lock,      \* who holds the write lock
    session,   \* the database's end of the holder's connection: "attended" by its
               \* caller, or left with a COMMIT sent ("committing") or not ("abandoned")
    pending,   \* what the holder of the lock sees: its own statements included
               \* (what is committed while nobody holds it)
    phase,     \* what each caller does
    step,      \* how many statements of its transaction it executed
    request,   \* the version an edit, or the generation a finalization, expects
    answer,    \* the last answer a caller got
    past       \* what came of earlier attempts at this request: "none" was made,
               \* they "failed", or one was "lost" with its connection or process

transactionVars == <<tables, lock, session, pending, phase, step, request, answer, past>>

Store == INSTANCE AtomicStore

-----------------------------------------------------------------------------
(* The statements of modifyObject and finalizeInWriteTransaction, for a     *)
(* branch in object mode.                                                  *)

\* A mistaken finalization: the successor is inserted while the old head still
\* takes the one place of a working revision.
UnsealedStatements(c) ==
    IF c \in Editor THEN <<"row", "generation", "event", "group">>
    ELSE <<"snapshot", "successor", "sealing", "finalized", "parent", "head">>

Statements(c) ==
    IF c \in Editor THEN <<"row", "generation", "event", "group">>
    ELSE <<"snapshot", "sealing", "successor", "finalized", "parent", "head">>

\* What the schema demands: UNIQUE indexes, CHECKs, triggers, and that an UPDATE
\* finds its row.
Allowed(statement, t) ==
    CASE statement = "row" -> \E r \in DOMAIN t.state : t.state[r] = "working"
      [] statement = "generation" -> t.state[t.head] = "working"
      [] statement = "event" -> t.state[t.head] = "working"
      [] statement = "group" ->
            /\ t.state[t.head] = "working"
            /\ Len(t.events) > t.grouped
            /\ t.events[Len(t.events)].sequence = t.generation[t.head]
      [] statement = "snapshot" -> t.state[t.head] # "finalized"
      [] statement = "sealing" -> t.state[t.head] = "working"
      [] statement = "successor" ->
            /\ t.state[t.head + 1] = "none"
            /\ \A r \in DOMAIN t.state : t.state[r] # "working"
      [] statement = "finalized" -> t.state[t.head] = "sealing" /\ t.root[t.head] # NoRoot
      [] statement = "parent" ->
            t.state[t.head] = "finalized" /\ t.state[t.head + 1] = "working"
      [] statement = "head" -> t.state[t.head + 1] = "working"

Execute(statement, t, c) ==
    CASE statement = "row" -> [t EXCEPT !.version = @ + 1]
      [] statement = "generation" -> [t EXCEPT !.generation[t.head] = @ + 1]
      [] statement = "event" ->
            [t EXCEPT !.events = Append(@, [revision |-> t.head,
                                            sequence |-> t.generation[t.head],
                                            editor   |-> c])]
      [] statement = "group" -> [t EXCEPT !.grouped = @ + 1]
      [] statement = "snapshot" -> [t EXCEPT !.root[t.head] = t.version]
      [] statement = "sealing" -> [t EXCEPT !.state[t.head] = "sealing"]
      [] statement = "successor" -> [t EXCEPT !.state[t.head + 1] = "working"]
      [] statement = "finalized" -> [t EXCEPT !.state[t.head] = "finalized"]
      [] statement = "parent" -> [t EXCEPT !.parent[t.head + 1] = t.head]
      [] statement = "head" -> [t EXCEPT !.head = @ + 1]

\* The rows are what the caller expects: modifyObjectInTransaction compares the
\* version, finalizeInWriteTransaction the generation.  MaxRevisions is a bound.
AsExpected(c, t) ==
    IF c \in Editor THEN request[c] = t.version
    ELSE request[c] = t.generation[t.head] /\ t.head < MaxRevisions

-----------------------------------------------------------------------------
(* The calls.                                                              *)

Init ==
    /\ tables = Store!Empty
    /\ pending = Store!Empty
    /\ lock = NoLock
    /\ session = "attended"
    /\ phase = [c \in Caller |-> "idle"]
    /\ step = [c \in Caller |-> 0]
    /\ request = [c \in Caller |-> NoRequest]
    /\ answer = [c \in Caller |-> "none"]
    /\ past = [c \in Caller |-> "none"]

\* object or branch, in no transaction: what the caller will expect.
ReadHead(c) ==
    /\ phase[c] = "idle"
    /\ request[c] = NoRequest
    /\ answer[c] # "done" \/ c \notin Editor
    /\ request' = [request EXCEPT ![c] = IF c \in Editor THEN tables.version
                                         ELSE tables.generation[tables.head]]
    /\ answer' = [answer EXCEPT ![c] = "none"]
    /\ past' = [past EXCEPT ![c] = "none"]
    /\ UNCHANGED <<tables, lock, session, pending, phase, step>>

\* The call begins: the first time, or again.
Call(c) ==
    /\ phase[c] = "idle"
    /\ request[c] # NoRequest
    /\ phase' = [phase EXCEPT ![c] = "waiting"]
    /\ answer' = [answer EXCEPT ![c] = "none"]
    /\ UNCHANGED <<tables, lock, session, pending, step, request, past>>

\* beginWrite: BEGIN IMMEDIATE, or the transaction's advisory lock.
BeginWrite(c) ==
    /\ phase[c] = "waiting"
    /\ lock = NoLock
    /\ lock' = c
    /\ pending' = tables
    /\ phase' = [phase EXCEPT ![c] = "checking"]
    /\ UNCHANGED <<tables, session, step, request, answer, past>>

\* What came of an attempt is remembered for the editors, whose requests are for one
\* edit each.
Remember(c, outcome) ==
    past' = [past EXCEPT ![c] = IF c \in Editor /\ @ # "lost" THEN outcome ELSE @]

\* busy_timeout or lock_timeout passed.
TimeOut(c) ==
    /\ phase[c] = "waiting"
    /\ lock # NoLock
    /\ phase' = [phase EXCEPT ![c] = "idle"]
    /\ answer' = [answer EXCEPT ![c] = "failed"]
    /\ Remember(c, "failed")
    /\ UNCHANGED <<tables, lock, session, pending, step, request>>

\* The call returns, and its caller keeps the request or drops it.
Returns(c, told, kept) ==
    /\ phase' = [phase EXCEPT ![c] = "idle"]
    /\ step' = [step EXCEPT ![c] = 0]
    /\ answer' = [answer EXCEPT ![c] = told]
    /\ request' = [request EXCEPT ![c] = kept]

\* A mistaken rollback: an early return that forgets it.
ReturnsInTransaction(c, told, kept) ==
    Returns(c, told, kept) /\ UNCHANGED <<tables, lock, session, pending>>

\* A mistaken rollback: it leaves what the statements wrote.
KeepsStatements(c, told, kept) ==
    /\ Returns(c, told, kept)
    /\ lock' = NoLock
    /\ tables' = pending
    /\ UNCHANGED <<session, pending>>

\* rollback ends the transaction and releases the lock.
Rollback(c, told, kept) ==
    /\ Returns(c, told, kept)
    /\ lock' = NoLock
    /\ pending' = tables
    /\ UNCHANGED <<tables, session>>

\* A mistaken Check: what the caller read before is trusted.
ChecksNothing(c) ==
    /\ phase[c] = "checking"
    /\ c \in Editor \/ pending.head < MaxRevisions
    /\ phase' = [phase EXCEPT ![c] = "writing"]
    /\ UNCHANGED <<tables, lock, session, pending, step, request, answer, past>>

\* What was read without the lock is checked again under it.
Check(c) ==
    /\ phase[c] = "checking"
    /\ AsExpected(c, pending)
    /\ phase' = [phase EXCEPT ![c] = "writing"]
    /\ UNCHANGED <<tables, lock, session, pending, step, request, answer, past>>

\* The check fails: the caller has to read again before it asks for anything.  An
\* editor with an earlier attempt that failed or got no answer cannot tell whether its
\* own edit is why; it keeps what it expected, to look that version up, and asks for no
\* more.
Refuse(c) ==
    /\ phase[c] = "checking"
    /\ ~AsExpected(c, pending)
    /\ Rollback(c, "refused", IF past[c] = "none" THEN NoRequest ELSE request[c])
    /\ UNCHANGED past

Statement(c) ==
    /\ phase[c] = "writing"
    /\ step[c] < Len(Statements(c))
    /\ Allowed(Statements(c)[step[c] + 1], pending)
    /\ pending' = Execute(Statements(c)[step[c] + 1], pending, c)
    /\ step' = [step EXCEPT ![c] = @ + 1]
    /\ UNCHANGED <<tables, lock, session, phase, request, answer, past>>

\* The database reports that it did not execute a query, a statement or COMMIT, over
\* a connection that lasts; the call rolls back.
StatementFails(c) ==
    /\ phase[c] \in {"checking", "writing"}
    /\ Rollback(c, "failed", request[c])
    /\ Remember(c, "failed")

Commit(c) ==
    /\ phase[c] = "writing"
    /\ step[c] = Len(Statements(c))
    /\ tables' = pending
    /\ lock' = NoLock
    /\ phase' = [phase EXCEPT ![c] = "committed"]
    /\ UNCHANGED <<session, pending, step, request, answer, past>>

\* The call returns its result.
Return(c) ==
    /\ phase[c] = "committed"
    /\ Returns(c, "done", NoRequest)
    /\ UNCHANGED <<tables, lock, session, pending, past>>

\* The caller's end of the connection is gone.  A transaction that was open on it
\* stays with the database, which may have received the COMMIT that came next.
Leaves(c) ==
    /\ session' = IF phase[c] \notin {"checking", "writing"} THEN session
                  ELSE IF step[c] < Len(Statements(c)) THEN "abandoned"
                  ELSE "committing"
    /\ Remember(c, "lost")
    /\ UNCHANGED <<tables, lock, pending>>

\* The connection is lost.  The statement or COMMIT that was under way reports an
\* error, the ROLLBACK that follows reaches nobody, and the call fails.
Disconnect(c) ==
    /\ phase[c] \in {"waiting", "checking", "writing"}
    /\ Returns(c, "failed", request[c])
    /\ Leaves(c)

\* The process ends in the middle of a call, and whoever asked gets no answer.
Crash(c) ==
    /\ phase[c] # "idle"
    /\ Returns(c, "none", request[c])
    /\ Leaves(c)

\* The database completes a COMMIT whose caller is gone, or rolls back.
SessionEnds ==
    /\ session # "attended"
    /\ tables' \in IF session = "committing" THEN {tables, pending} ELSE {tables}
    /\ pending' = tables'
    /\ lock' = NoLock
    /\ session' = "attended"
    /\ UNCHANGED <<phase, step, request, answer, past>>

\* The steps a running call takes by itself.
Proceeds(c) ==
    \/ BeginWrite(c)
    \/ TimeOut(c)
    \/ Check(c)
    \/ Refuse(c)
    \/ Statement(c)
    \/ StatementFails(c)
    \/ Commit(c)
    \/ Return(c)

Next ==
    \/ \E c \in Caller :
          ReadHead(c) \/ Call(c) \/ Proceeds(c) \/ Disconnect(c) \/ Crash(c)
    \/ SessionEnds

\* Every running call goes on: its thread is scheduled, and the database ends a
\* wait for the lock when its timeout has passed, and notices that a connection is
\* gone.  Nobody has to call.
Fairness ==
    /\ \A c \in Caller : WF_transactionVars(Proceeds(c))
    /\ WF_transactionVars(SessionEnds)

Spec == Init /\ [][Next]_transactionVars /\ Fairness

-----------------------------------------------------------------------------
(* What the transactions promise.                                          *)

\* Whatever fails, crashes or is asked for again between two statements, the
\* committed tables only ever change by a whole edit or a whole finalization, and
\* no caller's edit takes effect twice: a 'sealing' revision is never committed
\* (docs/versioned-storage.md, step 3 of a finalization).
StoreIsAtomic == Store!Spec

\* What a caller may conclude from the answers of commit and modifyObject.  A reported
\* success took effect.  A reported failure or refusal did not, unless the connection
\* or the process of an attempt at the same edit was lost: commit then returns false
\* for a COMMIT that the server may complete.  In that case the journal settles it: if
\* the edit took effect, the event that follows the version its caller expects is the
\* caller's, and once an attempt is refused that version is taken for good.
AnswersAreTrue ==
    \A c \in Editor :
        /\ answer[c] = "done" => Store!HasEdited(tables, c)
        /\ answer[c] \in {"failed", "refused"} /\ Store!HasEdited(tables, c) =>
              past[c] = "lost"
        /\ request[c] \in Nat /\ Store!HasEdited(tables, c) =>
              /\ request[c] < Len(tables.events)
              /\ tables.events[request[c] + 1].editor = c
        /\ request[c] \in Nat /\ answer[c] = "refused" => request[c] < Len(tables.events)

\* In the order in which the code executes them, no statement of an edit or a
\* finalization is refused by the triggers and indexes that guard the history.
EveryStatementIsAllowed ==
    \A c \in Caller :
        phase[c] = "writing" /\ step[c] < Len(Statements(c)) =>
            Allowed(Statements(c)[step[c] + 1], pending)

\* Every call ends, and the write lock is released by whoever holds it, or by the
\* database when its holder is gone.
NothingWaitsForever ==
    \A c \in Caller :
        /\ phase[c] # "idle" ~> phase[c] = "idle"
        /\ lock = c ~> lock # c

=============================================================================
