---------------------------- MODULE Credentials ----------------------------
(***************************************************************************)
(* Sessions (sessions.cpp), passwords and recovery tokens                  *)
(* (password_credentials.cpp).                                             *)
(*                                                                         *)
(* Time is what the callers' clock shows, and it does not run backwards.   *)
(* Some operations take the time before they wait for the write lock: they *)
(* use an earlier one, at most MaxWait old, as the wait is limited.  A     *)
(* login and a change of one's own password compare the password with a    *)
(* credential read before the lock, because hashing is slow; between the   *)
(* two steps others change the account.  Redeeming a recovery token hashes *)
(* before the lock, too, but uses nothing it has read before.              *)
(***************************************************************************)
EXTENDS Access, FiniteSets

CONSTANTS
    Password, Session, Token,
    Caller,                     \* the calls in progress
    NoCredential, NoSession, NoToken, NoAttempt,
    Lifetime,                   \* how long sessions and tokens may last
    LockoutTime,                \* password_lockout_ms
    FailureLimit,               \* password_failure_limit
    MaxActiveSessions,          \* max_active_sessions_per_user
    MaxWait,                    \* bound on the wait for the write lock
    MaxTime,                    \* bound on the clock
    MaxSalt                     \* bound on the credentials of a user

VARIABLES
    clock,
    credential,     \* the password of each user and the salt it was hashed with
    failures,
    lockedUntil,
    sessions,
    tokens,
    attempts        \* what each call in progress has read

credentialTables == <<credential, failures, lockedUntil>>
credentialVars   == <<clock, credentialTables, sessions, tokens, attempts>>

Never == 0          \* a time that was not set; the clock starts later
Time  == 1..MaxTime

CredentialRow == [password : Password, salt : Nat]
SessionRow    == [user : User, expires : Nat, revoked : Nat, redacted : BOOLEAN]
TokenRow      == [user : User, issued : Nat, expires : Nat,
                  status : {"open", "used", "invalidated"}]
LoginCall     == [call : {"login"}, user : User, password : Password,
                  seen : CredentialRow]
ChangeCall    == [call : {"change"}, user : User, password : Password,
                  seen : CredentialRow, session : Session, new : Password]

ASSUME NullsAreNoValues ==
    /\ NoCredential \notin CredentialRow
    /\ NoSession \notin SessionRow
    /\ NoToken \notin TokenRow
    /\ NoAttempt \notin LoginCall \cup ChangeCall

ASSUME Limits ==
    /\ Lifetime \subseteq Nat \ {0}
    /\ {LockoutTime, FailureLimit, MaxActiveSessions} \subseteq Nat \ {0}
    /\ {MaxWait, MaxTime, MaxSalt} \subseteq Nat
    /\ IsFiniteSet(Session)

CredentialTypeOK ==
    /\ clock \in Nat \ {0}
    /\ credential \in [User -> CredentialRow \cup {NoCredential}]
    /\ failures \in [User -> 0..FailureLimit]
    /\ lockedUntil \in [User -> Nat]
    /\ sessions \in [Session -> SessionRow \cup {NoSession}]
    /\ tokens \in [Token -> TokenRow \cup {NoToken}]
    /\ attempts \in [Caller -> LoginCall \cup ChangeCall \cup {NoAttempt}]

CredentialInit ==
    /\ clock = 1
    /\ credential = [u \in User |-> NoCredential]
    /\ failures = [u \in User |-> 0]
    /\ lockedUntil = [u \in User |-> Never]
    /\ sessions = [s \in Session |-> NoSession]
    /\ tokens = [t \in Token |-> NoToken]
    /\ attempts = [c \in Caller |-> NoAttempt]

Tick ==
    /\ clock < MaxTime
    /\ clock' = clock + 1
    /\ UNCHANGED <<accessVars, credentialTables, sessions, tokens, attempts>>

\* The times a caller that waited for the write lock may have taken.
Earlier == {at \in Time : at <= clock /\ clock <= at + MaxWait}

-----------------------------------------------------------------------------
(* Sessions.                                                               *)

\* authenticateSession and activeSession.
Usable(s) ==
    /\ sessions[s] # NoSession
    /\ ~sessions[s].redacted
    /\ sessions[s].revoked = Never
    /\ sessions[s].expires > clock
    /\ account[sessions[s].user] = "active"

Unrevoked(u) ==
    {s \in Session : /\ sessions[s] # NoSession
                     /\ sessions[s].user = u
                     /\ sessions[s].revoked = Never}

\* The unrevoked sessions of a user that have not expired at a time.
Running(u, at) == {s \in Unrevoked(u) : sessions[s].expires > at}

\* A mistaken HasSessionCapacity: one session too many.
HasSessionLeft(u, at) == Cardinality(Running(u, at)) <= MaxActiveSessions

HasSessionCapacity(u, at) == Cardinality(Running(u, at)) < MaxActiveSessions

NewSession(u, s, from, lifetime) ==
    /\ sessions[s] = NoSession
    /\ sessions' = [sessions EXCEPT ![s] =
                       [user |-> u, expires |-> from + lifetime,
                        revoked |-> Never, redacted |-> FALSE]]

Revoke(gone) ==
    sessions' = [s \in Session |->
                    IF s \in gone THEN [sessions[s] EXCEPT !.revoked = clock]
                                  ELSE sessions[s]]

IssueSession(actor, u, s, at, lifetime) ==
    /\ HasSessionCapacity(u, at)
    /\ account[u] = "active"
    /\ NewSession(u, s, at, lifetime)
    /\ UNCHANGED <<accessTables, resources, clock, credentialTables, tokens, attempts>>
    /\ Audited(actor)

\* A mistaken RevokeOwnSession: the owner of the session is not compared.
RevokeAnySession(current, s) ==
    /\ Usable(current)
    /\ sessions[s] # NoSession
    /\ s \in Running(sessions[s].user, clock)
    /\ Revoke({s})
    /\ WriteEvents(sessions[current].user, 1)
    /\ UNCHANGED <<accessTables, resources, clock, credentialTables, tokens, attempts>>

\* logoutSession does the same with the current session.
RevokeOwnSession(current, s) ==
    /\ Usable(current)
    /\ s \in Running(sessions[current].user, clock)
    /\ Revoke({s})
    /\ WriteEvents(sessions[current].user, 1)
    /\ UNCHANGED <<accessTables, resources, clock, credentialTables, tokens, attempts>>

RevokeOtherSessions(current) ==
    /\ Usable(current)
    /\ Revoke(Running(sessions[current].user, clock) \ {current})
    /\ WriteEvents(sessions[current].user, 1)
    /\ UNCHANGED <<accessTables, resources, clock, credentialTables, tokens, attempts>>

RevokeSession(actor, s) ==
    /\ sessions[s] # NoSession
    /\ sessions[s].revoked = Never
    /\ Revoke({s})
    /\ UNCHANGED <<accessTables, resources, clock, credentialTables, tokens, attempts>>
    /\ Audited(actor)

\* The sessions whose digest may be overwritten: revoked or expired, and one of
\* the two no later than the cutoff.
Redactable(at, cutoff) ==
    {s \in Session : /\ sessions[s] # NoSession
                     /\ ~sessions[s].redacted
                     /\ \/ sessions[s].expires <= cutoff
                        \/ sessions[s].revoked \in 1..cutoff
                     /\ sessions[s].revoked # Never \/ sessions[s].expires <= at}

\* One batch, the sessions that expire first, with an event for each.
RedactSpentSessionTokens(actor, at, cutoff, limit, batch) ==
    /\ cutoff <= at
    /\ CanManage(actor)
    /\ batch \subseteq Redactable(at, cutoff)
    /\ batch # {}
    /\ \/ batch = Redactable(at, cutoff) /\ Cardinality(batch) <= limit
       \/ Cardinality(batch) = limit
    /\ \A s \in batch, t \in Redactable(at, cutoff) \ batch :
          sessions[s].expires <= sessions[t].expires
    /\ sessions' = [s \in Session |->
                       IF s \in batch THEN [sessions[s] EXCEPT !.redacted = TRUE]
                                      ELSE sessions[s]]
    /\ WriteEvents(actor, Cardinality(batch))
    /\ UNCHANGED <<accessTables, resources, clock, credentialTables, tokens, attempts>>

-----------------------------------------------------------------------------
(* Recovery tokens.                                                        *)

OpenTokens(u) ==
    {t \in Token : /\ tokens[t] # NoToken
                   /\ tokens[t].user = u
                   /\ tokens[t].status = "open"}

\* The tokens a user could redeem now.
Redeemable(t) ==
    /\ tokens[t] # NoToken
    /\ tokens[t].status = "open"
    /\ tokens[t].expires > clock
    /\ account[tokens[t].user] = "active"

\* A mistaken Invalidate.
KeepTokens(gone) == tokens

Invalidate(gone) ==
    [t \in Token |-> IF t \in gone THEN [tokens[t] EXCEPT !.status = "invalidated"]
                                   ELSE tokens[t]]

\* The schema refuses to invalidate a token before it was issued, so a call
\* that took the time too early fails when another one issued a token meanwhile.
IssuePasswordRecovery(actor, u, t, at, lifetime) ==
    /\ account[u] = "active"
    /\ tokens[t] = NoToken
    /\ \A old \in OpenTokens(u) : tokens[old].issued <= at
    /\ tokens' = [Invalidate(OpenTokens(u)) EXCEPT ![t] =
                     [user |-> u, issued |-> at, expires |-> at + lifetime,
                      status |-> "open"]]
    /\ UNCHANGED <<accessTables, resources, clock, credentialTables, sessions, attempts>>
    /\ Audited(actor)

-----------------------------------------------------------------------------
(* Passwords.                                                              *)

\* Every stored credential gets a salt of its own.
NextSalt(u) ==
    IF credential[u] = NoCredential THEN 1 ELSE credential[u].salt + 1

StoreCredential(u, password) ==
    /\ NextSalt(u) <= MaxSalt
    /\ credential' = [credential EXCEPT ![u] =
                         [password |-> password, salt |-> NextSalt(u)]]
    /\ failures' = [failures EXCEPT ![u] = 0]
    /\ lockedUntil' = [lockedUntil EXCEPT ![u] = Never]

SetUserPassword(actor, u, password) ==
    /\ account[u] = "active"
    /\ StoreCredential(u, password)
    /\ Revoke(Unrevoked(u))
    /\ tokens' = Invalidate(OpenTokens(u))
    /\ UNCHANGED <<accessTables, resources, clock, attempts>>
    /\ Audited(actor)

\* It closes the token it was called with, and no other.
RedeemPasswordRecovery(t, password) ==
    /\ Redeemable(t)
    /\ tokens' = [tokens EXCEPT ![t].status = "used"]
    /\ StoreCredential(tokens[t].user, password)
    /\ Revoke(Unrevoked(tokens[t].user))
    /\ WriteEvents(tokens[t].user, 1)
    /\ UNCHANGED <<accessTables, resources, clock, attempts>>

\* A mistaken DisableUser: only the account is touched.
DisableNothingElse(actor, u) ==
    /\ UNCHANGED credentialVars
    /\ DisableAccount(actor, u)

DisableUser(actor, u) ==
    /\ Revoke(Unrevoked(u))
    /\ tokens' = Invalidate(OpenTokens(u))
    /\ UNCHANGED <<clock, credentialTables, attempts>>
    /\ DisableAccount(actor, u)

\* loginWithPassword before the write lock.
BeginLogin(c, u, password) ==
    /\ attempts[c] = NoAttempt
    /\ account[u] = "active"
    /\ credential[u] # NoCredential
    /\ lockedUntil[u] <= clock
    /\ attempts' = [attempts EXCEPT ![c] =
                       [call |-> "login", user |-> u, password |-> password,
                        seen |-> credential[u]]]
    /\ UNCHANGED <<accessVars, clock, credentialTables, sessions, tokens>>

\* changeOwnPassword before the write lock.
BeginChange(c, s, password, new) ==
    /\ attempts[c] = NoAttempt
    /\ new # password
    /\ Usable(s)
    /\ credential[sessions[s].user] # NoCredential
    /\ attempts' = [attempts EXCEPT ![c] =
                       [call |-> "change", user |-> sessions[s].user,
                        password |-> password, seen |-> credential[sessions[s].user],
                        session |-> s, new |-> new]]
    /\ UNCHANGED <<accessVars, clock, credentialTables, sessions, tokens>>

Matches(c) == attempts[c].password = attempts[c].seen.password

\* A mistaken Current: the credential is not compared again.
StillAllowed(c) ==
    /\ attempts[c] # NoAttempt
    /\ lockedUntil[attempts[c].user] <= clock
    /\ IF attempts[c].call = "login"
       THEN account[attempts[c].user] = "active"
       ELSE Usable(attempts[c].session)

\* Under the lock: the credential and the right to use it are still those that
\* were read, and the account is not locked out.
Current(c) ==
    /\ attempts[c] # NoAttempt
    /\ credential[attempts[c].user] = attempts[c].seen
    /\ lockedUntil[attempts[c].user] <= clock
    /\ IF attempts[c].call = "login"
       THEN account[attempts[c].user] = "active"
       ELSE Usable(attempts[c].session)

\* Mistaken CountedFailures: the count does not start again.
UnboundedFailures(u) == failures[u] + 1
FailuresPlusOne(u) ==
    IF failures[u] < FailureLimit THEN failures[u] + 1 ELSE FailureLimit

\* The failures with one more; the count starts again after a lockout.
CountedFailures(u) ==
    IF lockedUntil[u] # Never THEN 1
    ELSE IF failures[u] < FailureLimit THEN failures[u] + 1 ELSE FailureLimit

\* A wrong password is counted, whichever of the two calls it was.
RejectPassword(c) ==
    LET u == attempts[c].user IN
    /\ Current(c)
    /\ ~Matches(c)
    /\ failures' = [failures EXCEPT ![u] = CountedFailures(u)]
    /\ lockedUntil' = [lockedUntil EXCEPT ![u] =
                          IF CountedFailures(u) = FailureLimit
                          THEN clock + LockoutTime ELSE Never]
    /\ attempts' = [attempts EXCEPT ![c] = NoAttempt]
    /\ UNCHANGED <<accessVars, clock, credential, sessions, tokens>>

AcceptLogin(c, s, lifetime) ==
    LET u == attempts[c].user IN
    /\ Current(c)
    /\ attempts[c].call = "login"
    /\ Matches(c)
    /\ HasSessionCapacity(u, clock)
    /\ NewSession(u, s, clock, lifetime)
    /\ failures' = [failures EXCEPT ![u] = 0]
    /\ lockedUntil' = [lockedUntil EXCEPT ![u] = Never]
    /\ WriteEvents(u, 1)
    /\ attempts' = [attempts EXCEPT ![c] = NoAttempt]
    /\ UNCHANGED <<accessTables, resources, clock, credential, tokens>>

AcceptChange(c) ==
    LET u == attempts[c].user IN
    /\ Current(c)
    /\ attempts[c].call = "change"
    /\ Matches(c)
    /\ StoreCredential(u, attempts[c].new)
    /\ Revoke(Unrevoked(u))
    /\ tokens' = Invalidate(OpenTokens(u))
    /\ WriteEvents(u, 1)
    /\ attempts' = [attempts EXCEPT ![c] = NoAttempt]
    /\ UNCHANGED <<accessTables, resources, clock>>

\* The call is refused without a count, or its process stops.
AbandonAttempt(c) ==
    /\ attempts[c] # NoAttempt
    /\ attempts' = [attempts EXCEPT ![c] = NoAttempt]
    /\ UNCHANGED <<accessVars, clock, credentialTables, sessions, tokens>>
=============================================================================
