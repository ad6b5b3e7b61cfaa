-------------------------- MODULE AccountSecurity --------------------------
(***************************************************************************)
(* The operations on access and credentials together, and what they        *)
(* promise.                                                                *)
(***************************************************************************)
EXTENDS Credentials

securityVars == <<accessVars, credentialVars>>

TypeOK == AccessTypeOK /\ CredentialTypeOK

Init == AccessInit /\ CredentialInit

\* An operation of a manager on the account of a user.
AccountOperation(actor, u) ==
    \/ DisableUser(actor, u)
    \/ \E s \in Session, at \in Earlier, lifetime \in Lifetime :
          IssueSession(actor, u, s, at, lifetime)
    \/ \E t \in Token, at \in Earlier, lifetime \in Lifetime :
          IssuePasswordRecovery(actor, u, t, at, lifetime)

\* An operation on existing sessions.
SessionOperation ==
    \/ \E current \in Session :
          \/ \E s \in Session : RevokeOwnSession(current, s)
          \/ RevokeOtherSessions(current)
    \/ \E actor \in User :
          \/ \E s \in Session : RevokeSession(actor, s)
          \/ \E at \in Earlier, cutoff \in Time, limit \in 1..Cardinality(Session),
                batch \in SUBSET Session :
                RedactSpentSessionTokens(actor, at, cutoff, limit, batch)

\* A call starts to check a password, or ends without having done so.
CallStep(c) ==
    \/ \E u \in User, password \in Password : BeginLogin(c, u, password)
    \/ \E s \in Session, password, new \in Password :
          BeginChange(c, s, password, new)
    \/ AbandonAttempt(c)

\* A wrong password is counted.
WrongGuess(u) ==
    \E c \in Caller : /\ attempts[c] # NoAttempt
                      /\ attempts[c].user = u
                      /\ RejectPassword(c)

\* The user, or a manager, shows to be entitled to the account: failures are
\* forgotten.
Entitled(u) ==
    \/ \E c \in Caller :
          /\ attempts[c] # NoAttempt
          /\ attempts[c].user = u
          /\ \/ \E s \in Session, lifetime \in Lifetime : AcceptLogin(c, s, lifetime)
             \/ AcceptChange(c)
    \/ \E actor \in User, password \in Password : SetUserPassword(actor, u, password)
    \/ \E t \in Token, password \in Password :
          /\ tokens[t] # NoToken
          /\ tokens[t].user = u
          /\ RedeemPasswordRecovery(t, password)

\* Everything else leaves the count of failures alone.
OtherOperation ==
    \/ Tick
    \/ \E actor \in User :
          \/ AccessOperation(actor) /\ UNCHANGED credentialVars
          \/ \E u \in User : AccountOperation(actor, u)
    \/ SessionOperation
    \/ \E c \in Caller : CallStep(c)

Next == OtherOperation \/ \E u \in User : WrongGuess(u) \/ Entitled(u)

Spec == Init /\ [][Next]_securityVars

-----------------------------------------------------------------------------
(* Access.                                                                 *)

Bootstrapped == \E u \in User : account[u] # "none"

\* Once there is an administrator somebody can always administer: no order of
\* revocations, removals and disablings by several managers, directly or
\* through groups and roles, takes the last one away (security_audit.cpp:140).
SomebodyCanAdminister == Bootstrapped => \E u \in User : CanManage(u)

\* Nobody but a manager gives anybody a permission: whoever can do something
\* that he could not do before owes it to somebody who could manage security
\* before the step, or to the bootstrap, or the project or branch is new and he
\* has created it or had the permission for all such ones.
OnlyManagersGrantAuthority ==
    [][\A u \in User, permission \in Permission, scope \in Scope :
          ~HasPermission(u, permission, scope) /\ HasPermission(u, permission, scope)' =>
              \/ ~Bootstrapped
              \/ CanManage(lastEvent'.actor)
              \/ /\ scope \in resources' \ resources
                 /\ \/ HasPermission(u, ProjectCreate, System)
                    \/ \E wider \in Covering(scope) \ {scope} :
                          HasPermission(u, permission, wider)]_securityVars

\* Every change of accounts, rights, credentials, sessions or recovery tokens
\* leaves an audit event in the same step, except that creating a project makes
\* its creator the owner and that wrong passwords are counted.
ChangesAreAudited ==
    [][<<account, catalog, members, grants, credential, sessions, tokens>>'
          # <<account, catalog, members, grants, credential, sessions, tokens>>
       \/ (assignments' # assignments /\ resources' = resources)
          => lastEvent'.sequence > lastEvent.sequence]_securityVars

-----------------------------------------------------------------------------
(* Sessions and tokens.                                                    *)

\* No user ever has more sessions running than allowed, however calls that
\* took the time early and logins that checked a password early interleave
\* (sessions.cpp:75, password_credentials.cpp:451).
SessionsWithinLimit ==
    \A u \in User : Cardinality(Running(u, clock)) <= MaxActiveSessions

\* A session or recovery token that stopped working never works again: not when
\* its user is enabled again, not by redaction, not by a later issue
\* (sessions.cpp:562).
SpentAccessStaysSpent ==
    [][/\ \A s \in Session :
             sessions[s] # NoSession /\ ~Usable(s) => ~Usable(s)'
       /\ \A t \in Token :
             tokens[t] # NoToken /\ ~Redeemable(t) => ~Redeemable(t)']_securityVars

\* When the password of a user is replaced, by whatever operation, nothing
\* issued under the old one works any longer.  Redeeming a token closes only
\* that token and relies on there being no other.
NewPasswordEndsOldAccess ==
    [][\A u \in User : credential'[u] # credential[u] =>
          /\ \A s \in Session : (Usable(s) => sessions[s].user # u)'
          /\ \A t \in Token : (Redeemable(t) => tokens[t].user # u)']_securityVars

\* A session ends when it expires, or by an audited operation of its owner or
\* of a manager, and redacting digests ends none.
SessionsEndByRight ==
    [][\A s \in Session : Usable(s) /\ ~Usable(s)' =>
          \/ sessions[s].expires = clock'
          \/ /\ lastEvent'.sequence = lastEvent.sequence + 1
             /\ ~sessions'[s].redacted
             /\ \/ lastEvent'.actor = sessions[s].user
                \/ CanManage(lastEvent'.actor)]_securityVars

-----------------------------------------------------------------------------
(* Passwords.                                                              *)

\* A password that was checked before the lock opens a session or replaces the
\* password only while it is the current one of an active user, whatever
\* happened in between (password_credentials.cpp:398).
OldPasswordsOpenNothing ==
    [][\A c \in Caller :
          LET u == attempts[c].user IN
          (/\ attempts[c] # NoAttempt
           /\ attempts'[c] = NoAttempt
           /\ \/ \E s \in Session : sessions[s] = NoSession /\ sessions'[s] # NoSession
              \/ credential' # credential) =>
                 /\ account[u] = "active"
                 /\ credential[u].password = attempts[c].password]_securityVars
=============================================================================
